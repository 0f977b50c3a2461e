-------------------------- MODULE RequestDeskProofs --------------------------
(***************************************************************************)
(* Theorems about RequestDesk, for any customers, requests, files and      *)
(* bounds: first filing and editing, then the lists and exports.           *)
(***************************************************************************)
EXTENDS RequestDesk, FiniteSetTheorems, WellFoundedInduction, TLAPS

Locations == FilingSteps \cup ExportSteps \cup EditSteps \cup {"idle", "done"}
NotFiled  == {"idle"} \cup FilingSteps

(* The types of all but the exports' jobs.                                 *)
TablesOK ==
  /\ rows \in [Requests -> Rows \cup {NoRow}]
  /\ \A id \in Stored : rows[id].status \in StatusesOf(rows[id].type)
  /\ files \subseteq Requests \X (1 .. MaxFiles)
  /\ tickets \in [Requests -> Nat]
  /\ attached \subseteq Requests
  /\ clock \in Times

(* Requests that may have stamped: a request stamps once, when it gets     *)
(* here, so that the clock never runs out.                                 *)
Stamped == {q \in Requests : pc[q] \in {"done", "edit", "saved"}}

JobsOK ==
  /\ pc \in [Requests -> Locations]
  /\ job = [q \in Requests |-> job[q]]
  /\ \A q \in Requests :
       /\ pc[q] \in FilingSteps => job[q] \in Filing
       /\ pc[q] = "upload" => job[q].stored < job[q].files
       /\ pc[q] \in EditSteps => job[q] \in Edit /\ job[q].status \in StatusesOf(job[q].type) \cup {Keep}
  /\ clock <= Cardinality(Stamped)

(* A row that is not filed yet is not there, nor its ticket before the     *)
(* ticket step; what a filing has done so far is in the tables.            *)
FilingOK(q) ==
  /\ pc[q] \in NotFiled => rows[q] = NoRow
  /\ pc[q] \in {"idle", "upload", "ticket"} => tickets[q] = 0
  /\ pc[q] \in FilingSteps =>
       /\ \A n \in 1 .. job[q].stored : <<q, n>> \in files
       /\ job[q].ticket => tickets[q] > 0
  /\ pc[q] = "attach" => tickets[q] > 0
  /\ tickets[q] <= 1
  /\ rows[q] # NoRow => /\ \A n \in 1 .. rows[q].files : <<q, n>> \in files
                        /\ rows[q].ticket => tickets[q] > 0
  /\ q \in attached => tickets[q] > 0
FilingInv == \A q \in Requests : FilingOK(q)

(* Each edit has a time of its own, which no history has before it is      *)
(* saved.                                                                  *)
History(id) == rows[id].history
StampInv ==
  /\ \A q \in Requests : pc[q] \in EditSteps => job[q].at \in 1 .. clock
  /\ \A p, q \in Requests :
       pc[p] \in EditSteps /\ pc[q] \in EditSteps /\ job[p].at = job[q].at => p = q
  /\ \A id \in Stored :
       /\ \A i \in 1 .. Len(History(id)) : History(id)[i].at <= clock
       /\ \A i, k \in 1 .. Len(History(id)) : History(id)[i].at = History(id)[k].at => i = k
  /\ \A id \in Stored, q \in Requests :
       pc[q] = "edit" => \A i \in 1 .. Len(History(id)) : History(id)[i].at # job[q].at

(* What an admin was told is saved is in the history.                      *)
SavedInv ==
  \A q \in Requests :
    pc[q] = "saved" /\ job[q].status # Keep =>
      /\ job[q].target \in Stored
      /\ \E i \in 1 .. Len(History(job[q].target)) : History(job[q].target)[i] = Change(job[q])

Agrees(r) ==
  /\ IF r.history = <<>> THEN r.status = FirstStatus(r.type) /\ r.statusAt = 0
     ELSE r.status = LastChange(r).status /\ r.statusAt = LastChange(r).at
  /\ r.resolvedAt = IF r.status \in ResolvedStatuses THEN r.statusAt ELSE 0

-----------------------------------------------------------------------------
(* What the operators give.                                                *)

LEMMA Numbers ==
  /\ MaxRequests \in Nat \ {0} /\ MaxFiles \in Nat
  /\ Requests \subseteq Times /\ Requests \subseteq Notes /\ 0 \in Times /\ 0 \in Notes
  /\ 0 \notin Requests /\ KeepNote \notin Notes
  BY DeskConstants DEF Requests, Times, Notes, KeepNote

LEMMA StatusFacts ==
  /\ \A t \in Types : FirstStatus(t) \in StatusesOf(t) /\ FirstStatus(t) \notin ResolvedStatuses
  /\ \A t \in Types : StatusesOf(t) \subseteq Statuses
  /\ Keep \notin Statuses /\ EditedTypes \subseteq Types
  BY DEF Types, FirstStatus, StatusesOf, IssueStatuses, FeatureStatuses, ResolvedStatuses,
     Statuses, Keep, EditedTypes

LEMMA StoredIsRow ==
  ASSUME TablesOK
  PROVE  /\ \A id \in Requests : id \in Stored <=> rows[id] \in Rows
         /\ \A id \in Requests : rows[id] \in Rows \/ rows[id] = NoRow
         /\ NoRow \notin Rows
<1>1. NoRow \notin Rows
  <2>1. \A r \in Rows : r.type \in Types BY DEF Rows
  <2>2. NoRow.type \notin Types BY DEF NoRow, Types
  <2>3. QED BY <2>1, <2>2
<1>2. QED BY <1>1 DEF TablesOK, Stored

LEMMA AppendFacts ==
  ASSUME NEW S, NEW s \in Seq(S), NEW e \in S
  PROVE  /\ Append(s, e) \in Seq(S) /\ Append(s, e) # <<>>
         /\ Len(Append(s, e)) = Len(s) + 1 /\ Len(s) \in Nat
         /\ \A i \in 1 .. Len(s) : Append(s, e)[i] = s[i]
         /\ Append(s, e)[Len(s) + 1] = e
  OBVIOUS

(* The row an edit leaves.                                                 *)
LEMMA UpdatedRow ==
  ASSUME NEW r \in Rows, NEW j \in Edit
  PROVE  /\ Updated(r, j) \in Rows
         /\ Updated(r, j).customer = r.customer /\ Updated(r, j).type = r.type
         /\ Updated(r, j).files = r.files /\ Updated(r, j).ticket = r.ticket
         /\ j.status = Keep =>
              /\ Updated(r, j).status = r.status /\ Updated(r, j).statusAt = r.statusAt
              /\ Updated(r, j).resolvedAt = r.resolvedAt /\ Updated(r, j).history = r.history
         /\ j.status # Keep =>
              /\ Change(j) \in StatusChange
              /\ Updated(r, j).status = j.status /\ Updated(r, j).statusAt = j.at
              /\ Updated(r, j).resolvedAt = IF j.status \in ResolvedStatuses THEN j.at ELSE 0
              /\ Updated(r, j).history = Append(r.history, Change(j))
<1>1. j.note = KeepNote \/ j.note \in Notes BY DEF Edit
<1>2. CASE j.status = Keep
  <2>1. WithStatus(r, j) = r BY <1>2 DEF WithStatus
  <2>2. QED BY <1>1, <1>2, <2>1 DEF Updated, WithNote, Rows
<1>3. CASE j.status # Keep
  <2> DEFINE s == WithStatus(r, j)
  <2>1. j.status \in Statuses /\ j.at \in Times BY <1>3, DeskConstants DEF Edit
  <2>2. Change(j) \in StatusChange /\ Change(j).status = j.status
    BY <1>1, <2>1, Numbers DEF Change, StatusChange, Clear
  <2>3. Append(r.history, Change(j)) \in Seq(StatusChange) BY <2>2, AppendFacts DEF Rows
  <2>4. 0 \in Times BY Numbers
  <2>5. /\ s \in Rows /\ s.customer = r.customer /\ s.type = r.type /\ s.files = r.files
        /\ s.ticket = r.ticket /\ s.status = j.status /\ s.statusAt = j.at
        /\ s.resolvedAt = IF j.status \in ResolvedStatuses THEN j.at ELSE 0
        /\ s.history = Append(r.history, Change(j))
    BY <1>3, <2>1, <2>3, <2>4 DEF WithStatus, Rows
  <2> HIDE DEF s
  <2>6. Updated(r, j) = IF j.note = KeepNote THEN s ELSE [s EXCEPT !.note = j.note]
    BY DEF Updated, WithNote, s
  <2>7. QED BY <1>1, <1>3, <2>2, <2>5, <2>6 DEF Rows
<1>4. QED BY <1>2, <1>3

LEMMA NewRowFits ==
  ASSUME NEW j \in Filing, clock \in Times, clock + 1 \in Times
  PROVE  /\ NewRow(j) \in Rows
         /\ NewRow(j).type = j.type /\ NewRow(j).status = FirstStatus(j.type)
         /\ NewRow(j).history = <<>> /\ NewRow(j).statusAt = 0 /\ NewRow(j).resolvedAt = 0
         /\ NewRow(j).files = j.stored /\ NewRow(j).ticket = j.ticket
<1>1. FirstStatus(j.type) \in Statuses /\ 0 \in Times /\ 0 \in Notes
  BY StatusFacts, Numbers DEF Filing
<1>2. <<>> \in Seq(StatusChange) OBVIOUS
<1>3. QED BY <1>1, <1>2 DEF NewRow, Rows, Filing, Clear

-----------------------------------------------------------------------------
(* Types.                                                                  *)

StampedSteps == {"done", "edit", "saved"}

LEMMA RequestsAreCounted == IsFiniteSet(Requests) /\ Cardinality(Requests) = MaxRequests
<1>1. MaxRequests \in Int /\ 1 \in Int /\ ~(1 > MaxRequests) BY Numbers
<1>2. IsFiniteSet(1 .. MaxRequests)
      /\ Cardinality(1 .. MaxRequests) = IF 1 > MaxRequests THEN 0 ELSE MaxRequests - 1 + 1
  BY <1>1, FS_Interval
<1>3. MaxRequests - 1 + 1 = MaxRequests BY <1>1
<1>4. QED BY <1>1, <1>2, <1>3 DEF Requests

(* A request moves on, and stamps at most on its way to where it has.      *)
LEMMA MoveOK ==
  ASSUME JobsOK, clock \in Times, NEW q \in Requests, NEW step \in Locations,
         Goto(q, step), job' = [p \in Requests |-> job'[p]],
         \A p \in Requests \ {q} : job'[p] = job[p],
         step \in FilingSteps => job'[q] \in Filing,
         step = "upload" => job'[q].stored < job'[q].files,
         step \in EditSteps => job'[q] \in Edit /\ job'[q].status \in StatusesOf(job'[q].type) \cup {Keep},
         \/ clock' = clock /\ (pc[q] \in StampedSteps => step \in StampedSteps)
         \/ clock' = clock + 1 /\ pc[q] \notin StampedSteps /\ step \in StampedSteps
  PROVE  /\ JobsOK' /\ clock' \in Times /\ clock <= clock'
         /\ pc'[q] = step /\ \A p \in Requests \ {q} : pc'[p] = pc[p]
<1>1. /\ pc' \in [Requests -> Locations] /\ pc'[q] = step
      /\ \A p \in Requests \ {q} : pc'[p] = pc[p]
  BY DEF JobsOK, Goto
<1>2. IsFiniteSet(Requests) /\ Cardinality(Requests) = MaxRequests BY RequestsAreCounted
<1>3. /\ IsFiniteSet(Stamped) /\ IsFiniteSet(Stamped') /\ Cardinality(Stamped) \in Nat
      /\ Cardinality(Stamped') \in Nat /\ Cardinality(Stamped') <= MaxRequests
  BY <1>2, FS_Subset, FS_CardinalityType DEF Stamped
<1>4. clock \in Nat /\ clock <= Cardinality(Stamped) BY DEF JobsOK, Times
<1>5. clock' \in Nat /\ clock <= clock' /\ clock' <= Cardinality(Stamped')
  <2>1. CASE clock' = clock /\ (pc[q] \in StampedSteps => step \in StampedSteps)
    <3>1. Stamped \subseteq Stamped' BY <1>1, <2>1 DEF Stamped, StampedSteps
    <3>2. Cardinality(Stamped) <= Cardinality(Stamped') BY <1>3, <3>1, FS_Subset
    <3>3. QED BY <1>3, <1>4, <2>1, <3>2
  <2>2. CASE clock' = clock + 1 /\ pc[q] \notin StampedSteps /\ step \in StampedSteps
    <3>1. Stamped' = Stamped \cup {q} /\ q \notin Stamped BY <1>1, <2>2 DEF Stamped, StampedSteps
    <3>2. Cardinality(Stamped') = Cardinality(Stamped) + 1 BY <1>3, <3>1, FS_AddElement
    <3>3. QED BY <1>3, <1>4, <2>2, <3>2
  <2>3. QED BY <2>1, <2>2
<1>6. clock' \in Times BY <1>3, <1>5, Numbers DEF Times
<1>7. QED BY <1>1, <1>5, <1>6 DEF JobsOK

LEMMA ClockFits ==
  ASSUME JobsOK, clock \in Times, NEW q \in Requests, pc[q] \notin StampedSteps
  PROVE  clock + 1 \in Times
<1>1. Stamped \subseteq Requests \ {q} /\ IsFiniteSet(Requests \ {q})
      /\ Cardinality(Requests \ {q}) = MaxRequests - 1
  BY RequestsAreCounted, FS_RemoveElement DEF Stamped, StampedSteps
<1>2. Cardinality(Stamped) <= MaxRequests - 1 /\ Cardinality(Stamped) \in Nat
  BY <1>1, FS_Subset, FS_CardinalityType
<1>3. QED BY <1>2, Numbers DEF JobsOK, Times

LEMMA LeaveOK ==
  ASSUME JobsOK, clock \in Times, NEW q \in Requests, Leave(q),
         clock' = clock \/ (clock' = clock + 1 /\ pc[q] \notin StampedSteps)
  PROVE  /\ JobsOK' /\ clock' \in Times /\ clock <= clock' /\ pc'[q] = "done"
         /\ \A p \in Requests \ {q} : pc'[p] = pc[p] /\ job'[p] = job[p]
<1>1. "done" \in Locations \ (FilingSteps \cup EditSteps) /\ "done" \in StampedSteps
  BY DEF Locations, FilingSteps, EditSteps, StampedSteps
<1>2. /\ Goto(q, "done") /\ job' = [p \in Requests |-> job'[p]]
      /\ \A p \in Requests \ {q} : job'[p] = job[p]
  BY DEF Leave, JobsOK
<1>3. QED BY <1>1, <1>2, MoveOK

(* The steps that leave the tables alone.                                  *)
Aside(q) ==
  \/ RefuseForm(q) \/ Stop(q) \/ BeginFiling(q) \/ RefuseTicket(q) \/ BeginEdit(q)
  \/ BeginList(q) \/ BeginExport(q) \/ ListPage(q) \/ FetchSome(q)

(* A job goes on with its filing, or begins one, with the tables as they   *)
(* are.                                                                    *)
LEMMA AsideMoves ==
  ASSUME TablesOK, JobsOK, NEW q \in Requests, Aside(q)
  PROVE  /\ JobsOK' /\ clock' \in Times /\ clock <= clock'
         /\ UNCHANGED <<rows, files, tickets, attached>>
         /\ \A p \in Requests \ {q} : pc'[p] = pc[p] /\ job'[p] = job[p]
         /\ pc'[q] \in {"idle"} \cup FilingSteps =>
              /\ pc[q] \in {"idle", "ticket"}
              /\ pc[q] = "idle" => pc'[q] # "attach" /\ job'[q].stored = 0 /\ ~job'[q].ticket
              /\ pc[q] = "ticket" =>
                   pc'[q] # "attach" /\ job'[q].stored = job[q].stored /\ job'[q].ticket = job[q].ticket
         /\ pc'[q] \in EditSteps =>
              /\ pc[q] = "idle" /\ pc'[q] = "edit"
              /\ clock' = clock + 1 /\ job'[q].at = clock'
<1> DEFINE Goal ==
  /\ JobsOK' /\ clock' \in Times /\ clock <= clock'
  /\ UNCHANGED <<rows, files, tickets, attached>>
  /\ \A p \in Requests \ {q} : pc'[p] = pc[p] /\ job'[p] = job[p]
  /\ pc'[q] \in {"idle"} \cup FilingSteps =>
       /\ pc[q] \in {"idle", "ticket"}
       /\ pc[q] = "idle" => pc'[q] # "attach" /\ job'[q].stored = 0 /\ ~job'[q].ticket
       /\ pc[q] = "ticket" =>
            pc'[q] # "attach" /\ job'[q].stored = job[q].stored /\ job'[q].ticket = job[q].ticket
  /\ pc'[q] \in EditSteps =>
       /\ pc[q] = "idle" /\ pc'[q] = "edit"
       /\ clock' = clock + 1 /\ job'[q].at = clock'
<1>1. clock \in Times BY DEF TablesOK
<1>2. \A step \in Locations \ (FilingSteps \cup EditSteps) :
        step # "idle" /\ Goto(q, step) /\ job' = [p \in Requests |-> job'[p]]
        /\ (\A p \in Requests \ {q} : job'[p] = job[p])
        /\ UNCHANGED <<rows, files, tickets, attached, clock>>
        /\ (pc[q] \in StampedSteps => step \in StampedSteps) => Goal
  <2> SUFFICES ASSUME NEW step \in Locations \ (FilingSteps \cup EditSteps),
                      step # "idle", Goto(q, step), job' = [p \in Requests |-> job'[p]],
                      \A p \in Requests \ {q} : job'[p] = job[p],
                      UNCHANGED <<rows, files, tickets, attached, clock>>,
                      pc[q] \in StampedSteps => step \in StampedSteps
               PROVE  Goal
    OBVIOUS
  <2>1. step \notin FilingSteps /\ step \notin EditSteps /\ step # "upload" BY DEF FilingSteps
  <2>2. /\ JobsOK' /\ clock' \in Times /\ clock <= clock'
        /\ pc'[q] = step /\ \A p \in Requests \ {q} : pc'[p] = pc[p]
    BY <1>1, <2>1, MoveOK
  <2>3. QED BY <2>1, <2>2
<1>3. CASE RefuseForm(q)
  BY <1>2, <1>3 DEF RefuseForm, tables, JobsOK, Locations, FilingSteps, EditSteps, StampedSteps
<1>4. CASE Stop(q)
  BY <1>2, <1>4 DEF Stop, Leave, tables, JobsOK, Locations, FilingSteps, EditSteps, StampedSteps
<1>5. CASE BeginList(q) \/ BeginExport(q)
  <2>1. PICK j : Begin(q, j) /\ pc[q] = "idle" BY <1>5 DEF BeginList, BeginExport, MayBegin
  <2>2. QED
    BY <1>2, <2>1 DEF Begin, tables, JobsOK, Locations, ExportSteps, FilingSteps, EditSteps, StampedSteps
<1>6. CASE ListPage(q)
  <2>1. /\ job' = [p \in Requests |-> job'[p]] /\ \A p \in Requests \ {q} : job'[p] = job[p]
        /\ pc[q] = "list" /\ UNCHANGED <<rows, files, tickets, attached, clock>>
        /\ Goto(q, "list") \/ Goto(q, "fetch") \/ Goto(q, "exported")
    <3>1. PICK step \in {"list", "fetch", "exported"} :
            /\ pc[q] = "list" /\ Goto(q, step) /\ UNCHANGED tables /\ UNCHANGED clock
            /\ \E ids, cursor : job' = [job EXCEPT ![q].ids = ids, ![q].cursor = cursor]
      BY <1>6 DEF ListPage
    <3>2. PICK ids, cursor : job' = [job EXCEPT ![q].ids = ids, ![q].cursor = cursor] BY <3>1
    <3>3. QED BY <3>1, <3>2 DEF tables, JobsOK
  <2>2. QED BY <1>2, <2>1 DEF Locations, ExportSteps, FilingSteps, EditSteps, StampedSteps
<1>7. CASE FetchSome(q)
  <2>1. /\ job' = [p \in Requests |-> job'[p]] /\ \A p \in Requests \ {q} : job'[p] = job[p]
        /\ pc[q] = "fetch" /\ UNCHANGED <<rows, files, tickets, attached, clock>>
        /\ Goto(q, "fetch") \/ Goto(q, "exported")
    BY <1>7 DEF FetchSome, tables, JobsOK, Goto
  <2>2. QED BY <1>2, <2>1 DEF Locations, ExportSteps, FilingSteps, EditSteps, StampedSteps
<1>8. CASE BeginFiling(q)
  <2>1. PICK c \in Customers, t \in Types, n \in 0 .. MaxFiles, handler \in BOOLEAN :
          /\ job' = [job EXCEPT ![q] = [customer |-> c, type |-> t, files |-> n, stored |-> 0,
                                        handler |-> handler, ticket |-> FALSE]]
          /\ Goto(q, IF t = "how_to_missing" THEN "add"
                     ELSE IF t = "new_feature" /\ n > 0 THEN "upload" ELSE "ticket")
    BY <1>8 DEF BeginFiling
  <2> DEFINE j == [customer |-> c, type |-> t, files |-> n, stored |-> 0, handler |-> handler, ticket |-> FALSE]
             step == IF t = "how_to_missing" THEN "add"
                     ELSE IF t = "new_feature" /\ n > 0 THEN "upload" ELSE "ticket"
  <2>2. j \in Filing /\ j.stored = 0 /\ j.files = n /\ ~j.ticket
    <3>1. 0 \in 0 .. MaxFiles BY Numbers
    <3>2. QED BY <3>1 DEF Filing
  <2>3. /\ step \in {"add", "upload", "ticket"} /\ (step = "upload" => j.stored < j.files)
        /\ Goto(q, step) /\ job' = [job EXCEPT ![q] = j]
    BY <2>1, <2>2
  <2>4. pc[q] = "idle" /\ UNCHANGED <<rows, files, tickets, attached, clock>>
    BY <1>8 DEF BeginFiling, MayBegin, tables
  <2> HIDE DEF j, step
  <2>5. job'[q] = j /\ job' = [p \in Requests |-> job'[p]] /\ \A p \in Requests \ {q} : job'[p] = job[p]
    BY <2>3 DEF JobsOK
  <2>6. step \in Locations /\ step \notin EditSteps /\ "idle" \notin StampedSteps
    BY <2>3 DEF Locations, FilingSteps, EditSteps, StampedSteps
  <2>7. JobsOK' /\ clock' \in Times /\ clock <= clock' /\ pc'[q] = step
        /\ \A p \in Requests \ {q} : pc'[p] = pc[p]
    BY <1>1, <2>2, <2>3, <2>4, <2>5, <2>6, MoveOK
  <2>8. QED BY <2>2, <2>3, <2>4, <2>5, <2>6, <2>7
<1>9. CASE RefuseTicket(q)
  <2> DEFINE j == [job[q] EXCEPT !.handler = FALSE]
             step == IF job[q].handler THEN "ticket" ELSE "add"
  <2>1. /\ pc[q] = "ticket" /\ job' = [job EXCEPT ![q] = j] /\ Goto(q, step)
        /\ UNCHANGED <<rows, files, tickets, attached, clock>>
    BY <1>9 DEF RefuseTicket, tables
  <2>2. job[q] \in Filing BY <2>1 DEF JobsOK, FilingSteps
  <2>3. j \in Filing /\ j.stored = job[q].stored /\ j.ticket = job[q].ticket BY <2>2 DEF Filing
  <2>4. step \in {"ticket", "add"} OBVIOUS
  <2> HIDE DEF j, step
  <2>5. job'[q] = j /\ job' = [p \in Requests |-> job'[p]] /\ \A p \in Requests \ {q} : job'[p] = job[p]
    BY <2>1 DEF JobsOK
  <2>6. /\ step \in Locations /\ step \notin EditSteps /\ step # "upload"
        /\ "ticket" \notin StampedSteps
    BY <2>4 DEF Locations, FilingSteps, EditSteps, StampedSteps
  <2>7. JobsOK' /\ clock' \in Times /\ clock <= clock' /\ pc'[q] = step
        /\ \A p \in Requests \ {q} : pc'[p] = pc[p]
    BY <1>1, <2>1, <2>3, <2>5, <2>6, MoveOK
  <2>8. QED BY <2>1, <2>3, <2>4, <2>5, <2>6, <2>7
<1>10. CASE BeginEdit(q)
  <2>1. PICK c \in Customers, t \in EditedTypes, id \in Stored \cup {q}, note \in {KeepNote, Clear, q},
             status \in EditStatuses \cup {Keep} :
          /\ status \in StatusesOf(t) \cup {Keep}
          /\ Changes(status, note)
          /\ job' = [job EXCEPT ![q] =
               [customer |-> c, type |-> t, target |-> id, at |-> clock + 1,
                status |-> status, note |-> note]]
    BY <1>10, Zenon DEF BeginEdit
  <2> DEFINE j == [customer |-> c, type |-> t, target |-> id, at |-> clock + 1, status |-> status, note |-> note]
  <2>2. /\ pc[q] = "idle" /\ Goto(q, "edit") /\ clock' = clock + 1
        /\ UNCHANGED <<rows, files, tickets, attached>>
    BY <1>10 DEF BeginEdit, MayBegin, tables
  <2>3. "idle" \notin StampedSteps /\ "edit" \in StampedSteps
    BY DEF StampedSteps
  <2>4. clock + 1 \in Times BY <1>1, <2>2, <2>3, ClockFits
  <2>5. j \in Edit /\ j.at = clock + 1 /\ j.status \in StatusesOf(j.type) \cup {Keep}
    <3>1. id \in Requests BY DEF Stored
    <3>2. note \in Notes \cup {KeepNote} BY Numbers DEF Clear
    <3>3. QED BY <2>1, <2>4, <3>1, <3>2 DEF Edit
  <2> HIDE DEF j
  <2>6. job'[q] = j /\ job' = [p \in Requests |-> job'[p]] /\ \A p \in Requests \ {q} : job'[p] = job[p]
    BY <2>1 DEF JobsOK, j
  <2>7. "edit" \in Locations /\ "edit" \notin FilingSteps /\ "edit" # "upload" /\ "edit" # "idle"
    BY DEF Locations, FilingSteps, EditSteps
  <2>8. JobsOK' /\ clock' \in Times /\ clock <= clock' /\ pc'[q] = "edit"
        /\ \A p \in Requests \ {q} : pc'[p] = pc[p]
    BY <1>1, <2>2, <2>3, <2>5, <2>6, <2>7, MoveOK
  <2>9. QED BY <2>2, <2>5, <2>6, <2>7, <2>8
<1>11. QED BY <1>3, <1>4, <1>5, <1>6, <1>7, <1>8, <1>9, <1>10 DEF Aside

LEMMA UploadMoves ==
  ASSUME TablesOK, JobsOK, NEW q \in Requests, Upload(q)
  PROVE  /\ TablesOK' /\ JobsOK' /\ UNCHANGED <<rows, tickets, attached, clock>>
         /\ files \subseteq files' /\ pc[q] = "upload"
         /\ \A p \in Requests \ {q} : pc'[p] = pc[p] /\ job'[p] = job[p]
         /\ \/ pc'[q] = "done"
            \/ /\ pc'[q] \in {"upload", "ticket"} /\ job'[q].ticket = job[q].ticket
               /\ job[q].stored \in Nat /\ job'[q].stored = job[q].stored + 1
               /\ <<q, job[q].stored + 1>> \in files'
<1>1. /\ pc[q] = "upload" /\ UNCHANGED <<rows, index, tickets, attached, clock>>
      /\ clock \in Times
  BY DEF Upload, TablesOK
<1>2. pc[q] \in FilingSteps /\ "upload" \notin StampedSteps
  BY <1>1 DEF FilingSteps, StampedSteps
<1>3. job[q] \in Filing /\ job[q].stored < job[q].files BY <1>1, <1>2 DEF JobsOK
<1>4. CASE Leave(q) /\ UNCHANGED files
  <2>1. /\ JobsOK' /\ pc'[q] = "done"
        /\ \A p \in Requests \ {q} : pc'[p] = pc[p] /\ job'[p] = job[p]
    <3>1. clock' = clock \/ (clock' = clock + 1 /\ pc[q] \notin StampedSteps) BY <1>1
    <3>2. clock \in Times /\ Leave(q) BY <1>1, <1>4
    <3>3. QED BY ONLY <3>1, <3>2, JobsOK, q \in Requests, LeaveOK
  <2>2. TablesOK' BY <1>1, <1>4 DEF TablesOK, Stored
  <2>3. QED BY <1>1, <1>4, <2>1, <2>2
<1>5. ASSUME NEW n, n = job[q].stored + 1, StoreFile(q, n),
             job' = [job EXCEPT ![q].stored = n],
             Goto(q, IF n = job[q].files THEN "ticket" ELSE "upload")
      PROVE  /\ TablesOK' /\ JobsOK' /\ files \subseteq files'
             /\ \A p \in Requests \ {q} : pc'[p] = pc[p] /\ job'[p] = job[p]
             /\ pc'[q] \in {"upload", "ticket"} /\ job'[q].ticket = job[q].ticket
             /\ job[q].stored \in Nat /\ job'[q].stored = job[q].stored + 1
             /\ <<q, job[q].stored + 1>> \in files'
  <2> DEFINE j == [job[q] EXCEPT !.stored = n]
             step == IF n = job[q].files THEN "ticket" ELSE "upload"
  <2>1. /\ job[q].stored \in Nat /\ job[q].files \in Nat /\ job[q].files <= MaxFiles
        /\ n \in 0 .. MaxFiles /\ n \in 1 .. MaxFiles
    BY <1>3, <1>5, Numbers DEF Filing
  <2>2. /\ j \in Filing /\ j.stored = n /\ j.files = job[q].files /\ j.ticket = job[q].ticket
    BY <1>3, <2>1 DEF Filing
  <2>3. step \in {"ticket", "upload"} /\ (step = "upload" => j.stored < j.files)
    BY <1>3, <1>5, <2>1, <2>2
  <2>4. Goto(q, step) /\ job' = [job EXCEPT ![q] = j] BY <1>5
  <2> HIDE DEF j, step
  <2>5. job'[q] = j /\ job' = [p \in Requests |-> job'[p]] /\ \A p \in Requests \ {q} : job'[p] = job[p]
    BY <2>4 DEF JobsOK
  <2>6. step \in Locations /\ step \notin EditSteps
    BY <2>3 DEF Locations, FilingSteps, EditSteps
  <2>7. JobsOK' /\ pc'[q] = step /\ \A p \in Requests \ {q} : pc'[p] = pc[p]
    BY <1>1, <1>2, <2>2, <2>3, <2>4, <2>5, <2>6, MoveOK
  <2>8. files' = files \cup {<<q, n>>} BY <1>5 DEF StoreFile
  <2>9. TablesOK' BY <1>1, <2>1, <2>8 DEF TablesOK, Stored
  <2>10. QED BY <1>5, <2>1, <2>2, <2>3, <2>5, <2>7, <2>8, <2>9
<1>6. \/ Leave(q) /\ UNCHANGED files
      \/ \E n : /\ n = job[q].stored + 1 /\ StoreFile(q, n)
                /\ job' = [job EXCEPT ![q].stored = n]
                /\ Goto(q, IF n = job[q].files THEN "ticket" ELSE "upload")
  BY DEF Upload
<1>7. QED BY <1>1, <1>4, <1>5, <1>6

LEMMA TicketMoves ==
  ASSUME TablesOK, JobsOK, NEW q \in Requests, FileTicket(q) \/ TicketUnknown(q)
  PROVE  /\ TablesOK' /\ JobsOK' /\ UNCHANGED <<rows, files, attached, clock>>
         /\ pc[q] = "ticket" /\ pc'[q] \in {"attach", "add"}
         /\ \A p \in Requests \ {q} :
              pc'[p] = pc[p] /\ job'[p] = job[p] /\ tickets'[p] = tickets[p]
         /\ job'[q].stored = job[q].stored
         /\ tickets'[q] \in {tickets[q], tickets[q] + 1}
         /\ pc'[q] = "attach" => tickets'[q] = tickets[q] + 1
         /\ job'[q].ticket => job[q].ticket \/ tickets'[q] = tickets[q] + 1
<1>1. /\ pc[q] = "ticket" /\ UNCHANGED <<rows, index, files, attached, clock>> /\ clock \in Times
      /\ tickets \in [Requests -> Nat]
  BY DEF FileTicket, TicketUnknown, TablesOK
<1>2. pc[q] \in FilingSteps /\ "ticket" \notin StampedSteps BY <1>1 DEF FilingSteps, StampedSteps
<1>3. job[q] \in Filing BY <1>1, <1>2 DEF JobsOK
<1>4. PICK step \in {"attach", "add"}, j \in {job[q], [job[q] EXCEPT !.ticket = TRUE]} :
        /\ Goto(q, step) /\ job' = [job EXCEPT ![q] = j] /\ tickets' \in {tickets, Filed(q)}
        /\ step = "attach" \/ j # job[q] => tickets' = Filed(q)
  <2>1. CASE FileTicket(q) BY <2>1 DEF FileTicket, AfterTicket
  <2>2. CASE TicketUnknown(q) BY <2>2 DEF TicketUnknown, JobsOK
  <2>3. QED BY <2>1, <2>2
<1>5. j \in Filing /\ j.stored = job[q].stored /\ (j.ticket => job[q].ticket \/ j # job[q])
  BY <1>3 DEF Filing
<1>6. job'[q] = j /\ job' = [p \in Requests |-> job'[p]] /\ \A p \in Requests \ {q} : job'[p] = job[p]
  BY <1>4 DEF JobsOK
<1>7. step \in Locations /\ step \notin EditSteps /\ step # "upload"
  BY DEF Locations, FilingSteps, EditSteps
<1>8. JobsOK' /\ pc'[q] = step /\ \A p \in Requests \ {q} : pc'[p] = pc[p]
  BY <1>1, <1>2, <1>4, <1>5, <1>6, <1>7, MoveOK
<1>9. /\ Filed(q) \in [Requests -> Nat] /\ Filed(q)[q] = tickets[q] + 1
      /\ \A p \in Requests \ {q} : Filed(q)[p] = tickets[p]
  BY <1>1 DEF Filed
<1>10. TablesOK' BY <1>1, <1>4, <1>9 DEF TablesOK, Stored
<1>11. QED BY <1>1, <1>4, <1>5, <1>6, <1>8, <1>9, <1>10

LEMMA AttachMoves ==
  ASSUME TablesOK, JobsOK, NEW q \in Requests, Attach(q)
  PROVE  /\ TablesOK' /\ JobsOK' /\ UNCHANGED <<rows, files, tickets, clock, job>>
         /\ pc[q] = "attach" /\ pc'[q] = "add" /\ attached' \subseteq attached \cup {q}
         /\ \A p \in Requests \ {q} : pc'[p] = pc[p]
<1>1. /\ pc[q] = "attach" /\ UNCHANGED <<rows, index, files, tickets, clock, job>> /\ clock \in Times
      /\ attached' \subseteq attached \cup {q} /\ Goto(q, "add")
  BY DEF Attach, TablesOK
<1>2. /\ pc[q] \in FilingSteps /\ "attach" \notin StampedSteps /\ "add" \in Locations
      /\ "add" \notin EditSteps /\ "add" # "upload"
  BY <1>1 DEF FilingSteps, StampedSteps, Locations, EditSteps
<1>3. job'[q] \in Filing /\ job' = [p \in Requests |-> job'[p]] /\ \A p \in Requests \ {q} : job'[p] = job[p]
  BY <1>1, <1>2 DEF JobsOK
<1>4. JobsOK' /\ pc'[q] = "add" /\ \A p \in Requests \ {q} : pc'[p] = pc[p]
  BY <1>1, <1>2, <1>3, MoveOK
<1>5. TablesOK' BY <1>1 DEF TablesOK, Stored
<1>6. QED BY <1>1, <1>4, <1>5

LEMMA AddMoves ==
  ASSUME TablesOK, JobsOK, NEW q \in Requests, AddRow(q)
  PROVE  /\ TablesOK' /\ JobsOK' /\ UNCHANGED <<files, tickets, attached>>
         /\ pc[q] = "add" /\ pc'[q] = "done" /\ job[q] \in Filing /\ clock <= clock'
         /\ \A p \in Requests \ {q} : pc'[p] = pc[p] /\ job'[p] = job[p] /\ rows'[p] = rows[p]
         /\ rows'[q] = NewRow(job[q]) /\ NewRow(job[q]) \in Rows
         /\ NewRow(job[q]).files = job[q].stored /\ NewRow(job[q]).ticket = job[q].ticket
         /\ NewRow(job[q]).status = FirstStatus(NewRow(job[q]).type)
         /\ NewRow(job[q]).type \in Types /\ NewRow(job[q]).history = <<>>
         /\ NewRow(job[q]).statusAt = 0 /\ NewRow(job[q]).resolvedAt = 0
<1>1. /\ pc[q] = "add" /\ UNCHANGED <<index, files, tickets, attached>> /\ clock \in Times
      /\ rows' = [rows EXCEPT ![q] = NewRow(job[q])] /\ clock' = clock + 1 /\ Leave(q)
  BY DEF AddRow, TablesOK
<1>2. pc[q] \in FilingSteps /\ pc[q] \notin StampedSteps BY <1>1 DEF FilingSteps, StampedSteps
<1>3. job[q] \in Filing /\ job[q].type \in Types BY <1>2 DEF JobsOK, Filing
<1>4. clock + 1 \in Times BY <1>1, <1>2, ClockFits
<1>5. /\ JobsOK' /\ clock' \in Times /\ clock <= clock' /\ pc'[q] = "done"
      /\ \A p \in Requests \ {q} : pc'[p] = pc[p] /\ job'[p] = job[p]
  BY <1>1, <1>2, LeaveOK
<1>6. /\ NewRow(job[q]) \in Rows
      /\ NewRow(job[q]).type = job[q].type /\ NewRow(job[q]).status = FirstStatus(job[q].type)
      /\ NewRow(job[q]).history = <<>> /\ NewRow(job[q]).statusAt = 0
      /\ NewRow(job[q]).resolvedAt = 0
      /\ NewRow(job[q]).files = job[q].stored /\ NewRow(job[q]).ticket = job[q].ticket
  BY <1>1, <1>3, <1>4, NewRowFits
<1> HIDE DEF NewRow
<1>7. /\ rows' \in [Requests -> Rows \cup {NoRow}] /\ rows'[q] = NewRow(job[q])
      /\ \A p \in Requests \ {q} : rows'[p] = rows[p]
  BY <1>1, <1>6 DEF TablesOK
<1>8. \A id \in Stored' : rows'[id].status \in StatusesOf(rows'[id].type)
  BY <1>3, <1>6, <1>7, StatusFacts DEF TablesOK, Stored
<1>9. TablesOK' BY <1>1, <1>5, <1>7, <1>8 DEF TablesOK
<1>10. QED BY <1>1, <1>3, <1>5, <1>6, <1>7, <1>9

LEMMA EditMoves ==
  ASSUME TablesOK, JobsOK, NEW q \in Requests, ApplyEdit(q)
  PROVE  /\ TablesOK' /\ JobsOK' /\ UNCHANGED <<files, tickets, attached, clock>>
         /\ pc[q] = "edit" /\ job[q] \in Edit
         /\ \A p \in Requests \ {q} : pc'[p] = pc[p] /\ job'[p] = job[p]
         /\ \/ rows' = rows /\ pc'[q] = "done"
            \/ /\ pc'[q] = "saved" /\ job'[q] = job[q]
               /\ job[q].target \in Requests /\ Matches(rows[job[q].target], job[q])
               /\ rows[job[q].target] \in Rows
               /\ rows'[job[q].target] = Updated(rows[job[q].target], job[q])
               /\ \A id \in Requests \ {job[q].target} : rows'[id] = rows[id]
<1>1. pc[q] = "edit" /\ UNCHANGED <<index, files, tickets, attached, clock>> /\ clock \in Times
  BY DEF ApplyEdit, TablesOK
<1>2. pc[q] \in EditSteps /\ "edit" \in StampedSteps BY <1>1 DEF EditSteps, StampedSteps
<1>3. job[q] \in Edit /\ job[q].status \in StatusesOf(job[q].type) \cup {Keep} BY <1>2 DEF JobsOK
<1>4. CASE Leave(q) /\ rows' = rows
  <2>1. clock' = clock \/ (clock' = clock + 1 /\ pc[q] \notin StampedSteps) BY <1>1
  <2>2. /\ JobsOK' /\ pc'[q] = "done"
        /\ \A p \in Requests \ {q} : pc'[p] = pc[p] /\ job'[p] = job[p]
    <3>1. clock \in Times /\ Leave(q) BY <1>1, <1>4
    <3>2. QED BY ONLY <2>1, <3>1, JobsOK, q \in Requests, LeaveOK
  <2>3. TablesOK' BY <1>1, <1>4 DEF TablesOK, Stored
  <2>4. QED BY <1>1, <1>3, <1>4, <2>2, <2>3
<1>5. CASE /\ Matches(rows[job[q].target], job[q])
           /\ rows' = [rows EXCEPT ![job[q].target] = Updated(@, job[q])]
           /\ Goto(q, "saved") /\ UNCHANGED job
  <2>1. PICK id \in Requests : id = job[q].target BY <1>3 DEF Edit
  <2>2. PICK j \in Edit : j = job[q] BY <1>3
  <2>3. rows[id] \in Rows /\ id \in Stored /\ rows[id].type = j.type
    BY <1>5, <2>1, <2>2, StoredIsRow DEF Matches, Stored
  <2>4. /\ Updated(rows[id], j) \in Rows /\ Updated(rows[id], j).type = j.type
        /\ Updated(rows[id], j).status = IF j.status = Keep THEN rows[id].status ELSE j.status
    BY <2>3, UpdatedRow
  <2>5. rows[id].status \in StatusesOf(j.type) BY <2>3 DEF TablesOK
  <2>6. Updated(rows[id], j).status \in StatusesOf(j.type) BY <1>3, <2>2, <2>4, <2>5
  <2> HIDE DEF Updated
  <2>7. /\ rows' \in [Requests -> Rows \cup {NoRow}] /\ rows'[id] = Updated(rows[id], j)
        /\ \A p \in Requests \ {id} : rows'[p] = rows[p]
    BY <1>5, <2>1, <2>2, <2>4 DEF TablesOK
  <2>8. \A p \in Stored' : rows'[p].status \in StatusesOf(rows'[p].type)
    BY <2>4, <2>6, <2>7 DEF TablesOK, Stored
  <2>9. TablesOK' BY <1>1, <2>7, <2>8 DEF TablesOK
  <2>10. /\ "saved" \in Locations /\ "saved" \notin FilingSteps /\ "saved" # "upload"
         /\ "saved" \in StampedSteps
    BY DEF Locations, EditSteps, FilingSteps, StampedSteps
  <2>11. /\ job' = [p \in Requests |-> job'[p]] /\ \A p \in Requests : job'[p] = job[p]
         /\ clock' = clock /\ job'[q] \in Edit
         /\ job'[q].status \in StatusesOf(job'[q].type) \cup {Keep}
    BY <1>1, <1>3, <1>5 DEF JobsOK
  <2>12. JobsOK' /\ pc'[q] = "saved" /\ \A p \in Requests \ {q} : pc'[p] = pc[p]
    BY <1>1, <1>5, <2>10, <2>11, MoveOK
  <2>13. QED BY <1>1, <1>3, <1>5, <2>1, <2>2, <2>3, <2>7, <2>9, <2>11, <2>12
<1>6. QED BY <1>4, <1>5 DEF ApplyEdit

LEMMA ContactMoves ==
  ASSUME TablesOK, JobsOK, NEW q \in Requests, SetContact(q)
  PROVE  /\ TablesOK' /\ JobsOK' /\ UNCHANGED <<files, tickets, attached, clock, job>>
         /\ pc[q] = "idle" /\ pc'[q] = "done"
         /\ \A p \in Requests \ {q} : pc'[p] = pc[p]
         /\ \E id \in Stored : /\ rows[id] \in Rows
                               /\ rows' = [rows EXCEPT ![id] = [rows[id] EXCEPT !.contact = q]]
                               /\ rows'[id] = [rows[id] EXCEPT !.contact = q]
                               /\ \A p \in Requests \ {id} : rows'[p] = rows[p]
<1>1. /\ pc[q] = "idle" /\ UNCHANGED <<index, files, tickets, attached, clock, job>>
      /\ clock \in Times /\ Goto(q, "done")
  BY DEF SetContact, MayBegin, TablesOK
<1>2. PICK id \in Stored : rows' = [rows EXCEPT ![id].contact = q] BY DEF SetContact
<1>3. rows[id] \in Rows /\ id \in Requests BY StoredIsRow DEF Stored
<1>4. PICK r \in Rows : r = rows[id] BY <1>3
<1>5. q \in Notes BY Numbers
<1>6. [r EXCEPT !.contact = q] \in Rows /\ [r EXCEPT !.contact = q].type = r.type
      /\ [r EXCEPT !.contact = q].status = r.status
  BY <1>4, <1>5 DEF Rows
<1>7. rows' = [rows EXCEPT ![id] = [r EXCEPT !.contact = q]] BY <1>2, <1>4
<1>8. /\ rows' \in [Requests -> Rows \cup {NoRow}] /\ rows'[id] = [r EXCEPT !.contact = q]
      /\ \A p \in Requests \ {id} : rows'[p] = rows[p]
  BY <1>3, <1>6, <1>7 DEF TablesOK
<1>9. \A p \in Stored' : rows'[p].status \in StatusesOf(rows'[p].type)
  BY <1>3, <1>4, <1>6, <1>8 DEF TablesOK, Stored
<1>10. TablesOK' BY <1>1, <1>8, <1>9 DEF TablesOK
<1>11. /\ "done" \in Locations /\ "done" \notin FilingSteps /\ "done" \notin EditSteps
       /\ "done" # "upload" /\ "done" \in StampedSteps
  BY DEF Locations, FilingSteps, EditSteps, StampedSteps
<1>12. /\ job' = [p \in Requests |-> job'[p]] /\ \A p \in Requests : job'[p] = job[p]
       /\ clock' = clock
  BY <1>1 DEF JobsOK
<1>13. JobsOK' /\ pc'[q] = "done" /\ \A p \in Requests \ {q} : pc'[p] = pc[p]
  BY <1>1, <1>11, <1>12, MoveOK
<1>14. QED BY <1>1, <1>3, <1>4, <1>7, <1>8, <1>10, <1>13

-----------------------------------------------------------------------------
(* The types are kept.                                                     *)

Typed == TablesOK /\ JobsOK

LEMMA StepCases ==
  ASSUME [Next]_vars
  PROVE  \/ \E q \in Requests : \/ Aside(q) \/ Upload(q) \/ FileTicket(q) \/ TicketUnknown(q)
                                \/ Attach(q) \/ AddRow(q) \/ ApplyEdit(q) \/ SetContact(q)
         \/ UNCHANGED <<rows, files, tickets, attached, clock, pc, job>>
<1>1. CASE UNCHANGED vars BY <1>1 DEF vars, tables
<1>2. CASE \E id \in Requests : IndexRow(id) BY <1>2 DEF IndexRow
<1>3. ASSUME NEW q \in Requests,
             \/ RefuseForm(q) \/ Stop(q)
             \/ BeginFiling(q) \/ Upload(q) \/ FileTicket(q) \/ TicketUnknown(q) \/ RefuseTicket(q)
             \/ Attach(q) \/ AddRow(q)
             \/ BeginEdit(q) \/ ApplyEdit(q) \/ SetContact(q)
             \/ BeginList(q) \/ BeginExport(q) \/ ListPage(q) \/ FetchSome(q)
      PROVE  \/ Aside(q) \/ Upload(q) \/ FileTicket(q) \/ TicketUnknown(q)
             \/ Attach(q) \/ AddRow(q) \/ ApplyEdit(q) \/ SetContact(q)
  BY <1>3 DEF Aside
<1>4. QED BY <1>1, <1>2, <1>3 DEF Next

LEMMA TypedInit == Init => Typed
<1> SUFFICES ASSUME Init PROVE Typed OBVIOUS
<1>1. TablesOK BY Numbers DEF Init, TablesOK, Stored
<1>2. Stamped = {} /\ clock = 0 BY DEF Init, Stamped
<1>3. clock <= Cardinality(Stamped) BY <1>2, FS_EmptySet
<1>4. \A q \in Requests : pc[q] = "idle" /\ pc[q] \notin FilingSteps \cup EditSteps
  BY DEF Init, FilingSteps, EditSteps
<1>5. pc \in [Requests -> Locations] BY DEF Init, Locations
<1>6. job = [q \in Requests |-> job[q]] BY DEF Init
<1>7. QED BY <1>1, <1>3, <1>4, <1>5, <1>6 DEF Typed, JobsOK

LEMMA TypedStep ==
  ASSUME Typed, [Next]_vars
  PROVE  Typed'
<1>1. TablesOK /\ JobsOK BY DEF Typed
<1>2. CASE UNCHANGED <<rows, files, tickets, attached, clock, pc, job>>
  <2>1. TablesOK' BY <1>1, <1>2 DEF TablesOK, Stored
  <2>2. JobsOK' BY <1>1, <1>2 DEF JobsOK, Stamped
  <2>3. QED BY <2>1, <2>2 DEF Typed
<1>3. ASSUME NEW q \in Requests, Aside(q) PROVE Typed'
  <2>1. JobsOK' /\ clock' \in Times /\ UNCHANGED <<rows, files, tickets, attached>>
    BY <1>1, <1>3, AsideMoves
  <2>2. TablesOK' BY <1>1, <2>1 DEF TablesOK, Stored
  <2>3. QED BY <2>1, <2>2 DEF Typed
<1>4. ASSUME NEW q \in Requests, Upload(q) PROVE Typed' BY <1>1, <1>4, UploadMoves DEF Typed
<1>5. ASSUME NEW q \in Requests, FileTicket(q) \/ TicketUnknown(q) PROVE Typed'
  BY <1>1, <1>5, TicketMoves DEF Typed
<1>6. ASSUME NEW q \in Requests, Attach(q) PROVE Typed' BY <1>1, <1>6, AttachMoves DEF Typed
<1>7. ASSUME NEW q \in Requests, AddRow(q) PROVE Typed' BY <1>1, <1>7, AddMoves DEF Typed
<1>8. ASSUME NEW q \in Requests, ApplyEdit(q) PROVE Typed' BY <1>1, <1>8, EditMoves DEF Typed
<1>9. ASSUME NEW q \in Requests, SetContact(q) PROVE Typed' BY <1>1, <1>9, ContactMoves DEF Typed
<1>10. QED BY <1>2, <1>3, <1>4, <1>5, <1>6, <1>7, <1>8, <1>9, StepCases

-----------------------------------------------------------------------------
(* Filing: one ticket, and rows that are backed.                           *)

(* What a request has filed stays while it moves no further.               *)
LEMMA FilingFrame ==
  ASSUME NEW p \in Requests, FilingOK(p),
         pc'[p] = pc[p], job'[p] = job[p], tickets'[p] = tickets[p], files \subseteq files',
         p \in attached' => p \in attached,
         \/ rows'[p] = rows[p]
         \/ /\ rows[p] # NoRow /\ rows'[p] # NoRow
            /\ rows'[p].files = rows[p].files /\ rows'[p].ticket = rows[p].ticket
  PROVE  FilingOK(p)'
  BY DEF FilingOK

LEMMA FilingStep ==
  ASSUME Typed, FilingInv, [Next]_vars
  PROVE  FilingInv'
<1>1. TablesOK /\ JobsOK BY DEF Typed
<1>2. \A p \in Requests : FilingOK(p) /\ tickets[p] \in Nat BY <1>1 DEF FilingInv, TablesOK
<1>3. CASE UNCHANGED <<rows, files, tickets, attached, clock, pc, job>>
  BY <1>2, <1>3, FilingFrame DEF FilingInv
<1>4. ASSUME NEW q \in Requests, Aside(q) PROVE FilingInv'
  <2>1. /\ UNCHANGED <<rows, files, tickets, attached>>
        /\ \A p \in Requests \ {q} : pc'[p] = pc[p] /\ job'[p] = job[p]
        /\ pc'[q] \in NotFiled =>
             /\ pc[q] \in {"idle", "ticket"}
             /\ pc[q] = "idle" => pc'[q] # "attach" /\ job'[q].stored = 0 /\ ~job'[q].ticket
             /\ pc[q] = "ticket" =>
                  pc'[q] # "attach" /\ job'[q].stored = job[q].stored /\ job'[q].ticket = job[q].ticket
    BY <1>1, <1>4, AsideMoves DEF NotFiled
  <2>2. \A p \in Requests \ {q} : FilingOK(p)' BY <1>2, <2>1, FilingFrame
  <2>3. FilingOK(q) BY <1>2
  <2>4. CASE pc'[q] \in NotFiled
    <3>1. pc[q] \in {"idle", "ticket"} /\ pc'[q] # "attach" /\ tickets[q] = 0 /\ rows[q] = NoRow
      BY <2>1, <2>3, <2>4 DEF FilingOK, NotFiled, FilingSteps
    <3>2. pc[q] = "idle" => 1 .. job'[q].stored = {} /\ ~job'[q].ticket BY <2>1, <2>4
    <3>3. pc[q] = "ticket" => job'[q].stored = job[q].stored /\ job'[q].ticket = job[q].ticket
      BY <2>1, <2>4
    <3>4. \A n \in 1 .. job'[q].stored : <<q, n>> \in files
      BY <2>3, <3>1, <3>2, <3>3 DEF FilingOK, FilingSteps
    <3>5. job'[q].ticket => tickets[q] > 0
      BY <2>3, <3>1, <3>2, <3>3 DEF FilingOK, FilingSteps
    <3>6. FilingOK(q)' BY <2>1, <2>3, <3>1, <3>4, <3>5 DEF FilingOK
    <3>7. QED BY <2>2, <3>6 DEF FilingInv
  <2>5. CASE pc'[q] \notin NotFiled
    <3>1. pc'[q] \notin FilingSteps \cup {"idle", "upload", "ticket", "attach"}
      BY <2>5 DEF NotFiled, FilingSteps
    <3>2. FilingOK(q)' BY <2>1, <2>3, <2>5, <3>1 DEF FilingOK
    <3>3. QED BY <2>2, <3>2 DEF FilingInv
  <2>6. QED BY <2>4, <2>5
<1>5. ASSUME NEW q \in Requests, Upload(q) PROVE FilingInv'
  <2>1. /\ UNCHANGED <<rows, tickets, attached, clock>>
        /\ files \subseteq files' /\ pc[q] = "upload"
        /\ \A p \in Requests \ {q} : pc'[p] = pc[p] /\ job'[p] = job[p]
    BY <1>1, <1>5, UploadMoves
  <2>2. \/ pc'[q] = "done"
        \/ /\ pc'[q] \in {"upload", "ticket"} /\ job'[q].ticket = job[q].ticket
           /\ job[q].stored \in Nat /\ job'[q].stored = job[q].stored + 1
           /\ <<q, job[q].stored + 1>> \in files'
    BY <1>1, <1>5, UploadMoves
  <2>3. \A p \in Requests \ {q} : FilingOK(p)' BY <1>2, <2>1, FilingFrame
  <2>4. /\ FilingOK(q) /\ tickets[q] = 0 /\ rows[q] = NoRow
        /\ \A n \in 1 .. job[q].stored : <<q, n>> \in files
        /\ job[q].ticket => tickets[q] > 0
    BY <1>2, <2>1 DEF FilingOK, NotFiled, FilingSteps
  <2>5. pc'[q] # "done" => \A n \in 1 .. job'[q].stored : <<q, n>> \in files'
    <3>1. SUFFICES ASSUME pc'[q] # "done", NEW n \in 1 .. job'[q].stored PROVE <<q, n>> \in files'
      OBVIOUS
    <3>2. n = job[q].stored + 1 \/ n \in 1 .. job[q].stored BY <2>2, <3>1
    <3>3. QED BY <2>1, <2>2, <2>4, <3>1, <3>2
  <2>6. "done" \notin NotFiled /\ "done" \notin FilingSteps BY DEF NotFiled, FilingSteps
  <2>7. FilingOK(q)' BY <2>1, <2>2, <2>4, <2>5, <2>6 DEF FilingOK
  <2>8. QED BY <2>3, <2>7 DEF FilingInv
<1>6. ASSUME NEW q \in Requests, FileTicket(q) \/ TicketUnknown(q) PROVE FilingInv'
  <2>1. /\ UNCHANGED <<rows, files, attached, clock>>
        /\ pc[q] = "ticket" /\ pc'[q] \in {"attach", "add"}
        /\ \A p \in Requests \ {q} :
             pc'[p] = pc[p] /\ job'[p] = job[p] /\ tickets'[p] = tickets[p]
        /\ job'[q].stored = job[q].stored
        /\ tickets'[q] \in {tickets[q], tickets[q] + 1}
        /\ pc'[q] = "attach" => tickets'[q] = tickets[q] + 1
        /\ job'[q].ticket => job[q].ticket \/ tickets'[q] = tickets[q] + 1
    BY <1>1, <1>6, TicketMoves
  <2>2. \A p \in Requests \ {q} : FilingOK(p)' BY <1>2, <2>1, FilingFrame
  <2>3. /\ FilingOK(q) /\ tickets[q] = 0 /\ rows[q] = NoRow /\ q \notin attached
        /\ \A n \in 1 .. job[q].stored : <<q, n>> \in files
        /\ ~job[q].ticket
    BY <1>2, <2>1 DEF FilingOK, NotFiled, FilingSteps
  <2>4. FilingOK(q)' BY <2>1, <2>3 DEF FilingOK
  <2>5. QED BY <2>2, <2>4 DEF FilingInv
<1>7. ASSUME NEW q \in Requests, Attach(q) PROVE FilingInv'
  <2>1. /\ UNCHANGED <<rows, files, tickets, clock, job>>
        /\ pc[q] = "attach" /\ pc'[q] = "add" /\ attached' \subseteq attached \cup {q}
        /\ \A p \in Requests \ {q} : pc'[p] = pc[p]
    BY <1>1, <1>7, AttachMoves
  <2>2. \A p \in Requests \ {q} : FilingOK(p)' BY <1>2, <2>1, FilingFrame
  <2>3. FilingOK(q) /\ pc[q] \in NotFiled /\ pc[q] \in FilingSteps
    BY <1>2, <2>1 DEF NotFiled, FilingSteps
  <2>4. FilingOK(q)' BY <2>1, <2>3 DEF FilingOK
  <2>5. QED BY <2>2, <2>4 DEF FilingInv
<1>8. ASSUME NEW q \in Requests, AddRow(q) PROVE FilingInv'
  <2>1. /\ UNCHANGED <<files, tickets, attached>> /\ pc[q] = "add" /\ pc'[q] = "done"
        /\ \A p \in Requests \ {q} : pc'[p] = pc[p] /\ job'[p] = job[p] /\ rows'[p] = rows[p]
        /\ rows'[q].files = job[q].stored /\ rows'[q].ticket = job[q].ticket
    BY <1>1, <1>8, AddMoves
  <2>2. \A p \in Requests \ {q} : FilingOK(p)' BY <1>2, <2>1, FilingFrame
  <2>3. FilingOK(q) /\ pc[q] \in FilingSteps BY <1>2, <2>1 DEF FilingSteps
  <2>4. "done" \notin NotFiled /\ "done" \notin FilingSteps BY DEF NotFiled, FilingSteps
  <2>5. FilingOK(q)' BY <2>1, <2>3, <2>4 DEF FilingOK
  <2>6. QED BY <2>2, <2>5 DEF FilingInv
<1>9. ASSUME NEW q \in Requests, ApplyEdit(q) PROVE FilingInv'
  <2>1. /\ UNCHANGED <<files, tickets, attached>> /\ pc[q] = "edit" /\ pc'[q] \in {"done", "saved"}
        /\ \A p \in Requests \ {q} : pc'[p] = pc[p] /\ job'[p] = job[p]
    BY <1>1, <1>9, EditMoves
  <2>2. \A p \in Requests :
          \/ rows'[p] = rows[p]
          \/ /\ rows[p] # NoRow /\ rows'[p] # NoRow
             /\ rows'[p].files = rows[p].files /\ rows'[p].ticket = rows[p].ticket
    <3>1. CASE rows' = rows BY <3>1
    <3>2. CASE /\ job[q] \in Edit /\ rows[job[q].target] \in Rows /\ job[q].target \in Requests
               /\ rows'[job[q].target] = Updated(rows[job[q].target], job[q])
               /\ \A id \in Requests \ {job[q].target} : rows'[id] = rows[id]
      BY <1>1, <3>2, UpdatedRow, StoredIsRow
    <3>3. QED BY <1>1, <1>9, <3>1, <3>2, EditMoves
  <2>3. \A p \in Requests \ {q} : FilingOK(p)' BY <1>2, <2>1, <2>2, FilingFrame
  <2>4. pc'[q] \notin NotFiled \cup FilingSteps \cup {"idle", "upload", "ticket", "attach"}
    BY <2>1 DEF NotFiled, FilingSteps
  <2>5. FilingOK(q) BY <1>2
  <2>6. FilingOK(q)' BY <2>1, <2>2, <2>4, <2>5 DEF FilingOK
  <2>7. QED BY <2>3, <2>6 DEF FilingInv
<1>10. ASSUME NEW q \in Requests, SetContact(q) PROVE FilingInv'
  <2>1. /\ UNCHANGED <<files, tickets, attached, clock, job>> /\ pc'[q] = "done"
        /\ \A p \in Requests \ {q} : pc'[p] = pc[p]
    BY <1>1, <1>10, ContactMoves
  <2>2. \A p \in Requests :
          \/ rows'[p] = rows[p]
          \/ /\ rows[p] # NoRow /\ rows'[p] # NoRow
             /\ rows'[p].files = rows[p].files /\ rows'[p].ticket = rows[p].ticket
    <3>1. PICK id \in Stored : /\ rows[id] \in Rows /\ rows'[id] = [rows[id] EXCEPT !.contact = q]
                               /\ \A p \in Requests \ {id} : rows'[p] = rows[p]
      BY <1>1, <1>10, ContactMoves
    <3>2. [rows[id] EXCEPT !.contact = q] \in Rows
      BY <3>1, Numbers DEF Rows
    <3>3. rows'[id].files = rows[id].files /\ rows'[id].ticket = rows[id].ticket BY <3>1 DEF Rows
    <3>4. QED BY <1>1, <3>1, <3>2, <3>3, StoredIsRow
  <2>3. \A p \in Requests \ {q} : FilingOK(p)' BY <1>2, <2>1, <2>2, FilingFrame
  <2>4. pc'[q] \notin NotFiled \cup FilingSteps \cup {"idle", "upload", "ticket", "attach"}
    BY <2>1 DEF NotFiled, FilingSteps
  <2>5. FilingOK(q) BY <1>2
  <2>6. FilingOK(q)' BY <2>1, <2>2, <2>4, <2>5 DEF FilingOK
  <2>7. QED BY <2>3, <2>6 DEF FilingInv
<1>11. QED BY <1>3, <1>4, <1>5, <1>6, <1>7, <1>8, <1>9, <1>10, StepCases

-----------------------------------------------------------------------------
(* Editing: stamps are unique, and what is saved is kept.                  *)

LEMMA HistoryTypes ==
  ASSUME TablesOK, NEW id \in Stored
  PROVE  /\ History(id) \in Seq(StatusChange) /\ Len(History(id)) \in Nat
         /\ \A i \in 1 .. Len(History(id)) : History(id)[i].at \in Nat
<1>1. rows[id] \in Rows BY StoredIsRow DEF Stored
<1>2. History(id) \in Seq(StatusChange) BY <1>1 DEF History, Rows
<1>3. \A c \in StatusChange : c.at \in Nat BY DEF StatusChange, Times
<1>4. QED BY <1>2, <1>3

(* What the invariant says of one history.                                 *)
LEMMA StampsOf ==
  ASSUME TablesOK, StampInv, NEW id \in Stored, NEW h \in Seq(StatusChange), h = History(id)
  PROVE  /\ \A i \in 1 .. Len(h) : h[i].at \in Nat /\ h[i].at <= clock
         /\ \A i, k \in 1 .. Len(h) : h[i].at = h[k].at => i = k
         /\ \A p \in Requests : pc[p] = "edit" => \A i \in 1 .. Len(h) : h[i].at # job[p].at
<1>1. \A i \in 1 .. Len(h) : h[i].at \in Nat BY HistoryTypes
<1>2. \A i \in 1 .. Len(h) : h[i].at <= clock BY DEF StampInv
<1>3. \A i, k \in 1 .. Len(h) : h[i].at = h[k].at => i = k BY DEF StampInv
<1>4. \A p \in Requests : pc[p] = "edit" => \A i \in 1 .. Len(h) : h[i].at # job[p].at
  BY DEF StampInv
<1>5. QED BY <1>1, <1>2, <1>3, <1>4

(* No history changes except that a new row has an empty one; an edit may  *)
(* begin.                                                                  *)
LEMMA StampFrame ==
  ASSUME Typed, Typed', StampInv, SavedInv, NEW q \in Requests, clock <= clock',
         \A p \in Requests \ {q} : pc'[p] = pc[p] /\ job'[p] = job[p],
         pc'[q] \in EditSteps => pc'[q] = "edit" /\ clock' = clock + 1 /\ job'[q].at = clock',
         \A id \in Stored : id \in Stored' /\ History(id)' = History(id),
         \A id \in Stored' \ Stored : History(id)' = <<>>
  PROVE  StampInv' /\ SavedInv'
<1>1. TablesOK /\ TablesOK' /\ clock \in Nat /\ clock' \in Nat BY DEF Typed, TablesOK, Times
<1>2. \A p \in Requests : pc'[p] \in EditSteps => job'[p].at \in 1 .. clock'
  <2>1. SUFFICES ASSUME NEW p \in Requests, pc'[p] \in EditSteps PROVE job'[p].at \in 1 .. clock'
    OBVIOUS
  <2>2. CASE p = q BY <1>1, <2>1, <2>2
  <2>3. CASE p # q
    <3>1. job'[p].at = job[p].at /\ job[p].at \in 1 .. clock BY <2>1, <2>3 DEF StampInv
    <3>2. QED BY <1>1, <3>1
  <2>4. QED BY <2>2, <2>3
<1>3. \A p \in Requests \ {q} : pc'[p] \in EditSteps =>
        /\ pc[p] \in EditSteps /\ job'[p].at = job[p].at /\ job[p].at \in 1 .. clock
  BY DEF StampInv
<1>4. \A o, p \in Requests :
        pc'[o] \in EditSteps /\ pc'[p] \in EditSteps /\ job'[o].at = job'[p].at => o = p
  <2>1. SUFFICES ASSUME NEW o \in Requests, NEW p \in Requests,
                        pc'[o] \in EditSteps, pc'[p] \in EditSteps, job'[o].at = job'[p].at
                 PROVE  o = p
    OBVIOUS
  <2>2. CASE o # q /\ p # q BY <1>3, <2>1, <2>2 DEF StampInv
  <2>3. ASSUME NEW r \in Requests \ {q}, pc'[r] \in EditSteps, pc'[q] \in EditSteps
        PROVE  job'[r].at # job'[q].at
    <3>1. job'[r].at \in 1 .. clock /\ job'[q].at = clock + 1 BY <1>3, <2>3
    <3>2. QED BY <1>1, <3>1
  <2>4. QED BY <2>1, <2>2, <2>3
<1>5. ASSUME NEW id \in Stored'
      PROVE  /\ \A i \in 1 .. Len(History(id)') : History(id)'[i].at <= clock'
             /\ \A i, k \in 1 .. Len(History(id)') : History(id)'[i].at = History(id)'[k].at => i = k
             /\ \A p \in Requests : pc'[p] = "edit" =>
                  \A i \in 1 .. Len(History(id)') : History(id)'[i].at # job'[p].at
  <2>1. CASE id \notin Stored
    <3>1. 1 .. Len(History(id)') = {} BY <2>1
    <3>2. QED BY <3>1
  <2>2. CASE id \in Stored
    <3>1. PICK h \in Seq(StatusChange) : h = History(id) /\ h = History(id)'
      BY <1>1, <2>2, HistoryTypes
    <3>2. /\ \A i \in 1 .. Len(h) : h[i].at \in Nat /\ h[i].at <= clock
          /\ \A i, k \in 1 .. Len(h) : h[i].at = h[k].at => i = k
          /\ \A p \in Requests : pc[p] = "edit" => \A i \in 1 .. Len(h) : h[i].at # job[p].at
      BY <1>1, <2>2, <3>1, StampsOf
    <3>3. \A i \in 1 .. Len(h) : h[i].at <= clock' /\ h[i].at # clock + 1 BY <1>1, <3>2
    <3>4. \A p \in Requests : pc'[p] = "edit" => \A i \in 1 .. Len(h) : h[i].at # job'[p].at
      <4>1. "edit" \in EditSteps BY DEF EditSteps
      <4>2. QED BY <3>2, <3>3, <4>1
    <3>5. QED BY <3>1, <3>2, <3>3, <3>4
  <2>3. QED BY <2>1, <2>2
<1>6. StampInv' BY <1>2, <1>4, <1>5 DEF StampInv
<1>7. \A p \in Requests : pc'[p] = "saved" => p # q /\ pc[p] = "saved" /\ job'[p] = job[p]
  BY DEF EditSteps
<1>8. SavedInv'
  <2>1. SUFFICES ASSUME NEW p \in Requests, pc'[p] = "saved", job'[p].status # Keep
                 PROVE  /\ job'[p].target \in Stored'
                        /\ \E i \in 1 .. Len(History(job[p].target)') :
                             History(job[p].target)'[i] = Change(job'[p])
                        /\ job'[p] = job[p]
    BY DEF SavedInv, Change, History
  <2>2. PICK id \in Stored : id = job[p].target BY <1>7, <2>1 DEF SavedInv
  <2>3. \E i \in 1 .. Len(History(id)) : History(id)[i] = Change(job[p])
    BY <1>7, <2>1, <2>2 DEF SavedInv
  <2>4. QED BY <1>7, <2>1, <2>2, <2>3
<1>9. QED BY <1>6, <1>8

(* An edit that is saved adds its own stamp to one history.                *)
LEMMA StampSaved ==
  ASSUME Typed, Typed', StampInv, SavedInv, NEW q \in Requests, NEW j \in Edit, NEW id \in Stored,
         j = job[q], id = j.target, pc[q] = "edit", pc'[q] = "saved", job'[q] = job[q], clock' = clock,
         \A p \in Requests \ {q} : pc'[p] = pc[p] /\ job'[p] = job[p],
         rows'[id] = Updated(rows[id], j),
         \A o \in Requests \ {id} : rows'[o] = rows[o]
  PROVE  StampInv' /\ SavedInv'
<1>1. TablesOK /\ TablesOK' /\ clock \in Nat BY DEF Typed, TablesOK, Times
<1>2. id \in Requests /\ rows[id] \in Rows BY <1>1, StoredIsRow DEF Stored
<1>3. Stored' = Stored BY <1>1, <1>2, StoredIsRow, UpdatedRow DEF Stored
<1>4. PICK h \in Seq(StatusChange) : h = History(id) BY <1>1, HistoryTypes
<1>5. PICK g \in Seq(StatusChange) : g = History(id)'
  <2>1. rows'[id] \in Rows BY <1>2, UpdatedRow
  <2>2. rows'[id].history \in Seq(StatusChange) BY <2>1 DEF Rows
  <2>3. QED BY <2>2 DEF History
<1>6. /\ j.status = Keep => g = h
      /\ j.status # Keep => Change(j) \in StatusChange /\ g = Append(h, Change(j))
  <2>1. h = rows[id].history /\ g = Updated(rows[id], j).history BY <1>4, <1>5 DEF History
  <2>2. CASE j.status = Keep BY <1>2, <2>1, <2>2, UpdatedRow
  <2>3. CASE j.status # Keep BY <1>2, <2>1, <2>3, UpdatedRow
  <2>4. QED BY <2>2, <2>3
<1>7. Change(j).at = j.at BY DEF Change
<1>8. /\ \A i \in 1 .. Len(h) : h[i].at \in Nat /\ h[i].at <= clock
      /\ \A i, k \in 1 .. Len(h) : h[i].at = h[k].at => i = k
      /\ \A p \in Requests : pc[p] = "edit" => \A i \in 1 .. Len(h) : h[i].at # job[p].at
  BY <1>1, <1>4, StampsOf
<1>9. "edit" \in EditSteps /\ "saved" \in EditSteps BY DEF EditSteps
<1>10. j.at \in 1 .. clock BY <1>9 DEF StampInv
<1>11. \A i \in 1 .. Len(g) :
         \/ i \in 1 .. Len(h) /\ g[i] = h[i]
         \/ j.status # Keep /\ i = Len(h) + 1 /\ g[i] = Change(j)
  <2>1. CASE j.status = Keep BY <1>6, <2>1
  <2>2. CASE j.status # Keep
    <3>1. Len(h) \in Nat /\ Len(g) = Len(h) + 1 BY <1>6, <2>2, AppendFacts
    <3>2. \A i \in 1 .. Len(g) : i \in 1 .. Len(h) \/ i = Len(h) + 1 BY <3>1
    <3>3. QED BY <1>6, <2>2, <3>2, AppendFacts
  <2>3. QED BY <2>1, <2>2
<1>12. \A i \in 1 .. Len(h) : i \in 1 .. Len(g) /\ g[i] = h[i]
  <2>1. CASE j.status = Keep BY <1>6, <2>1
  <2>2. CASE j.status # Keep
    <3>1. Len(h) \in Nat /\ Len(g) = Len(h) + 1 BY <1>6, <2>2, AppendFacts
    <3>2. \A i \in 1 .. Len(h) : i \in 1 .. Len(g) BY <3>1
    <3>3. QED BY <1>6, <2>2, <3>2, AppendFacts
  <2>3. QED BY <2>1, <2>2
<1>13. /\ \A i \in 1 .. Len(g) : g[i].at <= clock
       /\ \A i, k \in 1 .. Len(g) : g[i].at = g[k].at => i = k
  <2>1. \A i \in 1 .. Len(h) : h[i].at # j.at BY <1>8
  <2>2. \A i \in 1 .. Len(g) :
          \/ i \in 1 .. Len(h) /\ g[i].at = h[i].at /\ g[i].at # j.at
          \/ i = Len(h) + 1 /\ g[i].at = j.at
    BY <1>7, <1>11, <2>1
  <2>3. \A i \in 1 .. Len(g) : g[i].at <= clock BY <1>8, <1>10, <2>2
  <2>4. ASSUME NEW i \in 1 .. Len(g), NEW k \in 1 .. Len(g), g[i].at = g[k].at PROVE i = k
    <3>1. CASE i \in 1 .. Len(h) /\ k \in 1 .. Len(h)
      <4>1. h[i].at = h[k].at BY <2>2, <2>4, <3>1
      <4>2. QED BY <1>8, <3>1, <4>1
    <3>2. CASE i = Len(h) + 1 \/ k = Len(h) + 1 BY <2>2, <2>4, <3>2
    <3>3. QED BY <2>2, <3>1, <3>2
  <2>5. QED BY <2>3, <2>4
<1>14. \A p \in Requests : pc'[p] = "edit" => \A i \in 1 .. Len(g) : g[i].at # job'[p].at
  <2>1. SUFFICES ASSUME NEW p \in Requests, pc'[p] = "edit", NEW i \in 1 .. Len(g)
                 PROVE  g[i].at # job'[p].at
    OBVIOUS
  <2>2. p # q /\ pc[p] = "edit" /\ job'[p] = job[p] BY <2>1
  <2>3. job[p].at # j.at BY <1>9, <2>2 DEF StampInv
  <2>4. QED BY <1>7, <1>8, <1>11, <2>2, <2>3
<1>15. \A p \in Requests : /\ job'[p] = job[p]
                           /\ pc'[p] \in EditSteps <=> pc[p] \in EditSteps
                           /\ pc'[p] = "edit" => pc[p] = "edit"
  BY <1>9
<1>16. \A o \in Stored \ {id} : History(o)' = History(o) BY DEF History, Stored
<1>17. StampInv'
  <2>1. \A p \in Requests : pc'[p] \in EditSteps => job'[p].at \in 1 .. clock' BY <1>15 DEF StampInv
  <2>2. \A o, p \in Requests :
          pc'[o] \in EditSteps /\ pc'[p] \in EditSteps /\ job'[o].at = job'[p].at => o = p
    BY <1>15 DEF StampInv
  <2>3. ASSUME NEW o \in Stored'
        PROVE  /\ \A i \in 1 .. Len(History(o)') : History(o)'[i].at <= clock'
               /\ \A i, k \in 1 .. Len(History(o)') : History(o)'[i].at = History(o)'[k].at => i = k
               /\ \A p \in Requests : pc'[p] = "edit" =>
                    \A i \in 1 .. Len(History(o)') : History(o)'[i].at # job'[p].at
    <3>1. CASE o = id BY <1>5, <1>13, <1>14, <3>1
    <3>2. CASE o # id BY <1>3, <1>15, <1>16, <3>2 DEF StampInv
    <3>3. QED BY <3>1, <3>2
  <2>4. QED BY <2>1, <2>2, <2>3 DEF StampInv
<1>18. SavedInv'
  <2>1. SUFFICES ASSUME NEW p \in Requests, pc'[p] = "saved", job'[p].status # Keep
                 PROVE  /\ job'[p].target \in Stored'
                        /\ \E i \in 1 .. Len(History(job[p].target)') :
                             History(job[p].target)'[i] = Change(job'[p])
                        /\ job'[p] = job[p]
    BY DEF SavedInv, Change, History
  <2>2. CASE p = q
    <3>1. j.status # Keep /\ job'[p] = j BY <2>1, <2>2
    <3>2. Len(h) + 1 \in 1 .. Len(g) /\ g[Len(h) + 1] = Change(j) BY <1>6, <3>1, AppendFacts
    <3>3. QED BY <1>3, <1>5, <2>2, <3>1, <3>2
  <2>3. CASE p # q
    <3>1. pc[p] = "saved" /\ job'[p] = job[p] BY <2>1, <2>3
    <3>2. PICK o \in Stored : o = job[p].target BY <2>1, <3>1 DEF SavedInv
    <3>3. PICK i \in 1 .. Len(History(o)) : History(o)[i] = Change(job[p])
      BY <2>1, <3>1, <3>2 DEF SavedInv
    <3>4. \E k \in 1 .. Len(History(o)') : History(o)'[k] = Change(job[p])
      <4>1. CASE o = id BY <1>4, <1>5, <1>12, <3>3, <4>1
      <4>2. CASE o # id BY <1>16, <3>3, <4>2
      <4>3. QED BY <4>1, <4>2
    <3>5. QED BY <1>3, <3>1, <3>2, <3>4
  <2>4. QED BY <2>2, <2>3
<1>19. QED BY <1>17, <1>18

LEMMA StampStep ==
  ASSUME Typed, Typed', FilingInv, StampInv, SavedInv, [Next]_vars
  PROVE  StampInv' /\ SavedInv'
<1>1. TablesOK /\ JobsOK /\ TablesOK' /\ clock \in Nat BY DEF Typed, TablesOK, Times
<1>2. CASE UNCHANGED <<rows, files, tickets, attached, clock, pc, job>>
  BY <1>2 DEF StampInv, SavedInv, History, Stored, Change
<1>3. (\A id \in Requests : rows'[id] = rows[id])
        => /\ \A id \in Stored : id \in Stored' /\ History(id)' = History(id)
           /\ \A id \in Stored' \ Stored : History(id)' = <<>>
  BY DEF Stored, History
<1>4. ASSUME NEW q \in Requests, Aside(q) PROVE StampInv' /\ SavedInv'
  <2>1. /\ clock <= clock' /\ UNCHANGED <<rows, files, tickets, attached>>
        /\ \A p \in Requests \ {q} : pc'[p] = pc[p] /\ job'[p] = job[p]
        /\ pc'[q] \in EditSteps => pc'[q] = "edit" /\ clock' = clock + 1 /\ job'[q].at = clock'
    BY <1>1, <1>4, AsideMoves
  <2>2. \A id \in Requests : rows'[id] = rows[id] BY <2>1
  <2>3. QED BY <1>3, <2>1, <2>2, StampFrame
<1>5. ASSUME NEW q \in Requests,
             \/ Upload(q) \/ FileTicket(q) \/ TicketUnknown(q) \/ Attach(q)
             \/ ApplyEdit(q) /\ rows' = rows /\ pc'[q] = "done"
      PROVE  StampInv' /\ SavedInv'
  <2>1. /\ UNCHANGED clock /\ \A id \in Requests : rows'[id] = rows[id]
        /\ \A p \in Requests \ {q} : pc'[p] = pc[p] /\ job'[p] = job[p]
        /\ pc'[q] \in {"done", "upload", "ticket", "attach", "add"}
    <3>1. CASE Upload(q) BY <1>1, <3>1, UploadMoves
    <3>2. CASE FileTicket(q) \/ TicketUnknown(q) BY <1>1, <3>2, TicketMoves
    <3>3. CASE Attach(q) BY <1>1, <3>3, AttachMoves
    <3>4. CASE ApplyEdit(q) /\ rows' = rows /\ pc'[q] = "done" BY <1>1, <3>4, EditMoves
    <3>5. QED BY <1>5, <3>1, <3>2, <3>3, <3>4
  <2>2. pc'[q] \notin EditSteps /\ clock <= clock' BY <1>1, <2>1 DEF EditSteps
  <2>3. QED BY <1>3, <2>1, <2>2, StampFrame
<1>6. ASSUME NEW q \in Requests, AddRow(q) PROVE StampInv' /\ SavedInv'
  <2>1. /\ pc[q] = "add" /\ pc'[q] = "done" /\ clock <= clock'
        /\ \A p \in Requests \ {q} : pc'[p] = pc[p] /\ job'[p] = job[p] /\ rows'[p] = rows[p]
        /\ rows'[q].history = <<>>
    BY <1>1, <1>6, AddMoves
  <2>2. rows[q] = NoRow BY <2>1 DEF FilingInv, FilingOK, NotFiled, FilingSteps
  <2>3. \A id \in Stored : id \in Stored' /\ History(id)' = History(id)
    BY <2>1, <2>2 DEF Stored, History
  <2>4. \A id \in Stored' \ Stored : History(id)' = <<>> BY <2>1 DEF Stored, History
  <2>5. pc'[q] \notin EditSteps BY <2>1 DEF EditSteps
  <2>6. QED BY <2>1, <2>3, <2>4, <2>5, StampFrame
<1>7. ASSUME NEW q \in Requests, ApplyEdit(q), ~(rows' = rows /\ pc'[q] = "done")
      PROVE  StampInv' /\ SavedInv'
  <2>1. /\ pc[q] = "edit" /\ job[q] \in Edit /\ UNCHANGED clock
        /\ \A p \in Requests \ {q} : pc'[p] = pc[p] /\ job'[p] = job[p]
        /\ pc'[q] = "saved" /\ job'[q] = job[q]
        /\ job[q].target \in Requests /\ Matches(rows[job[q].target], job[q])
        /\ rows'[job[q].target] = Updated(rows[job[q].target], job[q])
        /\ \A id \in Requests \ {job[q].target} : rows'[id] = rows[id]
    BY <1>1, <1>7, EditMoves
  <2>2. PICK j \in Edit : j = job[q] BY <2>1
  <2>3. PICK id \in Stored : id = j.target BY <2>1, <2>2 DEF Matches, Stored
  <2>4. QED BY <2>1, <2>2, <2>3, StampSaved
<1>8. ASSUME NEW q \in Requests, SetContact(q) PROVE StampInv' /\ SavedInv'
  <2>1. /\ UNCHANGED <<clock, job>> /\ pc'[q] = "done" /\ \A p \in Requests \ {q} : pc'[p] = pc[p]
    BY <1>1, <1>8, ContactMoves
  <2>2. PICK o \in Stored : /\ rows[o] \in Rows /\ rows'[o] = [rows[o] EXCEPT !.contact = q]
                            /\ \A p \in Requests \ {o} : rows'[p] = rows[p]
    BY <1>1, <1>8, ContactMoves
  <2>3. [rows[o] EXCEPT !.contact = q] \in Rows BY <2>2, Numbers DEF Rows
  <2>4. rows'[o].history = rows[o].history /\ rows'[o] # NoRow
    BY <1>1, <2>2, <2>3, StoredIsRow DEF Rows
  <2>5. \A id \in Stored : id \in Stored' /\ History(id)' = History(id)
    BY <2>2, <2>4 DEF Stored, History
  <2>6. \A id \in Stored' \ Stored : History(id)' = <<>> BY <2>2 DEF Stored, History
  <2>7. pc'[q] \notin EditSteps /\ clock <= clock' BY <1>1, <2>1 DEF EditSteps
  <2>8. QED BY <2>1, <2>5, <2>6, <2>7, StampFrame
<1>9. QED BY <1>2, <1>4, <1>5, <1>6, <1>7, <1>8, StepCases

(* A row's status, its history and its dates go together.                  *)
LEMMA UpdatedAgrees ==
  ASSUME NEW r \in Rows, NEW j \in Edit, Agrees(r)
  PROVE  Agrees(Updated(r, j))
<1>1. CASE j.status = Keep
  BY <1>1, UpdatedRow DEF Agrees, LastChange
<1>2. CASE j.status # Keep
  <2>1. PICK s \in Rows : s = Updated(r, j) BY UpdatedRow
  <2>2. PICK h \in Seq(StatusChange) : h = r.history BY DEF Rows
  <2>3. /\ s.status = j.status /\ s.statusAt = j.at
        /\ s.resolvedAt = IF j.status \in ResolvedStatuses THEN j.at ELSE 0
        /\ s.history = Append(h, Change(j)) /\ Change(j) \in StatusChange
    BY <1>2, <2>1, <2>2, UpdatedRow
  <2>4. /\ s.history # <<>> /\ Len(s.history) = Len(h) + 1 /\ s.history[Len(h) + 1] = Change(j)
    BY <2>3, AppendFacts
  <2>5. LastChange(s) = Change(j) BY <2>4 DEF LastChange
  <2>6. Change(j).status = j.status /\ Change(j).at = j.at BY DEF Change
  <2>7. Agrees(s) BY <2>3, <2>4, <2>5, <2>6 DEF Agrees
  <2>8. QED BY <2>1, <2>7
<1>3. QED BY <1>1, <1>2

LEMMA AgreesStep ==
  ASSUME Typed, \A id \in Stored : Agrees(rows[id]), [Next]_vars
  PROVE  \A id \in Stored' : Agrees(rows'[id])
<1>1. TablesOK /\ JobsOK BY DEF Typed
<1>2. CASE \A id \in Requests : rows'[id] = rows[id] BY <1>2 DEF Stored
<1>3. ASSUME NEW q \in Requests,
             \/ Aside(q) \/ Upload(q) \/ FileTicket(q) \/ TicketUnknown(q) \/ Attach(q)
      PROVE  \A id \in Requests : rows'[id] = rows[id]
  BY <1>1, <1>3, AsideMoves, UploadMoves, TicketMoves, AttachMoves
<1>4. ASSUME NEW q \in Requests, AddRow(q) PROVE \A id \in Stored' : Agrees(rows'[id])
  <2>1. /\ \A p \in Requests \ {q} : rows'[p] = rows[p]
        /\ rows'[q].status = FirstStatus(rows'[q].type)
        /\ rows'[q].type \in Types /\ rows'[q].history = <<>>
        /\ rows'[q].statusAt = 0 /\ rows'[q].resolvedAt = 0
    BY <1>1, <1>4, AddMoves
  <2>2. Agrees(rows'[q]) BY <2>1, StatusFacts DEF Agrees
  <2>3. QED BY <2>1, <2>2 DEF Stored
<1>5. ASSUME NEW q \in Requests, ApplyEdit(q) PROVE \A id \in Stored' : Agrees(rows'[id])
  <2>1. CASE rows' = rows BY <2>1 DEF Stored
  <2>2. CASE /\ job[q] \in Edit /\ rows[job[q].target] \in Rows /\ job[q].target \in Requests
             /\ rows'[job[q].target] = Updated(rows[job[q].target], job[q])
             /\ \A id \in Requests \ {job[q].target} : rows'[id] = rows[id]
    <3>1. job[q].target \in Stored BY <1>1, <2>2, StoredIsRow
    <3>2. Agrees(Updated(rows[job[q].target], job[q])) BY <2>2, <3>1, UpdatedAgrees
    <3>3. QED BY <2>2, <3>2 DEF Stored
  <2>3. QED BY <1>1, <1>5, <2>1, <2>2, EditMoves
<1>6. ASSUME NEW q \in Requests, SetContact(q) PROVE \A id \in Stored' : Agrees(rows'[id])
  <2>1. PICK o \in Stored : /\ rows[o] \in Rows /\ rows'[o] = [rows[o] EXCEPT !.contact = q]
                            /\ \A p \in Requests \ {o} : rows'[p] = rows[p]
    BY <1>1, <1>6, ContactMoves
  <2>2. PICK r \in Rows : r = rows[o] BY <2>1
  <2>3. /\ rows'[o].status = r.status /\ rows'[o].statusAt = r.statusAt /\ rows'[o].type = r.type
        /\ rows'[o].resolvedAt = r.resolvedAt /\ rows'[o].history = r.history
    BY <2>1, <2>2 DEF Rows
  <2>4. Agrees(r) BY <2>1, <2>2
  <2>5. Agrees(rows'[o]) BY <2>3, <2>4 DEF Agrees, LastChange
  <2>6. QED BY <2>1, <2>5 DEF Stored
<1>7. CASE UNCHANGED <<rows, files, tickets, attached, clock, pc, job>> BY <1>2, <1>7
<1>8. QED BY <1>2, <1>3, <1>4, <1>5, <1>6, <1>7, StepCases

(* What a step may do to a row.                                            *)
TenantStep ==
  \A id \in Requests :
    rows'[id] # rows[id] =>
      \/ rows[id] = NoRow /\ pc[id] = "add"
      \/ /\ rows[id] # NoRow
         /\ \/ rows'[id] = [rows[id] EXCEPT !.contact = rows'[id].contact]
            \/ \E q \in Requests :
                 /\ pc[q] = "edit" /\ job[q].target = id
                 /\ job[q].customer = rows[id].customer /\ job[q].type = rows[id].type

LEMMA TenantSteps ==
  ASSUME Typed, FilingInv, [Next]_vars
  PROVE  TenantStep
<1>1. TablesOK /\ JobsOK BY DEF Typed
<1>2. CASE \A id \in Requests : rows'[id] = rows[id] BY <1>2 DEF TenantStep
<1>3. ASSUME NEW q \in Requests,
             \/ Aside(q) \/ Upload(q) \/ FileTicket(q) \/ TicketUnknown(q) \/ Attach(q)
      PROVE  \A id \in Requests : rows'[id] = rows[id]
  BY <1>1, <1>3, AsideMoves, UploadMoves, TicketMoves, AttachMoves
<1>4. ASSUME NEW q \in Requests, AddRow(q) PROVE TenantStep
  <2>1. pc[q] = "add" /\ \A p \in Requests \ {q} : rows'[p] = rows[p] BY <1>1, <1>4, AddMoves
  <2>2. rows[q] = NoRow BY <2>1 DEF FilingInv, FilingOK, NotFiled, FilingSteps
  <2>3. QED BY <2>1, <2>2 DEF TenantStep
<1>5. ASSUME NEW q \in Requests, ApplyEdit(q) PROVE TenantStep
  <2>1. CASE rows' = rows BY <2>1 DEF TenantStep
  <2>2. CASE /\ job[q].target \in Requests /\ Matches(rows[job[q].target], job[q])
             /\ \A id \in Requests \ {job[q].target} : rows'[id] = rows[id]
    <3>1. pc[q] = "edit" BY <1>1, <1>5, EditMoves
    <3>2. QED BY <2>2, <3>1 DEF TenantStep, Matches
  <2>3. QED BY <1>1, <1>5, <2>1, <2>2, EditMoves
<1>6. ASSUME NEW q \in Requests, SetContact(q) PROVE TenantStep
  <2>1. PICK o \in Stored : /\ rows[o] \in Rows /\ rows'[o] = [rows[o] EXCEPT !.contact = q]
                            /\ \A p \in Requests \ {o} : rows'[p] = rows[p]
    BY <1>1, <1>6, ContactMoves
  <2>2. rows'[o].contact = q BY <2>1 DEF Rows
  <2>3. QED BY <2>1, <2>2 DEF TenantStep, Stored
<1>7. CASE UNCHANGED <<rows, files, tickets, attached, clock, pc, job>> BY <1>2, <1>7
<1>8. QED BY <1>2, <1>3, <1>4, <1>5, <1>6, <1>7, StepCases

-----------------------------------------------------------------------------
DeskInv == /\ Typed /\ FilingInv /\ StampInv /\ SavedInv
           /\ \A id \in Stored : Agrees(rows[id])

LEMMA InvInit == Init => DeskInv
<1> SUFFICES ASSUME Init PROVE DeskInv OBVIOUS
<1>1. Typed BY TypedInit
<1>2. /\ Stored = {} /\ \A q \in Requests : pc[q] = "idle" /\ rows[q] = NoRow /\ tickets[q] = 0
      /\ attached = {}
  BY DEF Init, Stored
<1>3. FilingInv BY <1>2 DEF FilingInv, FilingOK, FilingSteps
<1>4. StampInv /\ SavedInv BY <1>2 DEF StampInv, SavedInv, EditSteps
<1>5. QED BY <1>1, <1>2, <1>3, <1>4 DEF DeskInv

LEMMA InvStep == DeskInv /\ [Next]_vars => DeskInv'
<1> SUFFICES ASSUME DeskInv, [Next]_vars PROVE DeskInv' OBVIOUS
<1>1. Typed /\ FilingInv /\ StampInv /\ SavedInv /\ \A id \in Stored : Agrees(rows[id])
  BY DEF DeskInv
<1>2. Typed' BY <1>1, TypedStep
<1>3. FilingInv' BY <1>1, FilingStep
<1>4. StampInv' /\ SavedInv' BY <1>1, <1>2, StampStep
<1>5. \A id \in Stored' : Agrees(rows'[id]) BY <1>1, AgreesStep
<1>6. QED BY <1>2, <1>3, <1>4, <1>5 DEF DeskInv, Agrees

LEMMA InvAlways == Spec => []DeskInv
  BY InvInit, InvStep, PTL DEF Spec

(* The retry of a refused ticket never files a second (mantis.py,          *)
(* _post_with_handler_retry).                                              *)
THEOREM NeverTwoTickets == Spec => []OneTicketPerRequest
<1>1. DeskInv => OneTicketPerRequest BY DEF DeskInv, FilingInv, FilingOK, OneTicketPerRequest
<1>2. QED BY <1>1, InvAlways, PTL

(* Whatever step a filing stops at, what a row or a ticket names is there   *)
(* (channels/feature_requests.py, create_feature_request).                 *)
THEOREM RowsAlwaysBacked == Spec => []RowsAreBacked
<1>1. DeskInv => RowsAreBacked
  <2> SUFFICES ASSUME DeskInv PROVE RowsAreBacked OBVIOUS
  <2>1. \A id \in Requests : FilingOK(id) BY DEF DeskInv, FilingInv
  <2>2. attached \subseteq Requests BY DEF DeskInv, Typed, TablesOK
  <2>3. QED BY <2>1, <2>2 DEF FilingOK, RowsAreBacked, Stored
<1>2. QED BY <1>1, InvAlways, PTL

(* However edits overlap, status, dates and history go together            *)
(* (stores/request_backlog.py, update_issue).                              *)
THEOREM RowsAlwaysAgree == Spec => []RowAgreesWithHistory
<1>1. DeskInv => RowAgreesWithHistory BY DEF DeskInv, RowAgreesWithHistory, Agrees
<1>2. QED BY <1>1, InvAlways, PTL

(* An edit that was answered is in the history once (update_issue's        *)
(* list_append).                                                           *)
THEOREM SavedStatusesAlwaysKept == Spec => []SavedStatusesAreKept
<1>1. DeskInv => SavedStatusesAreKept
  <2> SUFFICES ASSUME DeskInv, NEW q \in Requests, pc[q] = "saved", job[q].status # Keep
               PROVE  LET h == rows[job[q].target].history IN
                      /\ \E i \in 1 .. Len(h) : h[i] = Change(job[q])
                      /\ \A i, k \in 1 .. Len(h) :
                           h[i].at = job[q].at /\ h[k].at = job[q].at => i = k
    BY DEF SavedStatusesAreKept
  <2>1. job[q].target \in Stored BY DEF DeskInv, SavedInv
  <2>2. QED BY <2>1 DEF DeskInv, SavedInv, StampInv, History
<1>2. QED BY <1>1, InvAlways, PTL

(* No edit reaches a row of another customer or type, and none makes a row  *)
(* (update_issue's condition).                                             *)
THEOREM EditsAlwaysStayInTenant == Spec => EditsStayInTenant
<1>1. DeskInv /\ [Next]_vars => [TenantStep]_vars BY TenantSteps DEF DeskInv
<1>2. QED BY <1>1, InvAlways, PTL DEF Spec, EditsStayInTenant, TenantStep

-----------------------------------------------------------------------------
(* Ranks: how a finite set is put in order.                                *)

LEMMA NatMin ==
  ASSUME NEW T \in SUBSET Nat, T # {}
  PROVE  \E n \in T : \A m \in T : n <= m
<1> DEFINE R == OpToRel(<, Nat)
<1>1. IsWellFoundedOn(R, Nat) BY NatLessThanWellFounded
<1>2. \A m, n \in Nat : m < n => <<m, n>> \in R BY DEF OpToRel
<1> HIDE DEF R
<1>3. PICK n \in T : \A m \in T : ~ (<<m, n>> \in R) BY <1>1, WFMin, Zenon
<1>4. \A m \in T : ~ (m < n) BY <1>2, <1>3
<1>5. QED BY <1>4, SMT

(* The elements of S above a; its rank is how many they are.               *)
Higher(S, v, a) == {b \in S : v[b] > v[a]}

LEMMA HigherFacts ==
  ASSUME NEW S, IsFiniteSet(S), NEW v \in [S -> Int], NEW a \in S
  PROVE  /\ IsFiniteSet(Higher(S, v, a)) /\ Cardinality(Higher(S, v, a)) \in Nat
         /\ Cardinality(Higher(S, v, a)) < Cardinality(S)
         /\ \A b \in S : v[a] >= v[b] =>
              Cardinality(Higher(S, v, a)) <= Cardinality(Higher(S, v, b))
         /\ \A b \in S : v[a] > v[b] =>
              Cardinality(Higher(S, v, a)) < Cardinality(Higher(S, v, b))
<1>1. \A b \in S : /\ IsFiniteSet(Higher(S, v, b)) /\ Cardinality(Higher(S, v, b)) \in Nat
  BY FS_Subset, FS_CardinalityType DEF Higher
<1>2. ~ (v[a] > v[a]) OBVIOUS
<1>3. /\ IsFiniteSet(Higher(S, v, a) \cup {a})
      /\ Cardinality(Higher(S, v, a) \cup {a}) = Cardinality(Higher(S, v, a)) + 1
  BY <1>1, <1>2, FS_AddElement DEF Higher
<1>4. Higher(S, v, a) \cup {a} \subseteq S BY DEF Higher
<1>5. Cardinality(Higher(S, v, a)) + 1 <= Cardinality(S) BY <1>3, <1>4, FS_Subset
<1>6. Cardinality(S) \in Nat BY FS_CardinalityType
<1>7. ASSUME NEW b \in S, v[a] >= v[b]
      PROVE  Cardinality(Higher(S, v, a)) <= Cardinality(Higher(S, v, b))
  <2>1. Higher(S, v, a) \subseteq Higher(S, v, b) BY <1>7 DEF Higher
  <2>2. QED BY <1>1, <2>1, FS_Subset
<1>8. ASSUME NEW b \in S, v[a] > v[b]
      PROVE  Cardinality(Higher(S, v, a)) < Cardinality(Higher(S, v, b))
  <2>1. Higher(S, v, a) \cup {a} \subseteq Higher(S, v, b) BY <1>8 DEF Higher
  <2>2. Cardinality(Higher(S, v, a)) + 1 <= Cardinality(Higher(S, v, b))
    BY <1>1, <1>3, <2>1, FS_Subset
  <2>3. QED BY <1>1, <2>2
<1>9. QED BY <1>1, <1>5, <1>6, <1>7, <1>8

Rank(S, v) == [a \in S |-> Cardinality(Higher(S, v, a)) + 1]

LEMMA Ranking ==
  ASSUME NEW S, IsFiniteSet(S), NEW v \in [S -> Int], \A a, b \in S : v[a] = v[b] => a = b
  PROVE  /\ Rank(S, v) \in Bijection(S, 1 .. Cardinality(S))
         /\ \A a, b \in S : v[a] > v[b] <=> Rank(S, v)[a] < Rank(S, v)[b]
<1>1. \A a \in S : Cardinality(Higher(S, v, a)) \in Nat /\ Cardinality(Higher(S, v, a)) < Cardinality(S)
  BY HigherFacts
<1>2. \A a, b \in S : v[a] > v[b] => Cardinality(Higher(S, v, a)) < Cardinality(Higher(S, v, b))
  BY HigherFacts
<1>3. Cardinality(S) \in Nat BY FS_CardinalityType
<1>4. Rank(S, v) \in [S -> 1 .. Cardinality(S)] BY <1>1, <1>3 DEF Rank
<1>5. \A a, b \in S : v[a] > v[b] => Rank(S, v)[a] < Rank(S, v)[b] BY <1>1, <1>2 DEF Rank
<1>6. \A a, b \in S : v[a] > v[b] \/ v[b] > v[a] \/ a = b OBVIOUS
<1>7. \A a, b \in S : v[a] > v[b] <=> Rank(S, v)[a] < Rank(S, v)[b] BY <1>4, <1>5, <1>6
<1>8. Rank(S, v) \in Injection(S, 1 .. Cardinality(S))
  BY <1>4, <1>5, <1>6 DEF Injection, IsInjective
<1>9. IsFiniteSet(1 .. Cardinality(S)) /\ Cardinality(1 .. Cardinality(S)) = Cardinality(S)
  BY <1>3, FS_Interval
<1>10. Rank(S, v) \in Surjection(S, 1 .. Cardinality(S)) BY <1>8, <1>9, FS_Injection
<1>11. QED BY <1>7, <1>8, <1>10 DEF Bijection

-----------------------------------------------------------------------------
(* What lists rest on: the index shows rows that are there, and no two     *)
(* rows are of one time.                                                   *)

CreatedInv ==
  /\ index \subseteq Stored
  /\ \A id \in Stored : rows[id].created \in 1 .. clock
  /\ \A id, o \in Stored : rows[id].created = rows[o].created => id = o

ItemsOf(s) == {s[i] : i \in 1 .. Len(s)}

NewestFirst(s) ==
  \A i, k \in 1 .. Len(s) : i < k => rows[s[i]].created > rows[s[k]].created

LEMMA SomeStored ==
  ASSUME TablesOK, CreatedInv, NEW S \in SUBSET Stored
  PROVE  /\ IsFiniteSet(S) /\ Cardinality(S) \in Nat /\ clock \in Nat
         /\ S \subseteq Requests
         /\ \A id \in S : rows[id].created \in Nat \ {0}
         /\ [id \in S |-> rows[id].created] \in [S -> Int]
<1>1. S \subseteq Requests BY DEF Stored
<1>2. clock \in Nat BY DEF TablesOK, Times
<1>3. \A id \in S : rows[id].created \in Nat \ {0} BY <1>2 DEF CreatedInv
<1>4. QED BY <1>1, <1>2, <1>3, RequestsAreCounted, FS_Subset, FS_CardinalityType

(* Newest gives the rows of S, each once, newest first.                    *)
LEMMA NewestFits ==
  ASSUME TablesOK, CreatedInv, NEW S \in SUBSET Stored
  PROVE  /\ Newest(S) \in Seq(S) /\ ItemsOf(Newest(S)) = S
         /\ NewestFirst(Newest(S))
<1> DEFINE n == Cardinality(S)
           v == [id \in S |-> rows[id].created]
           Fits(s) == \A i, k \in 1 .. n : i < k => rows[s[i]].created > rows[s[k]].created
<1>1. IsFiniteSet(S) /\ n \in Nat /\ v \in [S -> Int] /\ \A id \in S : rows[id].created \in Nat
  BY SomeStored
<1>2. \A a, b \in S : v[a] = v[b] => a = b BY DEF CreatedInv
<1>3. PICK r \in Bijection(S, 1 .. n) : \A a, b \in S : v[a] > v[b] <=> r[a] < r[b]
  <2> HIDE DEF v
  <2>1. QED BY <1>1, <1>2, Ranking
<1>4. \E s \in [1 .. n -> S] : Fits(s)
  <2>1. /\ r \in [S -> 1 .. n] /\ \A i \in 1 .. n : \E a \in S : r[a] = i
    BY <1>3 DEF Bijection, Injection, Surjection
  <2> DEFINE s == [i \in 1 .. n |-> CHOOSE a \in S : r[a] = i]
  <2>2. \A i \in 1 .. n : s[i] \in S /\ r[s[i]] = i BY <2>1
  <2>3. s \in [1 .. n -> S] BY <2>2
  <2> HIDE DEF s
  <2>4. Fits(s) BY <1>3, <2>2
  <2>5. QED BY <2>3, <2>4
<1>5. /\ Newest(S) \in [1 .. n -> S] /\ Fits(Newest(S))
  BY <1>4 DEF Newest
<1>6. PICK s \in [1 .. n -> S] : s = Newest(S) /\ Fits(s) BY <1>5
<1>7. s \in Seq(S) /\ Len(s) = n BY <1>1, <1>6
<1>8. \A i, k \in 1 .. n : s[i] = s[k] => i = k
  <2> SUFFICES ASSUME NEW i \in 1 .. n, NEW k \in 1 .. n, s[i] = s[k], i # k PROVE FALSE
    OBVIOUS
  <2>1. i \in Int /\ k \in Int BY <1>1
  <2>2. i < k \/ k < i BY <2>1
  <2>3. rows[s[i]].created > rows[s[k]].created \/ rows[s[k]].created > rows[s[i]].created
    BY <1>6, <2>2
  <2>4. s[i] \in S BY <1>6
  <2>5. QED BY <1>1, <2>3, <2>4
<1>9. s \in Injection(1 .. n, S) BY <1>6, <1>8 DEF Injection, IsInjective
<1>10. Cardinality(1 .. n) = n /\ IsFiniteSet(1 .. n) BY <1>1, FS_Interval
<1>11. s \in Surjection(1 .. n, S) BY <1>1, <1>9, <1>10, FS_Injection
<1>12. ItemsOf(s) = S BY <1>6, <1>7, <1>11 DEF ItemsOf, Surjection
<1>13. QED BY <1>6, <1>7, <1>12 DEF NewestFirst

(* A page is the newest of what is below the cursor, and all of it when it *)
(* is not full.                                                            *)
LEMMA PageFacts ==
  ASSUME TablesOK, CreatedInv, NEW j
  PROVE  /\ Below(j) \subseteq index /\ Page(j) \subseteq Below(j)
         /\ Page(j) \in SUBSET Stored /\ Cardinality(Page(j)) \in Nat
         /\ \A id \in Page(j), o \in Below(j) \ Page(j) : rows[id].created > rows[o].created
         /\ Cardinality(Page(j)) # PageSize => Page(j) = Below(j)
<1> DEFINE B == Below(j)
           v == [id \in B |-> rows[id].created]
           h(a) == Cardinality(Higher(B, v, a))
<1>1. B \subseteq index /\ B \in SUBSET Stored BY DEF Below, CreatedInv
<1>2. /\ IsFiniteSet(B) /\ Cardinality(B) \in Nat /\ v \in [B -> Int]
      /\ \A id \in B : rows[id].created \in Nat
  BY <1>1, SomeStored
<1>3. \A a, b \in B : v[a] = v[b] => a = b BY <1>1 DEF CreatedInv
<1>4. \A a \in B : Higher(B, v, a) = {o \in B : rows[o].created > rows[a].created}
  BY DEF Higher
<1>5. Page(j) = {a \in B : h(a) < PageSize} BY <1>4 DEF Page
<1>6. \A a \in B : v[a] = rows[a].created OBVIOUS
<1> HIDE DEF v
<1>7. PageSize \in Nat \ {0} BY DeskConstants
<1>8. \A a \in B : h(a) \in Nat BY <1>2, HigherFacts
<1>9. ASSUME NEW id \in Page(j), NEW o \in B \ Page(j) PROVE rows[id].created > rows[o].created
  <2>1. id \in B /\ o \in B /\ h(id) < PageSize /\ ~ (h(o) < PageSize) BY <1>5, <1>9
  <2>2. v[o] >= v[id] => h(o) <= h(id) BY <1>2, <2>1, HigherFacts
  <2>3. ~ (v[o] >= v[id]) BY <1>7, <1>8, <2>1, <2>2
  <2>4. QED BY <1>2, <1>6, <2>1, <2>3
<1>10. ASSUME NEW o \in B, o \notin Page(j) PROVE Cardinality(Page(j)) = PageSize
  <2> DEFINE r == Rank(B, v)
  <2>1. r \in Bijection(B, 1 .. Cardinality(B)) BY <1>2, <1>3, Ranking
  <2>2. \A a \in B : r[a] = h(a) + 1 BY DEF Rank
  <2> HIDE DEF r
  <2>3. Page(j) = {a \in B : r[a] <= PageSize} BY <1>5, <1>7, <1>8, <2>2
  <2>4. r[o] > PageSize /\ r[o] \in 1 .. Cardinality(B)
    BY <1>7, <1>8, <1>10, <2>1, <2>2, <2>3 DEF Bijection, Injection
  <2>5. 1 .. PageSize \subseteq 1 .. Cardinality(B) BY <1>2, <1>7, <2>4
  <2> DEFINE t == [a \in Page(j) |-> r[a]]
  <2>6. t \in Bijection(Page(j), 1 .. PageSize)
    <3>1. \A a \in Page(j) : a \in B /\ r[a] \in 1 .. PageSize
      BY <1>7, <2>1, <2>3 DEF Bijection, Injection
    <3>2. \A a, b \in Page(j) : r[a] = r[b] => a = b
      BY <2>1, <3>1 DEF Bijection, Injection, IsInjective
    <3>3. \A i \in 1 .. PageSize : \E a \in Page(j) : r[a] = i
      BY <1>7, <2>1, <2>3, <2>5 DEF Bijection, Surjection
    <3>4. QED BY <3>1, <3>2, <3>3 DEF Bijection, Injection, Surjection, IsInjective
  <2>7. IsFiniteSet(Page(j)) BY <1>2, <1>5, FS_Subset
  <2>8. Cardinality(1 .. PageSize) = Cardinality(Page(j))
    BY <2>6, <2>7, FS_Bijection DEF ExistsBijection
  <2>9. Cardinality(1 .. PageSize) = PageSize BY <1>7, FS_Interval
  <2>10. QED BY <2>8, <2>9
<1>11. Page(j) \subseteq B BY <1>5
<1>12. Page(j) \in SUBSET Stored BY <1>1, <1>11
<1>13. Cardinality(Page(j)) \in Nat BY <1>12, SomeStored
<1>14. QED BY <1>1, <1>9, <1>10, <1>11, <1>12, <1>13

(* The oldest time of a page that has one.                                 *)
OldestOf(page) ==
  CHOOSE t \in Times : /\ \E id \in page : rows[id].created = t
                       /\ \A id \in page : rows[id].created >= t

LEMMA OldestFits ==
  ASSUME TablesOK, CreatedInv, NEW S \in SUBSET Stored, S # {}
  PROVE  /\ OldestOf(S) \in Nat /\ \E id \in S : rows[id].created = OldestOf(S)
         /\ \A id \in S : rows[id].created >= OldestOf(S)
<1> DEFINE T == {rows[id].created : id \in S}
<1>1. T \in SUBSET Nat /\ T # {} BY SomeStored
<1>2. PICK t \in T : \A m \in T : t <= m BY <1>1, NatMin
<1>3. clock \in Times BY DEF TablesOK
<1>4. t \in Times
  <2>1. PICK id \in S : t = rows[id].created OBVIOUS
  <2>2. id \in Stored /\ t \in 1 .. clock BY <2>1 DEF CreatedInv
  <2>3. QED BY <1>3, <2>2, Numbers DEF Times
<1>5. /\ \E id \in S : rows[id].created = t
      /\ \A id \in S : rows[id].created >= t
  BY <1>1, <1>2
<1>6. /\ OldestOf(S) \in Times /\ \E id \in S : rows[id].created = OldestOf(S)
      /\ \A id \in S : rows[id].created >= OldestOf(S)
  BY <1>4, <1>5 DEF OldestOf
<1>7. Times \subseteq Nat BY Numbers DEF Times
<1>8. QED BY <1>6, <1>7

-----------------------------------------------------------------------------
(* A list so far: what it has is indexed and asked for, newest first; it   *)
(* has all it should down to the cursor, and all of it when it has left    *)
(* the index; and the rows of the batches before this one are found.       *)

Hits(j)     == {id \in index : Listed(id, j)}
HasDownTo(j, t) == \A id \in j.seen : rows[id].created >= t => id \in ItemsOf(j.ids)

ListingOK(j) ==
  /\ j \in Export
  /\ ItemsOf(j.ids) \subseteq Hits(j)
  /\ NewestFirst(j.ids)
  /\ j.seen \subseteq Hits(j)

PageOK(j) ==
  /\ j.chunk = 1
  /\ \A id \in ItemsOf(j.ids) : rows[id].created >= j.cursor
  /\ HasDownTo(j, j.cursor)

FetchOK(j) ==
  /\ j.chunk >= 1
  /\ \A i \in 1 .. Len(j.ids) : i < j.chunk => j.ids[i] \in j.found

ExportOK(q) ==
  /\ pc[q] \in ExportSteps => ListingOK(job[q])
  /\ pc[q] = "list" => PageOK(job[q])
  /\ pc[q] \in {"fetch", "exported"} => job[q].seen \subseteq ItemsOf(job[q].ids)
  /\ pc[q] = "fetch" => job[q].full /\ FetchOK(job[q])
  /\ pc[q] = "exported" /\ job[q].full => ItemsOf(job[q].ids) \subseteq job[q].found

ExportInv ==
  /\ CreatedInv
  /\ \A q \in Requests : ExportOK(q)
  /\ \A q \in Requests : pc[q] \in {"idle", "done"} => job[q] = NoJob

(* Nothing a list looks at changes in a row that is there.                 *)
RowsKept ==
  /\ index \subseteq index'
  /\ \A id \in Stored :
       /\ rows'[id].customer = rows[id].customer /\ rows'[id].type = rows[id].type
       /\ rows'[id].created = rows[id].created

LEMMA KeptListing ==
  ASSUME CreatedInv, RowsKept, NEW j, ListingOK(j)
  PROVE  /\ ListingOK(j)'
         /\ PageOK(j) => PageOK(j)'
         /\ FetchOK(j)' <=> FetchOK(j)
<1>1. index \subseteq Stored BY DEF CreatedInv
<1>2. \A id \in index : id \in index' /\ rows'[id].created = rows[id].created
                        /\ (Listed(id, j)' <=> Listed(id, j))
  BY <1>1 DEF RowsKept, Listed, Wanted
<1>3. Hits(j) \subseteq Hits(j)' BY <1>2 DEF Hits
<1>4. ItemsOf(j.ids) \subseteq index /\ j.seen \subseteq index BY DEF ListingOK, Hits
<1>5. \A i \in 1 .. Len(j.ids) : j.ids[i] \in index BY <1>4 DEF ItemsOf
<1>6. NewestFirst(j.ids)' BY <1>2, <1>5 DEF NewestFirst, ListingOK
<1>7. ListingOK(j)' BY <1>3, <1>6 DEF ListingOK
<1>8. PageOK(j) => PageOK(j)' BY <1>2, <1>4 DEF PageOK, HasDownTo
<1>9. FetchOK(j)' <=> FetchOK(j) BY DEF FetchOK
<1>10. QED BY <1>7, <1>8, <1>9

LEMMA ExportFrame ==
  ASSUME CreatedInv, RowsKept, NEW q \in Requests, ExportOK(q),
         pc'[q] = pc[q], job'[q] = job[q]
  PROVE  ExportOK(q)'
<1> DEFINE j == job[q]
<1>1. pc[q] \in ExportSteps => ListingOK(j)' BY KeptListing DEF ExportOK
<1>2. pc[q] = "list" => PageOK(j)' BY KeptListing DEF ExportOK, ExportSteps
<1>3. pc[q] = "fetch" => FetchOK(j)' BY KeptListing DEF ExportOK, ExportSteps
<1>4. ListingOK(job[q])' <=> ListingOK(j)'
  BY DEF ListingOK, Hits, Listed, Wanted, NewestFirst
<1>5. PageOK(job[q])' <=> PageOK(j)' BY DEF PageOK, HasDownTo
<1>6. FetchOK(job[q])' <=> FetchOK(j)' BY DEF FetchOK
<1>7. QED BY <1>1, <1>2, <1>3, <1>4, <1>5, <1>6 DEF ExportOK

-----------------------------------------------------------------------------
(* The steps of a list.                                                    *)

LEMMA DayFacts ==
  /\ \A t \in Times : Day(t) \in Times
  /\ \A j \in Export, t \in Nat : InDays(t, j) => Day(t) \in j.from .. j.to
<1>1. DayLength \in Nat \ {0} /\ MaxRequests \in Nat /\ Times \subseteq Nat
  BY DeskConstants, Numbers DEF Times
<1>2. ASSUME NEW t \in Nat PROVE t \div DayLength \in Nat /\ t \div DayLength <= t
  BY <1>1
<1>3. ASSUME NEW t \in Nat, NEW f \in Nat, f * DayLength <= t PROVE f <= t \div DayLength
  BY <1>1, <1>3
<1>4. ASSUME NEW t \in Nat, NEW f \in Nat, t < (f + 1) * DayLength PROVE t \div DayLength <= f
  BY <1>1, <1>4
<1>5. \A t \in Times : Day(t) \in Times BY <1>1, <1>2 DEF Day, Times
<1>6. ASSUME NEW j \in Export, NEW t \in Nat, InDays(t, j) PROVE Day(t) \in j.from .. j.to
  <2>1. j.from \in Nat /\ j.to \in Nat BY <1>1 DEF Export
  <2>2. PICK from \in Nat, to \in Nat : from = j.from /\ to = j.to BY <2>1
  <2>3. from * DayLength <= t /\ t < (to + 1) * DayLength
    <3>1. t >= from * DayLength /\ t < (to + 1) * DayLength BY <1>6, <2>2 DEF InDays
    <3>2. QED BY <1>1, <3>1
  <2>4. from <= t \div DayLength /\ t \div DayLength <= to /\ t \div DayLength \in Nat
    BY <1>2, <1>3, <1>4, <2>3
  <2>5. QED BY <2>2, <2>4 DEF Day
<1>7. QED BY <1>5, <1>6

LEMMA BeginListing ==
  ASSUME TablesOK, JobsOK, CreatedInv, NEW q \in Requests, BeginList(q) \/ BeginExport(q)
  PROVE  /\ ExportOK(q)' /\ UNCHANGED <<tables, clock>>
         /\ pc[q] = "idle" /\ pc'[q] = "list"
         /\ \A p \in Requests \ {q} : pc'[p] = pc[p] /\ job'[p] = job[p]
<1>1. PICK c \in Customers, t \in EditedTypes, full \in BOOLEAN, from \in Times, to \in Times :
        Begin(q, Asked(c, t, full, from, to)) /\ pc[q] = "idle"
  <2>1. CASE BeginList(q)
    <3>1. Day(MaxRequests) \in Times /\ 0 \in Times BY DayFacts, Numbers DEF Times
    <3>2. PICK c \in Customers, t \in EditedTypes :
            Begin(q, Asked(c, t, FALSE, 0, Day(MaxRequests)))
      BY <2>1 DEF BeginList
    <3>3. pc[q] = "idle" BY <2>1 DEF BeginList, MayBegin
    <3>4. QED BY <3>1, <3>2, <3>3
  <2>2. CASE BeginExport(q)
    <3>1. PICK c \in Customers, t \in EditedTypes, from \in {Day(s) : s \in Times},
               to \in {Day(s) : s \in Times} : Begin(q, Asked(c, t, TRUE, from, to))
      BY <2>2 DEF BeginExport
    <3>2. from \in Times /\ to \in Times BY DayFacts
    <3>3. pc[q] = "idle" BY <2>2 DEF BeginExport, MayBegin
    <3>4. QED BY <3>1, <3>2, <3>3
  <2>3. QED BY <2>1, <2>2
<1> DEFINE a == Asked(c, t, full, from, to)
<1>2. Hits(a) \subseteq Requests BY DEF Hits, CreatedInv, Stored
<1>3. MaxRequests + 1 \in Nat /\ 1 \in Nat /\ <<>> \in Seq(Requests) BY Numbers
<1>4. PICK j \in Export :
        /\ j = [a EXCEPT !.seen = Hits(a)]
        /\ j.ids = <<>> /\ j.seen = Hits(a) /\ j.chunk = 1 /\ j.cursor = MaxRequests + 1
        /\ j.customer = a.customer /\ j.type = a.type /\ j.from = a.from /\ j.to = a.to
  <2> DEFINE l == [a EXCEPT !.seen = Hits(a)]
  <2>1. /\ l \in Export
        /\ l.ids = <<>> /\ l.seen = Hits(a) /\ l.chunk = 1 /\ l.cursor = MaxRequests + 1
        /\ l.customer = a.customer /\ l.type = a.type /\ l.from = a.from /\ l.to = a.to
    BY <1>2, <1>3 DEF Asked, Export
  <2> HIDE DEF a, l
  <2>2. l = [a EXCEPT !.seen = Hits(a)] BY DEF l
  <2>3. QED BY <2>1, <2>2
<1>5. /\ job' = [job EXCEPT ![q] = j] /\ Goto(q, "list") /\ UNCHANGED <<tables, clock>>
  BY <1>1, <1>4 DEF Begin, Hits
<1> HIDE DEF a
<1>6. Hits(j) = Hits(a) BY <1>4 DEF Hits, Listed, Wanted, InDays
<1>7. ItemsOf(j.ids) = {} /\ NewestFirst(j.ids) BY <1>4 DEF ItemsOf, NewestFirst
<1>8. ListingOK(j) BY <1>4, <1>6, <1>7 DEF ListingOK
<1>9. PageOK(j)
  <2>1. \A id \in j.seen : ~ (rows[id].created >= j.cursor)
    <3> SUFFICES ASSUME NEW id \in j.seen PROVE ~ (rows[id].created >= j.cursor)
      OBVIOUS
    <3>1. id \in Stored BY <1>4 DEF Hits, CreatedInv
    <3>2. rows[id].created \in 1 .. clock /\ clock \in Times BY <3>1 DEF CreatedInv, TablesOK
    <3>3. QED BY <1>4, <3>2, Numbers DEF Times
  <2>2. QED BY <1>4, <1>7, <2>1 DEF PageOK, HasDownTo
<1>10. /\ pc'[q] = "list" /\ job'[q] = j
       /\ \A p \in Requests \ {q} : pc'[p] = pc[p] /\ job'[p] = job[p]
  BY <1>5 DEF JobsOK, Goto
<1>11. RowsKept BY <1>5 DEF RowsKept, tables
<1>12. ListingOK(j)' /\ PageOK(j)' BY <1>8, <1>9, <1>11, KeptListing
<1>13. ListingOK(job[q])' /\ PageOK(job[q])'
  BY <1>10, <1>12
  DEF ListingOK, Hits, Listed, Wanted, NewestFirst, PageOK, HasDownTo
<1>14. QED BY <1>1, <1>5, <1>10, <1>13 DEF ExportOK, ExportSteps

LEMMA AppendedItems ==
  ASSUME NEW S, NEW s \in Seq(S), NEW t \in Seq(S)
  PROVE  /\ s \o t \in Seq(S) /\ Len(s \o t) = Len(s) + Len(t)
         /\ \A i \in 1 .. Len(s \o t) : (s \o t)[i] = IF i <= Len(s) THEN s[i] ELSE t[i - Len(s)]
         /\ ItemsOf(s \o t) = ItemsOf(s) \cup ItemsOf(t)
<1>1. /\ s \o t \in Seq(S) /\ Len(s \o t) = Len(s) + Len(t) /\ Len(s) \in Nat /\ Len(t) \in Nat
      /\ \A i \in 1 .. Len(s \o t) : (s \o t)[i] = IF i <= Len(s) THEN s[i] ELSE t[i - Len(s)]
  OBVIOUS
<1> DEFINE u == s \o t
<1> HIDE DEF u
<1>2. ASSUME NEW i \in 1 .. Len(u) PROVE u[i] \in ItemsOf(s) \cup ItemsOf(t)
  <2>1. CASE i <= Len(s) BY <1>1, <2>1 DEF ItemsOf, u
  <2>2. CASE ~ (i <= Len(s))
    <3>1. i - Len(s) \in 1 .. Len(t) /\ u[i] = t[i - Len(s)] BY <1>1, <2>2 DEF u
    <3>2. QED BY <3>1 DEF ItemsOf
  <2>3. QED BY <2>1, <2>2
<1>3. ASSUME NEW i \in 1 .. Len(s) PROVE s[i] \in ItemsOf(u)
  <2>1. i \in 1 .. Len(u) /\ u[i] = s[i] BY <1>1 DEF u
  <2>2. QED BY <2>1 DEF ItemsOf
<1>4. ASSUME NEW i \in 1 .. Len(t) PROVE t[i] \in ItemsOf(u)
  <2>1. i + Len(s) \in 1 .. Len(u) /\ ~ (i + Len(s) <= Len(s)) /\ i + Len(s) - Len(s) = i
    BY <1>1 DEF u
  <2>2. u[i + Len(s)] = t[i] BY <1>1, <2>1 DEF u
  <2>3. QED BY <2>1, <2>2 DEF ItemsOf
<1>5. ItemsOf(u) = ItemsOf(s) \cup ItemsOf(t) BY <1>2, <1>3, <1>4 DEF ItemsOf
<1>6. QED BY <1>1, <1>5 DEF u

(* A page put after what is listed, all of which is newer.                 *)
LEMMA AddedPage ==
  ASSUME TablesOK, CreatedInv, NEW j, ListingOK(j), PageOK(j)
  PROVE  LET hits == {id \in Page(j) : rows[id].type = j.type}
             ids  == j.ids \o Newest(hits)
         IN /\ ids \in Seq(Requests) /\ ItemsOf(ids) = ItemsOf(j.ids) \cup hits
            /\ hits \subseteq Hits(j) /\ NewestFirst(ids)
<1> DEFINE hits == {id \in Page(j) : rows[id].type = j.type}
           t == Newest(hits)
           ids == j.ids \o t
<1>1. hits \in SUBSET Stored /\ hits \subseteq Below(j) BY PageFacts
<1>2. t \in Seq(hits) /\ ItemsOf(t) = hits /\ NewestFirst(t) BY <1>1, NewestFits
<1>3. hits \subseteq Hits(j)
  BY <1>1 DEF Hits, Listed, Below
<1>4. \A id \in hits : rows[id].created < j.cursor BY <1>1 DEF Below
<1> HIDE DEF hits, t
<1>5. j.ids \in Seq(Requests) /\ j.cursor \in Nat BY DEF ListingOK, Export
<1>6. t \in Seq(Requests) BY <1>1, <1>2 DEF Stored
<1>7. /\ ids \in Seq(Requests) /\ Len(ids) = Len(j.ids) + Len(t)
      /\ \A i \in 1 .. Len(ids) : ids[i] = IF i <= Len(j.ids) THEN j.ids[i] ELSE t[i - Len(j.ids)]
      /\ ItemsOf(ids) = ItemsOf(j.ids) \cup hits
  BY <1>2, <1>5, <1>6, AppendedItems
<1>8. Len(j.ids) \in Nat /\ Len(t) \in Nat BY <1>5, <1>6
<1> HIDE DEF ids
<1>9. NewestFirst(ids)
  <2> SUFFICES ASSUME NEW i \in 1 .. Len(ids), NEW k \in 1 .. Len(ids), i < k
               PROVE  rows[ids[i]].created > rows[ids[k]].created
    BY DEF NewestFirst
  <2>1. CASE k <= Len(j.ids)
    <3>1. i \in 1 .. Len(j.ids) /\ k \in 1 .. Len(j.ids) /\ ids[i] = j.ids[i] /\ ids[k] = j.ids[k]
      BY <1>7, <1>8, <2>1
    <3>2. QED BY <3>1 DEF ListingOK, NewestFirst
  <2>2. CASE ~ (i <= Len(j.ids))
    <3>1. /\ i - Len(j.ids) \in 1 .. Len(t) /\ k - Len(j.ids) \in 1 .. Len(t)
          /\ i - Len(j.ids) < k - Len(j.ids)
          /\ ids[i] = t[i - Len(j.ids)] /\ ids[k] = t[k - Len(j.ids)]
      BY <1>7, <1>8, <2>2
    <3>2. QED BY <1>2, <3>1 DEF NewestFirst
  <2>3. CASE i <= Len(j.ids) /\ ~ (k <= Len(j.ids))
    <3>1. /\ i \in 1 .. Len(j.ids) /\ ids[i] = j.ids[i]
          /\ k - Len(j.ids) \in 1 .. Len(t) /\ ids[k] = t[k - Len(j.ids)]
      BY <1>7, <1>8, <2>3
    <3>2. ids[i] \in ItemsOf(j.ids) /\ ids[k] \in hits BY <1>2, <3>1 DEF ItemsOf
    <3>3. rows[ids[i]].created >= j.cursor /\ rows[ids[k]].created < j.cursor
      BY <1>4, <3>2 DEF PageOK
    <3>4. ids[i] \in Stored /\ ids[k] \in Stored
      BY <1>1, <3>2 DEF ListingOK, Hits, CreatedInv
    <3>5. rows[ids[i]].created \in Nat /\ rows[ids[k]].created \in Nat
      BY <3>4, SomeStored
    <3>6. QED BY <1>5, <3>3, <3>5
  <2>4. QED BY <1>8, <2>1, <2>2, <2>3
<1>10. QED BY <1>3, <1>7, <1>9 DEF ids, hits, t

(* A list that has moved on, with the rows and the index as they were.     *)
LEMMA JobFollows ==
  ASSUME NEW q \in Requests, NEW l, UNCHANGED <<tables, clock>>, job'[q] = l, ListingOK(l),
         pc'[q] = "list" => PageOK(l),
         pc'[q] \in {"fetch", "exported"} => l.seen \subseteq ItemsOf(l.ids),
         pc'[q] = "fetch" => l.full /\ FetchOK(l),
         pc'[q] = "exported" /\ l.full => ItemsOf(l.ids) \subseteq l.found
  PROVE  ExportOK(q)'
<1>1. UNCHANGED <<rows, index>> BY DEF tables
<1>2. ListingOK(job[q])' BY <1>1 DEF ListingOK, Hits, Listed, Wanted, NewestFirst
<1>3. (pc[q] = "list" => PageOK(job[q]))' BY <1>1 DEF PageOK, HasDownTo
<1>4. (pc[q] = "fetch" => job[q].full /\ FetchOK(job[q]))' BY DEF FetchOK
<1>5. (pc[q] \in {"fetch", "exported"} => job[q].seen \subseteq ItemsOf(job[q].ids))'
  OBVIOUS
<1>6. (pc[q] = "exported" /\ job[q].full => ItemsOf(job[q].ids) \subseteq job[q].found)'
  OBVIOUS
<1>7. QED BY <1>2, <1>3, <1>4, <1>5, <1>6 DEF ExportOK

(* The page's step: on down the index while pages are full.                *)
LEMMA PageStep ==
  ASSUME TablesOK, JobsOK, CreatedInv, NEW q \in Requests, ExportOK(q), ListPage(q)
  PROVE  /\ ExportOK(q)' /\ UNCHANGED <<tables, clock>>
         /\ pc'[q] \in ExportSteps
         /\ \A p \in Requests \ {q} : pc'[p] = pc[p] /\ job'[p] = job[p]
<1>1. pc[q] = "list" BY DEF ListPage
<1>2. ListingOK(job[q]) /\ PageOK(job[q]) BY <1>1 DEF ExportOK, ExportSteps
<1>3. PICK j \in Export : j = job[q] BY <1>2 DEF ListingOK
<1> DEFINE page == Page(j)
           hits == {id \in page : rows[id].type = j.type}
           ids  == j.ids \o Newest(hits)
           more == Cardinality(page) = PageSize
           cursor == IF more THEN OldestOf(page) ELSE j.cursor
           step == IF more THEN "list" ELSE IF j.full THEN "fetch" ELSE "exported"
<1>4. /\ job' = [job EXCEPT ![q].ids = job[q].ids \o Newest(hits), ![q].cursor = cursor]
      /\ Goto(q, step) /\ UNCHANGED <<tables, clock>>
  BY <1>3 DEF ListPage, OldestOf
<1>5. /\ ids \in Seq(Requests) /\ ItemsOf(ids) = ItemsOf(j.ids) \cup hits
      /\ hits \subseteq Hits(j) /\ NewestFirst(ids)
  BY <1>2, <1>3, AddedPage
<1>6. /\ page \subseteq Below(j) /\ page \in SUBSET Stored /\ Cardinality(page) \in Nat
      /\ \A id \in page, o \in Below(j) \ page : rows[id].created > rows[o].created
      /\ ~more => page = Below(j)
  BY PageFacts
<1>7. more => /\ OldestOf(page) \in Nat /\ \E id \in page : rows[id].created = OldestOf(page)
              /\ \A id \in page : rows[id].created >= OldestOf(page)
  <2>1. more => page # {}
    <3>1. PageSize # 0 BY DeskConstants
    <3>2. QED BY <3>1, FS_EmptySet
  <2>2. QED BY <1>6, <2>1, OldestFits
<1>8. j.cursor \in Nat BY DEF Export
<1>9. cursor \in Nat BY <1>7, <1>8
<1>10. PICK l \in Export : /\ l = [j EXCEPT !.ids = ids, !.cursor = cursor]
                           /\ l.ids = ids /\ l.cursor = cursor /\ l.seen = j.seen
                           /\ l.chunk = j.chunk /\ l.full = j.full /\ l.customer = j.customer
                           /\ l.type = j.type /\ l.from = j.from /\ l.to = j.to
                           /\ l.found = j.found
  <2> HIDE DEF ids, cursor
  <2> DEFINE k == [j EXCEPT !.ids = ids, !.cursor = cursor]
  <2>1. /\ k \in Export /\ k.ids = ids /\ k.cursor = cursor /\ k.seen = j.seen
        /\ k.chunk = j.chunk /\ k.full = j.full /\ k.customer = j.customer
        /\ k.type = j.type /\ k.from = j.from /\ k.to = j.to /\ k.found = j.found
    BY <1>5, <1>9 DEF Export
  <2> HIDE DEF k
  <2>2. k = [j EXCEPT !.ids = ids, !.cursor = cursor] BY DEF k
  <2>3. QED BY <2>1, <2>2
<1>11. step \in {"list", "fetch", "exported"} OBVIOUS
<1>12. /\ pc'[q] = step /\ job'[q] = l
       /\ \A p \in Requests \ {q} : pc'[p] = pc[p] /\ job'[p] = job[p]
  <2> HIDE DEF ids, cursor, step
  <2>1. job' = [job EXCEPT ![q] = l] BY <1>3, <1>4, <1>10 DEF ids
  <2>2. QED BY <1>4, <2>1 DEF Goto, JobsOK
<1>13. Hits(l) = Hits(j) BY <1>10 DEF Hits, Listed, Wanted, InDays
<1>14. ListingOK(l) BY <1>2, <1>3, <1>5, <1>10, <1>13 DEF ListingOK
<1> HIDE DEF ids
<1>15. \A id \in j.seen : /\ id \in Stored /\ rows[id].created \in Nat
                          /\ rows[id].created >= j.cursor => id \in ItemsOf(ids)
                          /\ rows[id].created < j.cursor => id \in Below(j)
                          /\ id \in page => id \in ItemsOf(ids)
  <2> SUFFICES ASSUME NEW id \in j.seen
               PROVE  /\ id \in Stored /\ rows[id].created \in Nat
                      /\ rows[id].created >= j.cursor => id \in ItemsOf(ids)
                      /\ rows[id].created < j.cursor => id \in Below(j)
                      /\ id \in page => id \in ItemsOf(ids)
    OBVIOUS
  <2>1. id \in index /\ Listed(id, j) BY <1>2, <1>3 DEF ListingOK, Hits
  <2>2. id \in Stored BY <2>1 DEF CreatedInv
  <2>3. rows[id].created \in Nat BY <2>2, SomeStored
  <2>4. rows[id].created >= j.cursor => id \in ItemsOf(ids)
    BY <1>2, <1>3, <1>5 DEF PageOK, HasDownTo
  <2>5. rows[id].created < j.cursor => id \in Below(j) BY <2>1 DEF Below, Listed
  <2>6. id \in page => id \in ItemsOf(ids) BY <1>5, <2>1 DEF Listed
  <2>7. QED BY <2>2, <2>3, <2>4, <2>5, <2>6
<1>16. CASE more
  <2>1. step = "list" /\ cursor = OldestOf(page) BY <1>16
  <2>2. \A id \in ItemsOf(ids) : rows[id].created >= cursor
    <3>1. ASSUME NEW id \in ItemsOf(j.ids) PROVE rows[id].created >= cursor
      <4>1. PICK o \in page : rows[o].created = OldestOf(page) BY <1>7, <1>16
      <4>2. rows[o].created < j.cursor BY <1>6, <4>1 DEF Below
      <4>3. rows[id].created >= j.cursor BY <1>2, <1>3, <3>1 DEF PageOK
      <4>4. id \in Stored BY <1>2, <1>3, <3>1 DEF ListingOK, Hits, CreatedInv
      <4>5. rows[id].created \in Nat BY <4>4, SomeStored
      <4>6. QED BY <1>8, <1>9, <2>1, <4>1, <4>2, <4>3, <4>5
    <3>2. ASSUME NEW id \in hits PROVE rows[id].created >= cursor BY <1>7, <1>16, <2>1
    <3>3. QED BY <1>5, <3>1, <3>2
  <2>3. HasDownTo(l, cursor)
    <3> SUFFICES ASSUME NEW id \in j.seen, rows[id].created >= cursor, id \notin ItemsOf(ids)
                 PROVE  FALSE
      BY <1>10 DEF HasDownTo
    <3>1. id \in Below(j) \ page /\ rows[id].created \in Nat BY <1>8, <1>15
    <3>2. PICK o \in page : rows[o].created = OldestOf(page) BY <1>7, <1>16
    <3>3. rows[o].created > rows[id].created BY <1>6, <3>1, <3>2
    <3>4. QED BY <1>9, <2>1, <3>1, <3>2, <3>3
  <2>4. PageOK(l) BY <1>2, <1>3, <1>10, <2>2, <2>3 DEF PageOK
  <2>5. QED BY <1>12, <1>14, <2>1, <2>4, <1>4, JobFollows DEF ExportSteps
<1>17. CASE ~more
  <2>1. l.seen \subseteq ItemsOf(l.ids) BY <1>6, <1>8, <1>10, <1>15, <1>17
  <2>2. step = IF j.full THEN "fetch" ELSE "exported" BY <1>17
  <2>3. FetchOK(l)
    <3>1. l.chunk = 1 BY <1>2, <1>3, <1>10 DEF PageOK
    <3>2. Len(l.ids) \in Nat BY DEF Export
    <3>3. QED BY <3>1, <3>2 DEF FetchOK
  <2>4. j.full \in BOOLEAN BY DEF Export
  <2>5. QED BY <1>4, <1>10, <1>12, <1>14, <2>1, <2>2, <2>3, <2>4, JobFollows DEF ExportSteps
<1>18. QED BY <1>16, <1>17

(* A batch's step: on to the next when all of this one is found.           *)
LEMMA FetchStep ==
  ASSUME JobsOK, NEW q \in Requests, ExportOK(q), FetchSome(q)
  PROVE  /\ ExportOK(q)' /\ UNCHANGED <<tables, clock>>
         /\ pc'[q] \in ExportSteps
         /\ \A p \in Requests \ {q} : pc'[p] = pc[p] /\ job'[p] = job[p]
<1>1. pc[q] = "fetch" /\ UNCHANGED <<tables, clock>> BY DEF FetchSome
<1>2. /\ ListingOK(job[q]) /\ FetchOK(job[q]) /\ job[q].full
      /\ job[q].seen \subseteq ItemsOf(job[q].ids)
  BY <1>1 DEF ExportOK, ExportSteps
<1>3. PICK j \in Export : j = job[q] BY <1>2 DEF ListingOK
<1>4. /\ Len(j.ids) \in Nat /\ j.chunk \in Nat /\ BatchMax \in Nat \ {0}
      /\ \A i \in 1 .. Len(j.ids) : j.ids[i] \in Requests
  BY DeskConstants DEF Export
<1>5. CASE j.chunk > Len(j.ids)
  <2>1. Goto(q, "exported") /\ UNCHANGED job BY <1>3, <1>5 DEF FetchSome
  <2>2. pc'[q] = "exported" /\ job'[q] = j /\ \A p \in Requests \ {q} : pc'[p] = pc[p] /\ job'[p] = job[p]
    BY <1>3, <2>1 DEF Goto, JobsOK
  <2>3. ItemsOf(j.ids) \subseteq j.found BY <1>2, <1>3, <1>4, <1>5 DEF ItemsOf, FetchOK
  <2>4. QED BY <1>1, <1>2, <1>3, <2>2, <2>3, JobFollows DEF ExportSteps
<1>6. CASE ~(j.chunk > Len(j.ids))
  <2> DEFINE last == j.chunk + BatchMax - 1
             top  == IF last < Len(j.ids) THEN last ELSE Len(j.ids)
             left == {j.ids[i] : i \in j.chunk .. top} \ j.found
  <2>1. /\ UNCHANGED pc
        /\ \E got \in SUBSET left :
             job' = [job EXCEPT ![q].found = job[q].found \cup got,
                                ![q].chunk = IF got = left THEN last + 1 ELSE job[q].chunk]
    <3> DEFINE jlast == job[q].chunk + BatchMax - 1
               jtop  == IF jlast < Len(job[q].ids) THEN jlast ELSE Len(job[q].ids)
               jleft == {job[q].ids[i] : i \in job[q].chunk .. jtop} \ job[q].found
    <3>1. ~(job[q].chunk > Len(job[q].ids)) BY <1>3, <1>6
    <3>2. /\ UNCHANGED pc
          /\ \E got \in SUBSET jleft :
               job' = [job EXCEPT ![q].found = @ \cup got,
                                  ![q].chunk = IF got = jleft THEN jlast + 1 ELSE @]
      BY <3>1, Zenon DEF FetchSome
    <3>3. jlast = last /\ jleft = left BY <1>3
    <3> HIDE DEF jlast, jleft, last, left
    <3>4. QED BY <3>2, <3>3
  <2>2. PICK got \in SUBSET left :
             job' = [job EXCEPT ![q].found = job[q].found \cup got,
                                ![q].chunk = IF got = left THEN last + 1 ELSE job[q].chunk]
    BY <2>1
  <2> DEFINE chunk == IF got = left THEN last + 1 ELSE j.chunk
             k == [j EXCEPT !.found = j.found \cup got, !.chunk = chunk]
  <2>3. /\ last \in Nat /\ chunk \in Nat /\ chunk >= j.chunk
        /\ top \in Nat /\ top <= Len(j.ids)
    BY <1>2, <1>3, <1>4 DEF FetchOK
  <2>4. left \subseteq Requests
    <3>1. \A i \in j.chunk .. top : i \in 1 .. Len(j.ids)
      BY <1>2, <1>3, <1>4, <2>3 DEF FetchOK
    <3>2. QED BY <1>4, <3>1
  <2>5. \A i \in 1 .. Len(j.ids) : i < chunk => j.ids[i] \in j.found \cup got
    <3> SUFFICES ASSUME NEW i \in 1 .. Len(j.ids), i < chunk, j.ids[i] \notin j.found
                 PROVE  j.ids[i] \in got
      OBVIOUS
    <3>1. ~(i < j.chunk) BY <1>2, <1>3 DEF FetchOK
    <3>2. got = left /\ i <= last BY <1>4, <2>3, <3>1
    <3>3. i \in j.chunk .. top BY <1>4, <2>3, <3>1, <3>2
    <3>4. j.ids[i] \in left BY <3>3
    <3>5. QED BY <3>2, <3>4
  <2> HIDE DEF left, chunk
  <2>6. PICK l \in Export : /\ l = k /\ l.found = j.found \cup got /\ l.chunk = chunk
                            /\ l.ids = j.ids /\ l.seen = j.seen /\ l.full = j.full
                            /\ l.customer = j.customer /\ l.type = j.type
                            /\ l.from = j.from /\ l.to = j.to
    <3>1. /\ k \in Export /\ k.found = j.found \cup got /\ k.chunk = chunk
          /\ k.ids = j.ids /\ k.seen = j.seen /\ k.full = j.full
          /\ k.customer = j.customer /\ k.type = j.type /\ k.from = j.from /\ k.to = j.to
      BY <2>3, <2>4 DEF Export
    <3> HIDE DEF k
    <3>2. QED BY <3>1
  <2>7. job' = [job EXCEPT ![q] = l] BY <1>3, <2>2, <2>6 DEF chunk
  <2>8. /\ pc'[q] = "fetch" /\ job'[q] = l
        /\ \A p \in Requests \ {q} : pc'[p] = pc[p] /\ job'[p] = job[p]
    BY <1>1, <2>1, <2>7 DEF JobsOK
  <2>9. Hits(l) = Hits(j) BY <2>6 DEF Hits, Listed, Wanted, InDays
  <2>10. ListingOK(l) BY <1>2, <1>3, <2>6, <2>9 DEF ListingOK
  <2>11. chunk >= 1 BY <1>2, <1>3, <1>4, <2>3 DEF FetchOK
  <2>12. FetchOK(l) BY <2>5, <2>6, <2>11 DEF FetchOK
  <2>13. QED BY <1>1, <1>2, <1>3, <2>6, <2>8, <2>10, <2>12, JobFollows DEF ExportSteps
<1>7. QED BY <1>5, <1>6

-----------------------------------------------------------------------------
(* The steps that change rows or the index keep what lists rest on.        *)

(* An edit leaves the time a row was created.                              *)
LEMMA UpdatedCreated ==
  ASSUME NEW r \in Rows, NEW j \in Edit
  PROVE  Updated(r, j).created = r.created
<1>1. WithStatus(r, j).created = r.created BY DEF WithStatus, Rows
<1>2. CASE j.status = Keep BY <1>2 DEF Updated, WithNote, WithStatus, Rows
<1>3. CASE j.status # Keep
  <2> DEFINE s == WithStatus(r, j)
  <2>1. s.created = r.created /\ s = [s EXCEPT !.created = r.created]
    BY <1>3 DEF WithStatus, Rows
  <2>2. [s EXCEPT !.note = j.note].created = s.created BY <1>3 DEF WithStatus, Rows
  <2>3. QED BY <2>1, <2>2 DEF Updated, WithNote
<1>4. QED BY <1>2, <1>3

LEMMA RowsStep ==
  ASSUME Typed, FilingInv, CreatedInv, [Next]_vars
  PROVE  RowsKept /\ CreatedInv'
<1>1. TablesOK /\ JobsOK /\ clock \in Nat BY DEF Typed, TablesOK, Times
<1>2. ASSUME UNCHANGED rows, index \subseteq index', index' \subseteq Stored,
             clock <= clock', clock' \in Nat
      PROVE  RowsKept /\ CreatedInv'
  <2>1. Stored' = Stored BY <1>2 DEF Stored
  <2>2. \A id \in Stored : rows'[id].created \in 1 .. clock'
    BY <1>1, <1>2 DEF CreatedInv
  <2>3. QED BY <1>2, <2>1, <2>2 DEF RowsKept, CreatedInv
<1>3. \A x \in {clock'} : x \in Nat BY TypedStep DEF Typed, TablesOK, Times
<1>4. index \subseteq Stored BY DEF CreatedInv
<1>5. CASE UNCHANGED vars BY <1>1, <1>2, <1>4, <1>5 DEF vars, tables
<1>6. ASSUME NEW id \in Requests, IndexRow(id) PROVE RowsKept /\ CreatedInv'
  BY <1>1, <1>2, <1>4, <1>6 DEF IndexRow
<1>7. ASSUME NEW q \in Requests,
             \/ RefuseForm(q) \/ Stop(q)
             \/ BeginFiling(q) \/ Upload(q) \/ FileTicket(q) \/ TicketUnknown(q) \/ RefuseTicket(q)
             \/ Attach(q) \/ BeginEdit(q) \/ BeginList(q) \/ BeginExport(q) \/ ListPage(q)
             \/ FetchSome(q)
      PROVE  RowsKept /\ CreatedInv'
  <2>1. UNCHANGED <<rows, index>>
    BY <1>7 DEF RefuseForm, Stop, BeginFiling, Upload, FileTicket, TicketUnknown, RefuseTicket,
         Attach, BeginEdit, BeginList, BeginExport, Begin, ListPage, FetchSome, tables
  <2>2. clock' = clock \/ clock' = clock + 1
    BY <1>7 DEF RefuseForm, Stop, BeginFiling, Upload, FileTicket, TicketUnknown, RefuseTicket,
         Attach, BeginEdit, BeginList, BeginExport, Begin, ListPage, FetchSome
  <2>3. clock <= clock' /\ clock' \in Nat BY <1>1, <2>2
  <2>4. QED BY <1>2, <1>4, <2>1, <2>3
<1>8. ASSUME NEW q \in Requests, AddRow(q) PROVE RowsKept /\ CreatedInv'
  <2>1. /\ pc[q] = "add" /\ index' = index /\ clock' = clock + 1
        /\ rows' = [rows EXCEPT ![q] = NewRow(job[q])]
    BY <1>8 DEF AddRow
  <2>2. NewRow(job[q]) \in Rows BY <1>1, <1>8, AddMoves
  <2>3. NewRow(job[q]).created = clock + 1 BY DEF NewRow
  <2>4. rows[q] = NoRow BY <2>1 DEF FilingInv, FilingOK, NotFiled, FilingSteps
  <2> HIDE DEF NewRow
  <2>5. /\ rows'[q].created = clock + 1 /\ rows'[q] \in Rows
        /\ \A p \in Requests \ {q} : rows'[p] = rows[p]
    BY <1>1, <2>1, <2>2, <2>3 DEF TablesOK
  <2>6. Stored' = Stored \cup {q} /\ q \notin Stored
    BY <1>1, <2>4, <2>5, StoredIsRow DEF Stored
  <2>7. \A p \in Stored : rows'[p] = rows[p] /\ rows[p].created \in 1 .. clock
    BY <2>5, <2>6 DEF CreatedInv, Stored
  <2>8. RowsKept BY <2>1, <2>7 DEF RowsKept
  <2>9. \A p \in Stored' : rows'[p].created \in 1 .. clock'
    BY <1>1, <2>1, <2>5, <2>6, <2>7
  <2>10. \A p, o \in Stored' : rows'[p].created = rows'[o].created => p = o
    BY <1>1, <2>5, <2>6, <2>7 DEF CreatedInv
  <2>11. QED BY <1>4, <2>1, <2>6, <2>8, <2>9, <2>10 DEF CreatedInv
<1>9. ASSUME NEW o \in Stored, NEW r \in Rows, r.customer = rows[o].customer,
             r.type = rows[o].type, r.created = rows[o].created, rows'[o] = r,
             \A p \in Requests \ {o} : rows'[p] = rows[p], UNCHANGED <<index, clock>>
      PROVE  RowsKept /\ CreatedInv'
  <2>1. r # NoRow /\ o \in Requests BY <1>1, StoredIsRow DEF Stored
  <2>2. Stored' = Stored BY <1>9, <2>1 DEF Stored
  <2>3. \A p \in Stored : /\ rows'[p].customer = rows[p].customer /\ rows'[p].type = rows[p].type
                          /\ rows'[p].created = rows[p].created
    BY <1>9 DEF Stored
  <2>4. QED BY <1>9, <2>2, <2>3 DEF RowsKept, CreatedInv
<1>10. ASSUME NEW q \in Requests, ApplyEdit(q) PROVE RowsKept /\ CreatedInv'
  <2>1. UNCHANGED <<index, clock>> BY <1>10 DEF ApplyEdit
  <2>2. CASE rows' = rows BY <1>1, <1>2, <1>4, <2>1, <2>2
  <2>3. CASE /\ job[q].target \in Requests /\ rows[job[q].target] \in Rows /\ job[q] \in Edit
             /\ rows'[job[q].target] = Updated(rows[job[q].target], job[q])
             /\ \A id \in Requests \ {job[q].target} : rows'[id] = rows[id]
    <3>1. PICK j \in Edit : j = job[q] BY <2>3
    <3>2. PICK o \in Stored : o = job[q].target BY <1>1, <2>3, StoredIsRow
    <3>3. PICK s \in Rows : s = rows[o] BY <2>3, <3>2
    <3>4. PICK r \in Rows : /\ r = Updated(s, j) /\ r.customer = s.customer /\ r.type = s.type
                            /\ r.created = s.created
      BY UpdatedRow, UpdatedCreated
    <3>5. rows'[o] = r /\ \A p \in Requests \ {o} : rows'[p] = rows[p] BY <2>3, <3>1, <3>2, <3>3, <3>4
    <3>6. QED BY <1>9, <2>1, <3>3, <3>4, <3>5
  <2>4. QED BY <1>1, <1>10, <2>2, <2>3, EditMoves
<1>11. ASSUME NEW q \in Requests, SetContact(q) PROVE RowsKept /\ CreatedInv'
  <2>1. UNCHANGED <<index, clock>> BY <1>11 DEF SetContact
  <2>2. PICK o \in Stored : /\ rows[o] \in Rows /\ rows'[o] = [rows[o] EXCEPT !.contact = q]
                            /\ \A p \in Requests \ {o} : rows'[p] = rows[p]
    BY <1>1, <1>11, ContactMoves
  <2>3. PICK s \in Rows : s = rows[o] BY <2>2
  <2>4. PICK r \in Rows : /\ r = [s EXCEPT !.contact = q] /\ r.customer = s.customer
                          /\ r.type = s.type /\ r.created = s.created
    <3> DEFINE t == [s EXCEPT !.contact = q]
    <3>1. t \in Rows /\ t.customer = s.customer /\ t.type = s.type /\ t.created = s.created
      BY Numbers DEF Rows
    <3> HIDE DEF t
    <3>2. t = [s EXCEPT !.contact = q] BY DEF t
    <3>3. QED BY <3>1, <3>2
  <2>5. QED BY <1>9, <2>1, <2>2, <2>3, <2>4
<1>12. QED BY <1>5, <1>6, <1>7, <1>8, <1>10, <1>11 DEF Next

(* A step of a request that is at no list leaves it at none.               *)
LEMMA Elsewhere ==
  ASSUME JobsOK, ExportInv, NEW q \in Requests,
         \/ RefuseForm(q) \/ Stop(q)
         \/ BeginFiling(q) \/ Upload(q) \/ FileTicket(q) \/ TicketUnknown(q) \/ RefuseTicket(q)
         \/ Attach(q) \/ AddRow(q) \/ BeginEdit(q) \/ ApplyEdit(q) \/ SetContact(q)
  PROVE  /\ pc'[q] \notin ExportSteps
         /\ pc'[q] \in {"idle", "done"} => job'[q] = NoJob
         /\ \A p \in Requests \ {q} : pc'[p] = pc[p] /\ job'[p] = job[p]
<1>1. ASSUME NEW step \in Locations \ ExportSteps, Goto(q, step),
             \/ job' = job /\ (step \in {"idle", "done"} => pc[q] = "idle")
             \/ \E j : job' = [job EXCEPT ![q] = j] /\ (step \in {"idle", "done"} => j = NoJob)
      PROVE  /\ pc'[q] \notin ExportSteps
             /\ pc'[q] \in {"idle", "done"} => job'[q] = NoJob
             /\ \A p \in Requests \ {q} : pc'[p] = pc[p] /\ job'[p] = job[p]
  <2>1. pc'[q] = step /\ \A p \in Requests \ {q} : pc'[p] = pc[p] BY <1>1 DEF Goto, JobsOK
  <2>2. CASE job' = job /\ (step \in {"idle", "done"} => pc[q] = "idle")
    BY <2>1, <2>2 DEF ExportInv
  <2>3. ASSUME NEW j, job' = [job EXCEPT ![q] = j], step \in {"idle", "done"} => j = NoJob
        PROVE  /\ pc'[q] \in {"idle", "done"} => job'[q] = NoJob
               /\ \A p \in Requests \ {q} : job'[p] = job[p]
    BY <2>1, <2>3 DEF JobsOK
  <2>4. QED BY <1>1, <2>1, <2>2, <2>3
<1>2. /\ "done" \in Locations \ ExportSteps /\ "edit" \in Locations \ ExportSteps
      /\ "saved" \in Locations \ ExportSteps
      /\ \A step \in FilingSteps : step \in Locations \ ExportSteps
  BY DEF Locations, FilingSteps, ExportSteps, EditSteps
<1>3. {"upload", "ticket", "attach", "add"} = FilingSteps BY DEF FilingSteps
<1>4. \A step \in FilingSteps \cup {"edit", "saved"} : step \notin {"idle", "done"} BY DEF FilingSteps
<1>5. CASE RefuseForm(q) \/ SetContact(q)
  BY <1>1, <1>2, <1>5 DEF RefuseForm, SetContact, MayBegin
<1>6. CASE Leave(q) BY <1>1, <1>2, <1>6 DEF Leave
<1>7. CASE Stop(q) \/ AddRow(q) BY <1>6, <1>7 DEF Stop, AddRow
<1>8. CASE BeginFiling(q)
  <2>1. \E step \in FilingSteps : \E j : Goto(q, step) /\ job' = [job EXCEPT ![q] = j]
    BY <1>3, <1>8 DEF BeginFiling
  <2>2. QED BY <1>1, <1>2, <1>4, <2>1
<1>9. CASE Upload(q) /\ ~Leave(q)
  <2>1. \E step \in FilingSteps : \E n : Goto(q, step) /\ job' = [job EXCEPT ![q].stored = n]
    BY <1>3, <1>9 DEF Upload
  <2>2. QED BY <1>1, <1>2, <1>4, <2>1
<1>10. CASE FileTicket(q)
  <2>1. \E step \in FilingSteps : Goto(q, step) /\ job' = [job EXCEPT ![q].ticket = TRUE]
    BY <1>3, <1>10 DEF FileTicket, AfterTicket
  <2>2. QED BY <1>1, <1>2, <1>4, <2>1
<1>11. CASE TicketUnknown(q) \/ Attach(q)
  <2>1. Goto(q, "add") /\ job' = job BY <1>11 DEF TicketUnknown, Attach
  <2>2. "add" \in FilingSteps BY <1>3
  <2>3. QED BY <1>1, <1>2, <1>4, <2>1, <2>2
<1>12. CASE RefuseTicket(q)
  <2>1. \E step \in FilingSteps : Goto(q, step) /\ job' = [job EXCEPT ![q].handler = FALSE]
    BY <1>3, <1>12 DEF RefuseTicket
  <2>2. QED BY <1>1, <1>2, <1>4, <2>1
<1>13. CASE BeginEdit(q)
  <2>1. Goto(q, "edit") /\ \E j : job' = [job EXCEPT ![q] = j] BY <1>13, Zenon DEF BeginEdit
  <2>2. QED BY <1>1, <1>2, <1>4, <2>1
<1>14. CASE ApplyEdit(q) /\ ~Leave(q)
  <2>1. Goto(q, "saved") /\ job' = job BY <1>14 DEF ApplyEdit
  <2>2. QED BY <1>1, <1>2, <1>4, <2>1
<1>15. QED BY <1>5, <1>6, <1>7, <1>8, <1>9, <1>10, <1>11, <1>12, <1>13, <1>14

LEMMA ExportInit == Init => ExportInv
<1> SUFFICES ASSUME Init PROVE ExportInv OBVIOUS
<1>1. Stored = {} /\ index = {} BY DEF Init, Stored
<1>2. \A q \in Requests : pc[q] = "idle" /\ job[q] = NoJob BY DEF Init
<1>3. \A q \in Requests : ExportOK(q) BY <1>2 DEF ExportOK, ExportSteps
<1>4. QED BY <1>1, <1>2, <1>3 DEF ExportInv, CreatedInv

LEMMA ExportStep ==
  ASSUME Typed, FilingInv, ExportInv, [Next]_vars
  PROVE  ExportInv'
<1>1. TablesOK /\ JobsOK /\ CreatedInv /\ (\A q \in Requests : ExportOK(q))
  BY DEF Typed, ExportInv
<1>2. RowsKept /\ CreatedInv' BY <1>1, RowsStep
<1>3. ASSUME NEW q \in Requests, ExportOK(q)', pc'[q] \in {"idle", "done"} => job'[q] = NoJob,
             \A p \in Requests \ {q} : pc'[p] = pc[p] /\ job'[p] = job[p]
      PROVE  ExportInv'
  <2>1. \A p \in Requests \ {q} : ExportOK(p)' BY <1>1, <1>2, <1>3, ExportFrame
  <2>2. \A p \in Requests : pc'[p] \in {"idle", "done"} => job'[p] = NoJob
    BY <1>3 DEF ExportInv
  <2>3. QED BY <1>2, <1>3, <2>1, <2>2 DEF ExportInv
<1>4. ASSUME NEW q \in Requests, BeginList(q) \/ BeginExport(q) PROVE ExportInv'
  <2>1. /\ ExportOK(q)' /\ pc'[q] = "list"
        /\ \A p \in Requests \ {q} : pc'[p] = pc[p] /\ job'[p] = job[p]
    BY <1>1, <1>4, BeginListing
  <2>2. QED BY <1>3, <2>1
<1>5. ASSUME NEW q \in Requests, ListPage(q) \/ FetchSome(q) PROVE ExportInv'
  <2>1. /\ ExportOK(q)' /\ pc'[q] \in ExportSteps
        /\ \A p \in Requests \ {q} : pc'[p] = pc[p] /\ job'[p] = job[p]
    BY <1>1, <1>5, PageStep, FetchStep
  <2>2. pc'[q] \notin {"idle", "done"} BY <2>1 DEF ExportSteps
  <2>3. QED BY <1>3, <2>1, <2>2
<1>6. ASSUME NEW q \in Requests,
             \/ RefuseForm(q) \/ Stop(q)
             \/ BeginFiling(q) \/ Upload(q) \/ FileTicket(q) \/ TicketUnknown(q) \/ RefuseTicket(q)
             \/ Attach(q) \/ AddRow(q) \/ BeginEdit(q) \/ ApplyEdit(q) \/ SetContact(q)
      PROVE  ExportInv'
  <2>1. /\ pc'[q] \notin ExportSteps
        /\ pc'[q] \in {"idle", "done"} => job'[q] = NoJob
        /\ \A p \in Requests \ {q} : pc'[p] = pc[p] /\ job'[p] = job[p]
    BY <1>1, <1>6, Elsewhere
  <2>2. ExportOK(q)' BY <2>1 DEF ExportOK, ExportSteps
  <2>3. QED BY <1>3, <2>1, <2>2
<1>7. CASE UNCHANGED <<pc, job>>
  <2>1. \A q \in Requests : ExportOK(q)' BY <1>1, <1>2, <1>7, ExportFrame
  <2>2. QED BY <1>2, <1>7, <2>1 DEF ExportInv
<1>8. CASE UNCHANGED vars BY <1>7, <1>8 DEF vars
<1>9. ASSUME NEW id \in Requests, IndexRow(id) PROVE ExportInv' BY <1>7, <1>9 DEF IndexRow
<1>10. QED BY <1>4, <1>5, <1>6, <1>8, <1>9 DEF Next

LEMMA ExportAlways == Spec => []ExportInv
<1>1. DeskInv /\ ExportInv /\ [Next]_vars => ExportInv' BY ExportStep DEF DeskInv
<1>2. QED BY <1>1, ExportInit, InvAlways, PTL DEF Spec

(* The types of the tables and of every request's job (stores/             *)
(* request_backlog.py's rows; the forms, edits and lists of channels/).    *)
THEOREM TypesAlwaysHold == Spec => []TypeOK
<1>1. DeskInv /\ ExportInv => TypeOK
  <2> SUFFICES ASSUME DeskInv, ExportInv PROVE TypeOK OBVIOUS
  <2>1. TablesOK /\ JobsOK /\ CreatedInv BY DEF DeskInv, Typed, ExportInv
  <2>2. index \subseteq Requests BY <2>1 DEF CreatedInv, Stored
  <2>3. ASSUME NEW q \in Requests
        PROVE  job[q] \in IF pc[q] \in FilingSteps THEN Filing
                          ELSE IF pc[q] \in EditSteps THEN Edit
                          ELSE IF pc[q] \in ExportSteps THEN Export ELSE {NoJob}
    <3>1. pc[q] \in FilingSteps => job[q] \in Filing BY <2>1 DEF JobsOK
    <3>2. pc[q] \in EditSteps => job[q] \in Edit BY <2>1 DEF JobsOK
    <3>3. pc[q] \in ExportSteps => job[q] \in Export BY DEF ExportInv, ExportOK, ListingOK
    <3>4. pc[q] \in {"idle", "done"} => job[q] = NoJob BY DEF ExportInv
    <3>5. pc[q] \in FilingSteps \cup ExportSteps \cup EditSteps \cup {"idle", "done"}
      BY <2>1 DEF JobsOK, Locations
    <3>6. QED BY <3>1, <3>2, <3>3, <3>4, <3>5
  <2>4. QED BY <2>1, <2>2, <2>3 DEF TablesOK, JobsOK, TypeOK, Locations
<1>2. QED BY <1>1, InvAlways, ExportAlways, PTL

(* A finished list or export has every row it should, each once, in order   *)
(* and of its tenant (stores/request_backlog.py, _query_issues and          *)
(* _batch_get), though rows are filed, edited and indexed meanwhile and the  *)
(* type is filtered only after a page is cut.                               *)
THEOREM ExportsAlwaysExact == Spec => []ExportIsExact
<1>1. DeskInv /\ ExportInv => ExportIsExact
  <2> SUFFICES ASSUME DeskInv, ExportInv, NEW q \in Requests, pc[q] = "exported"
               PROVE  LET j     == job[q]
                          shown == {i \in DOMAIN j.ids : j.full => j.ids[i] \in j.found}
                      IN /\ j.seen \subseteq {j.ids[i] : i \in shown}
                         /\ \A i \in shown :
                              /\ rows[j.ids[i]].customer = j.customer /\ rows[j.ids[i]].type = j.type
                              /\ Day(rows[j.ids[i]].created) \in j.from .. j.to
                         /\ \A i, k \in shown :
                              i < k => rows[j.ids[i]].created > rows[j.ids[k]].created
    BY DEF ExportIsExact
  <2>1. TablesOK /\ CreatedInv BY DEF DeskInv, Typed, ExportInv
  <2>2. /\ ListingOK(job[q]) /\ job[q].seen \subseteq ItemsOf(job[q].ids)
        /\ job[q].full => ItemsOf(job[q].ids) \subseteq job[q].found
    BY DEF ExportInv, ExportOK, ExportSteps
  <2>3. PICK j \in Export : j = job[q] BY <2>2 DEF ListingOK
  <2> DEFINE shown == {i \in DOMAIN j.ids : j.full => j.ids[i] \in j.found}
  <2>4. DOMAIN j.ids = 1 .. Len(j.ids) BY DEF Export
  <2>5. shown = 1 .. Len(j.ids) BY <2>2, <2>3, <2>4 DEF ItemsOf
  <2>6. \A i \in shown : /\ rows[j.ids[i]].customer = j.customer /\ rows[j.ids[i]].type = j.type
                         /\ Day(rows[j.ids[i]].created) \in j.from .. j.to
    <3> SUFFICES ASSUME NEW i \in shown
                 PROVE  /\ rows[j.ids[i]].customer = j.customer /\ rows[j.ids[i]].type = j.type
                        /\ Day(rows[j.ids[i]].created) \in j.from .. j.to
      OBVIOUS
    <3> DEFINE id == j.ids[i]
    <3>1. id \in Hits(j) BY <2>2, <2>3, <2>5 DEF ListingOK, ItemsOf
    <3> HIDE DEF id
    <3>2. id \in Stored /\ Listed(id, j) BY <2>1, <3>1 DEF Hits, CreatedInv
    <3>3. rows[id].created \in Nat /\ InDays(rows[id].created, j)
      BY <2>1, <3>2, SomeStored DEF Listed, Wanted
    <3>4. Day(rows[id].created) \in j.from .. j.to BY <3>3, DayFacts
    <3>5. QED BY <3>2, <3>4 DEF Listed, Wanted, id
  <2>7. \A i, k \in shown : i < k => rows[j.ids[i]].created > rows[j.ids[k]].created
    BY <2>2, <2>3, <2>5 DEF ListingOK, NewestFirst
  <2>8. j.seen \subseteq {j.ids[i] : i \in shown} BY <2>2, <2>3, <2>5 DEF ItemsOf
  <2> HIDE DEF shown
  <2>9. QED BY <2>3, <2>6, <2>7, <2>8 DEF shown
<1>2. QED BY <1>1, InvAlways, ExportAlways, PTL

=============================================================================
