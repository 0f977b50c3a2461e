------------------------- MODULE IssueVerification -------------------------
(***************************************************************************)
(* Collecting the evidence of one bug (agents/issue_verification.py), over *)
(* the turns the coordinator gives it: the documentation check, the slots  *)
(* the model reads, the guard that files answers and filters questions,    *)
(* the cap, and the ticket.  The language model is any value its schema    *)
(* admits, or nothing.  A turn works on a copy of the verify context that  *)
(* is stored with the session when the turn ends, and lost when it fails.  *)
(***************************************************************************)
EXTENDS Naturals

CONSTANTS
  Slots,            \* the facts a bug ticket names
  Required,         \* those it needs
  MaxVerifyTurns,   \* turns one collection may take
  MaxFailures       \* turns that may stop half-way

ASSUME SlotAssumptions ==
  /\ Required \subseteq Slots
  /\ MaxVerifyTurns \in Nat \ {0}
  /\ MaxFailures \in Nat

VARIABLES
  flow,       \* "open", or how the collection ended
  stored,     \* the verify context in the session
  turns,      \* verify_turns in the session
  pc,         \* where the turn is, "idle" between turns
  work,       \* the turn's copy of the context
  words,      \* whether the user's message has words in it
  verdict,    \* what the turn came to
  ticket,     \* what each ticket names
  asked,      \* asked[s]: replies the user got in which the guard let s be asked
  unseen,     \* slots asked in a reply that a failing turn saved and never sent
  wordless,   \* slots whose question was answered with a picture only
  failures

turnVars == <<pc, work, words, verdict>>
history  == <<asked, unseen, wordless>>
vars == <<flow, stored, turns, turnVars, ticket, history, failures>>

-----------------------------------------------------------------------------
(* The context.  A slot is empty, holds what the model read, or holds the  *)
(* user's message as written.                                              *)

SlotValues == {"empty", "read", "as_written"}

VerifyContext ==
  [ slots      : [Slots -> SlotValues],
    askedLast  : SUBSET Slots,
    askCounts  : [Slots -> Nat],
    docChecked : BOOLEAN ]

NewContext ==
  [ slots      |-> [s \in Slots |-> "empty"],
    askedLast  |-> {},
    askCounts  |-> [s \in Slots |-> 0],
    docChecked |-> FALSE ]

Known(context)   == {s \in Slots : context.slots[s] # "empty"}
Missing(context) == Required \ Known(context)
Untried(context) == {s \in Slots : context.askCounts[s] = 0}

Endings  == {"filed", "explained", "dropped"}
(* "promoted" and "cap": the guard, or the router, filed without a         *)
(* confirmation of the model's; "unreadable": the decision was not parsed. *)
Verdicts == {"none", "need_more_info", "unreadable", "user_error",
             "bug_confirmed", "promoted", "cap"}
Locations == {"idle", "doc_check", "decide", "report", "file", "save", "reply"}

TypeOK ==
  /\ flow \in {"open"} \cup Endings
  /\ stored \in VerifyContext
  /\ turns \in 0 .. MaxVerifyTurns
  /\ pc \in Locations
  /\ work \in VerifyContext
  /\ words \in BOOLEAN
  /\ verdict \in Verdicts
  /\ ticket \subseteq SUBSET Slots
  /\ asked \in [Slots -> Nat]
  /\ unseen \subseteq Slots
  /\ wordless \subseteq Slots
  /\ failures \in 0 .. MaxFailures

Init ==
  /\ flow = "open"
  /\ stored = NewContext
  /\ turns = 0
  /\ pc = "idle"
  /\ work = NewContext
  /\ words = FALSE
  /\ verdict = "none"
  /\ ticket = {}
  /\ asked = [s \in Slots |-> 0]
  /\ unseen = {}
  /\ wordless = {}
  /\ failures = 0

Goto(location) == pc' = location

(* What a turn held in memory is gone with it.                             *)
Idle == pc' = "idle" /\ work' = NewContext /\ words' = FALSE /\ verdict' = "none"

-----------------------------------------------------------------------------
(* The rules of the guard.                                                 *)

\* Mutant: an empty slot of the model's reading blanks what was known.
MergeOverwrites(context, read) ==
  [context EXCEPT !.slots = [s \in Slots |-> IF s \in read THEN "read" ELSE "empty"]]

Merge(context, read) ==
  [context EXCEPT !.slots = [s \in Slots |-> IF s \in read THEN "read" ELSE context.slots[s]]]

\* Mutant: the answer is only filed when one question was asked.
FillAnsweredSingle(context, hasWords) ==
  IF hasWords /\ \E s \in Slots : context.askedLast = {s}
  THEN [context EXCEPT !.slots =
         [s \in Slots |-> IF s \in context.askedLast \ Known(context) THEN "as_written"
                                                              ELSE context.slots[s]]]
  ELSE context

(* The message answers what the last reply asked: whatever of it is still  *)
(* empty is filed as written, unless the message is a picture only.        *)
FillAnswered(context, hasWords) ==
  IF hasWords
  THEN [context EXCEPT !.slots =
         [s \in Slots |-> IF s \in context.askedLast \ Known(context) THEN "as_written"
                                                              ELSE context.slots[s]]]
  ELSE context

\* Mutant: only what is known is filtered from the questions.
MayAskAgain(context, askFor) == askFor \ Known(context)

(* Of what the model wants to ask, what is neither known nor asked before. *)
MayAsk(context, askFor) == (askFor \ Known(context)) \cap Untried(context)

(* Nothing is left to wait for: all that is required is known, or all the  *)
(* model wanted was filtered and what is missing was asked for before.     *)
GivesUp(context, askFor) ==
  \/ Missing(context) = {}
  \/ /\ askFor # {} /\ MayAsk(context, askFor) = {}
     /\ Missing(context) \cap Untried(context) = {}

(* The questions of the reply.  Of the missing slots never asked the code  *)
(* takes the first; which one it is makes no difference here.              *)
Questions(context, askFor) ==
  IF GivesUp(context, askFor) THEN {{}}
  ELSE IF askFor # {} /\ MayAsk(context, askFor) = {}
       THEN {{s} : s \in Missing(context) \cap Untried(context)}
       ELSE {MayAsk(context, askFor)}

\* Mutant: with a question, all that is missing counts as asked.
AskCountsMissing(context, question) ==
  LET counted == IF question = {} THEN {} ELSE Missing(context) IN
  [context EXCEPT !.askedLast = question,
                  !.askCounts = [s \in Slots |-> IF s \in counted THEN context.askCounts[s] + 1
                                               ELSE context.askCounts[s]]]

(* The questions are remembered: the next message answers them, and none   *)
(* of them is asked again.                                                 *)
Ask(context, question) ==
  [context EXCEPT !.askedLast = question,
                  !.askCounts = [s \in Slots |-> IF s \in question THEN context.askCounts[s] + 1
                                               ELSE context.askCounts[s]]]

-----------------------------------------------------------------------------
(* A turn.                                                                 *)

\* Mutant: the cap is one turn late.
ResumeVerificationLate ==
  /\ flow = "open" /\ pc = "idle"
  /\ work' = stored
  /\ words' \in BOOLEAN
  /\ IF turns > MaxVerifyTurns THEN verdict' = "cap" /\ Goto("file")
     ELSE verdict' = "none" /\ Goto(IF stored.docChecked THEN "decide" ELSE "doc_check")
  /\ UNCHANGED <<flow, stored, turns, ticket, history, failures>>

(* The cap is read before the verifier runs: the message of that turn is   *)
(* not read for slots.                                                     *)
ResumeVerification ==
  /\ flow = "open" /\ pc = "idle"
  /\ work' = stored
  /\ words' \in BOOLEAN
  /\ IF turns >= MaxVerifyTurns THEN verdict' = "cap" /\ Goto("file")
     ELSE verdict' = "none" /\ Goto(IF stored.docChecked THEN "decide" ELSE "doc_check")
  /\ UNCHANGED <<flow, stored, turns, ticket, history, failures>>

(* What the model makes of the guides, and of the process block that is    *)
(* always with them; "invented" is an id it was not offered.               *)
DocVerdicts == {"works_as_documented", "differs_from_docs", "not_covered"}
DocChecks   == [verdict : DocVerdicts, explained : BOOLEAN,
                cited : SUBSET {"process", "passage", "invented"}]
NoCheck     == [verdict |-> "none"]

\* A search that fails leaves the process block.
OfferedSources == {{"process"}, {"process", "passage"}}

(* Only a verdict that cites a source it was offered, with an explanation, *)
(* closes the flow.                                                        *)
Settles(check, offered) ==
  /\ check.verdict = "works_as_documented"
  /\ check.explained
  /\ check.cited \cap offered # {}

(* The guides first, once: every other answer, or none, goes on to the     *)
(* slots.                                                                  *)
DocCheck ==
  /\ pc = "doc_check"
  /\ work' = [work EXCEPT !.docChecked = TRUE]
  /\ \E check \in DocChecks \cup {NoCheck}, offered \in OfferedSources :
       IF Settles(check, offered) THEN verdict' = "user_error" /\ Goto("save")
                                  ELSE UNCHANGED verdict /\ Goto("decide")
  /\ UNCHANGED <<flow, stored, turns, words, ticket, history, failures>>

(* No decision came back: the answer is filed, and a canned reply asks     *)
(* without counting.                                                       *)
DecisionLost ==
  /\ pc = "decide"
  /\ work' = [FillAnswered(work, words) EXCEPT !.askedLast = {}]
  /\ verdict' = "unreadable"
  /\ Goto("save")
  /\ UNCHANGED <<flow, stored, turns, words, ticket, history, failures>>

(* The model needs more: the guard decides what is asked, or confirms.     *)
NeedMoreInfo ==
  /\ pc = "decide"
  /\ \E read, askFor \in SUBSET Slots :
       LET context == FillAnswered(Merge(work, read), words) IN
       /\ \E question \in Questions(context, askFor) : work' = Ask(context, question)
       /\ IF GivesUp(context, askFor)
          THEN verdict' = "promoted" /\ Goto("report")
          ELSE verdict' = "need_more_info" /\ Goto("save")
  /\ UNCHANGED <<flow, stored, turns, words, ticket, history, failures>>

(* The model's own verdicts pass through.                                  *)
Conclude ==
  /\ pc = "decide"
  /\ \E read \in SUBSET Slots :
       work' = [FillAnswered(Merge(work, read), words) EXCEPT !.askedLast = {}]
  /\ \/ verdict' = "user_error"    /\ Goto("save")
     \/ verdict' = "bug_confirmed" /\ Goto("report")
  /\ UNCHANGED <<flow, stored, turns, words, ticket, history, failures>>

(* The report is the model's or derived from the opening message; filing   *)
(* does not depend on which.                                               *)
WriteReport ==
  /\ pc = "report"
  /\ Goto("file")
  /\ UNCHANGED <<flow, stored, turns, work, words, verdict, ticket, history, failures>>

(* The ticket names every slot that is known and what is still missing.    *)
FileTicket ==
  /\ pc = "file"
  /\ ticket' = ticket \cup {Known(work)}
  /\ Goto("save")
  /\ UNCHANGED <<flow, stored, turns, work, words, verdict, history, failures>>

\* Mutant: a turn whose decision was lost does not count.
SaveCollectionUncounted ==
  /\ pc = "save" /\ verdict \in {"need_more_info", "unreadable"}
  /\ stored' = work
  /\ turns' = IF verdict = "unreadable" THEN turns ELSE turns + 1
  /\ Goto("reply")
  /\ wordless' = IF words THEN wordless ELSE wordless \cup stored.askedLast
  /\ UNCHANGED <<flow, work, words, verdict, ticket, asked, unseen, failures>>

(* The session is saved, with the whole context and the turn counted ...   *)
SaveCollection ==
  /\ pc = "save" /\ verdict \in {"need_more_info", "unreadable"}
  /\ stored' = work
  /\ turns' = turns + 1
  /\ Goto("reply")
  /\ wordless' = IF words THEN wordless ELSE wordless \cup stored.askedLast
  /\ UNCHANGED <<flow, work, words, verdict, ticket, asked, unseen, failures>>

(* ... then the reply goes out.                                            *)
Reply ==
  /\ pc = "reply"
  /\ asked' = [s \in Slots |-> IF s \in work.askedLast THEN asked[s] + 1 ELSE asked[s]]
  /\ Idle
  /\ UNCHANGED <<flow, stored, turns, ticket, unseen, wordless, failures>>

CloseCollection(ending) ==
  /\ flow' = ending
  /\ stored' = NewContext
  /\ turns' = 0
  /\ Idle
  /\ UNCHANGED <<ticket, history, failures>>

(* A verdict that ends the flow: the session no longer knows it.           *)
SaveClosed ==
  /\ pc = "save"
  /\ \/ verdict = "user_error" /\ CloseCollection("explained")
     \/ verdict \in {"bug_confirmed", "promoted", "cap"} /\ CloseCollection("filed")

(* The user walks away from a flow the session holds, or its TTL runs out. *)
DropFlow ==
  /\ flow = "open" /\ pc = "idle" /\ turns > 0
  /\ CloseCollection("dropped")

(* A call that is awaited raises, or the process dies: a session that was  *)
(* saved keeps the question of a reply nobody got.                         *)
Fail ==
  /\ pc # "idle" /\ failures < MaxFailures
  /\ failures' = failures + 1
  /\ unseen' = IF pc = "reply" THEN unseen \cup work.askedLast ELSE unseen
  /\ Idle
  /\ UNCHANGED <<flow, stored, turns, ticket, asked, wordless>>

TurnStep ==
  \/ DocCheck \/ DecisionLost \/ NeedMoreInfo \/ Conclude
  \/ WriteReport \/ FileTicket \/ SaveCollection \/ Reply \/ SaveClosed

Next == ResumeVerification \/ TurnStep \/ DropFlow \/ Fail

Spec == Init /\ [][Next]_vars

(* Turns that started run on, and the user goes on answering.              *)
PatientSpec == Spec /\ WF_vars(TurnStep) /\ WF_vars(ResumeVerification)

-----------------------------------------------------------------------------

(* The guard lets a slot be asked once: over all the replies the user got, *)
(* through lost decisions, turns that failed and answers never read.       *)
GuardAsksOnce == \A s \in Slots : asked[s] <= 1

(* A question is an open one when it is saved: it is not about a slot the  *)
(* context already holds, the one just filed from this message included,   *)
(* and the guides were consulted before it.                                *)
QuestionsAreOpen ==
  /\ stored.askedLast \cap Known(stored) = {}
  /\ \A s \in Slots : stored.askCounts[s] > 0 => stored.docChecked

(* An answer is never lost: once the verifier is through with a message    *)
(* that has words in it, every slot the reply before it asked for is       *)
(* filled, by the model or with the words, whatever was decided.           *)
AnswersAreFiled ==
  pc \in {"report", "file", "save"} /\ words /\ verdict # "cap"
    => stored.askedLast \subseteq Known(work)

(* A report the guard files on its own lacks a required fact only when the *)
(* user was asked for it, in a reply he got or in one that was lost after  *)
(* the session was saved, and then answered with a picture only.           *)
GivenUpFactsWereAsked ==
  verdict = "promoted" =>
    \A s \in Missing(work) :
      /\ asked[s] > 0 \/ s \in unseen
      /\ s \in wordless \/ (~ words /\ s \in stored.askedLast)

(* A user who goes on answering is not questioned for ever, and not        *)
(* because the model decides to stop.                                      *)
EveryCollectionEnds == <>(flow # "open")

(* The collection keeps what EvidenceCollection promises.                  *)
Promise == INSTANCE EvidenceCollection WITH
  Facts   <- Slots,
  Budget  <- MaxVerifyTurns,
  verdict <- flow,
  known   <- Known(stored),
  left    <- IF flow = "open" THEN MaxVerifyTurns - turns ELSE 0,
  ticket  <- ticket

KeepsItsPromise == Promise!Spec
=============================================================================
