---------------------- MODULE IssueVerificationProofs ----------------------
(***************************************************************************)
(* Theorems about IssueVerification, for any slots, any of them required,  *)
(* any cap and any number of failures.                                     *)
(***************************************************************************)
EXTENDS IssueVerification, TLAPS

-----------------------------------------------------------------------------
(* The inductive invariant.                                                *)

(* A slot is counted at most once, and what a reply asks for is counted.   *)
CountsFit(context) ==
  \A s \in Slots :
    /\ context.askCounts[s] <= 1
    /\ s \in context.askedLast => context.askCounts[s] = 1
    /\ context.askCounts[s] > 0 => context.docChecked

(* Which verdicts a turn may hold where it is.                             *)
VerdictFits ==
  /\ pc \in {"idle", "doc_check", "decide"} => verdict = "none"
  /\ pc = "report" => verdict \in {"bug_confirmed", "promoted"}
  /\ pc = "file" => verdict \in {"bug_confirmed", "promoted", "cap"}
  /\ pc = "save" => verdict \notin {"none"}
  /\ pc = "reply" => verdict \in {"need_more_info", "unreadable"}
  /\ pc = "save" /\ verdict \in {"bug_confirmed", "promoted", "cap"} =>
       Known(work) \in ticket
  /\ pc \notin {"idle", "reply"} /\ verdict # "cap" => turns < MaxVerifyTurns

(* The working copy against the stored one: nothing is forgotten, and what *)
(* the pending reply asks for has never been asked.                        *)
CopyFits ==
  /\ flow # "open" => pc = "idle"
  /\ pc # "idle" => /\ Known(stored) \subseteq Known(work)
                    /\ \A s \in Slots : stored.askCounts[s] <= work.askCounts[s]
  /\ pc = "doc_check" => ~ stored.docChecked
  /\ pc \in {"doc_check", "decide"} =>
       work.askCounts = stored.askCounts /\ work.askedLast = stored.askedLast
  /\ pc = "decide" => work.docChecked
  /\ pc = "reply" => work = stored
  /\ verdict \in {"need_more_info", "unreadable"} =>
       /\ work.askedLast \cap Known(work) = {}
       /\ \A s \in work.askedLast : asked[s] = 0
       /\ \A s \in Slots : work.askCounts[s] > 0 =>
                             stored.askCounts[s] > 0 \/ s \in work.askedLast

(* What the user saw is counted in the session.                            *)
AskedFits ==
  /\ \A s \in Slots : asked[s] <= 1
  /\ flow = "open" => \A s \in Slots : asked[s] <= stored.askCounts[s]

(* What became of each question the session counts: the user got it, will  *)
(* get it now, or never will; and it was answered, is open, or was answered *)
(* with a picture only.                                                    *)
Reached(s)  == asked[s] > 0 \/ s \in unseen \/ (pc = "reply" /\ s \in work.askedLast)
Answered(s) == s \in Known(stored) \/ s \in stored.askedLast \/ s \in wordless
QuestionsFit ==
  flow = "open" =>
    \A s \in Slots : stored.askCounts[s] > 0 => Reached(s) /\ Answered(s)

CollectionInv ==
  /\ TypeOK
  /\ CountsFit(stored) /\ CountsFit(work)
  /\ VerdictFits
  /\ CopyFits
  /\ AskedFits
  /\ QuestionsFit
  /\ QuestionsAreOpen
  /\ AnswersAreFiled
  /\ GivenUpFactsWereAsked

-----------------------------------------------------------------------------
(* The operators on a context.                                             *)

(* Merging a reading and filing an answer only ever add to what is known,  *)
(* and touch nothing but the slots.                                        *)
LEMMA ReadingKeepsSlots ==
  ASSUME NEW context \in VerifyContext, NEW read \in SUBSET Slots, NEW hasWords \in BOOLEAN,
         NEW next, next = FillAnswered(Merge(context, read), hasWords)
  PROVE  /\ next \in VerifyContext
         /\ Known(context) \subseteq Known(next)
         /\ next.askedLast = context.askedLast
         /\ next.askCounts = context.askCounts
         /\ next.docChecked = context.docChecked
         /\ hasWords => context.askedLast \subseteq Known(next)
<1> DEFINE merged == Merge(context, read)
<1>1. /\ merged \in VerifyContext
      /\ merged.askedLast = context.askedLast
      /\ merged.askCounts = context.askCounts
      /\ merged.docChecked = context.docChecked
      /\ merged.slots = [s \in Slots |-> IF s \in read THEN "read" ELSE context.slots[s]]
  BY DEF Merge, VerifyContext, SlotValues
<1>2. Known(context) \subseteq Known(merged)
  BY <1>1 DEF Known
<1> HIDE DEF merged
<1>3. CASE ~ hasWords
  BY <1>1, <1>2, <1>3 DEF FillAnswered, merged
<1>4. CASE hasWords
  <2>1. next = [merged EXCEPT !.slots =
          [s \in Slots |-> IF s \in merged.askedLast \ Known(merged) THEN "as_written"
                                                              ELSE merged.slots[s]]]
    BY <1>4 DEF FillAnswered, merged
  <2>2. /\ next \in VerifyContext
        /\ next.askedLast = merged.askedLast
        /\ next.askCounts = merged.askCounts
        /\ next.docChecked = merged.docChecked
        /\ next.slots = [s \in Slots |-> IF s \in merged.askedLast \ Known(merged)
                                         THEN "as_written" ELSE merged.slots[s]]
    <3>1. [s \in Slots |-> IF s \in merged.askedLast \ Known(merged)
                           THEN "as_written" ELSE merged.slots[s]] \in [Slots -> SlotValues]
      BY <1>1 DEF VerifyContext, SlotValues
    <3>2. QED BY <1>1, <2>1, <3>1 DEF VerifyContext
  <2>3. Known(merged) \subseteq Known(next)
    BY <2>2 DEF Known
  <2>4. merged.askedLast \subseteq Known(next)
    <3> SUFFICES ASSUME NEW s \in merged.askedLast PROVE s \in Known(next)
      OBVIOUS
    <3>1. s \in Slots BY <1>1 DEF VerifyContext
    <3>2. CASE s \in Known(merged) BY <2>3, <3>2
    <3>3. CASE s \notin Known(merged) BY <2>2, <3>1, <3>3 DEF Known
    <3>4. QED BY <3>2, <3>3
  <2>5. QED BY <1>1, <1>2, <2>2, <2>3, <2>4
<1>5. QED BY <1>3, <1>4

LEMMA FilingKeepsSlots ==
  ASSUME NEW context \in VerifyContext, NEW hasWords \in BOOLEAN,
         NEW next, next = FillAnswered(context, hasWords)
  PROVE  /\ next \in VerifyContext
         /\ Known(context) \subseteq Known(next)
         /\ next.askedLast = context.askedLast
         /\ next.askCounts = context.askCounts
         /\ next.docChecked = context.docChecked
         /\ hasWords => context.askedLast \subseteq Known(next)
<1>1. Merge(context, {}) = context
  BY DEF Merge, VerifyContext
<1>2. QED BY <1>1, ReadingKeepsSlots

(* The guard only asks for slots that are unknown and were never asked,    *)
(* and when it gives up it asks nothing.                                   *)
LEMMA QuestionsAreNew ==
  ASSUME NEW context \in VerifyContext, NEW askFor \in SUBSET Slots,
         NEW question \in Questions(context, askFor)
  PROVE  /\ question \subseteq Slots
         /\ question \cap Known(context) = {}
         /\ \A s \in question : context.askCounts[s] = 0
         /\ GivesUp(context, askFor) => question = {}
  BY DEF Questions, Missing, Known, Untried, MayAsk, SlotAssumptions

LEMMA AskCounts ==
  ASSUME NEW context \in VerifyContext, NEW question \in SUBSET Slots,
         NEW next, next = Ask(context, question)
  PROVE  /\ next \in VerifyContext
         /\ next.slots = context.slots
         /\ Known(next) = Known(context)
         /\ next.askedLast = question
         /\ next.docChecked = context.docChecked
         /\ \A s \in Slots : next.askCounts[s] =
               IF s \in question THEN context.askCounts[s] + 1 ELSE context.askCounts[s]
<1>1. \A s \in Slots : context.askCounts[s] \in Nat BY DEF VerifyContext
<1>2. next = [context EXCEPT !.askedLast = question,
        !.askCounts = [s \in Slots |-> IF s \in question THEN context.askCounts[s] + 1
                                                         ELSE context.askCounts[s]]]
  BY DEF Ask
<1>3. [s \in Slots |-> IF s \in question THEN context.askCounts[s] + 1
                                         ELSE context.askCounts[s]] \in [Slots -> Nat]
  BY <1>1
<1>4. QED BY <1>2, <1>3 DEF VerifyContext, Known

LEMMA NewContextFits == NewContext \in VerifyContext /\ CountsFit(NewContext)
                          /\ Known(NewContext) = {} /\ NewContext.askedLast = {}
  BY DEF NewContext, VerifyContext, SlotValues, CountsFit, Known

-----------------------------------------------------------------------------
(* Type correctness.                                                       *)

(* The turn counter stays in range only because the cap is read first.     *)
LEMMA NextKeepsTypes == TypeOK /\ VerdictFits /\ [Next]_vars => TypeOK'
<1> SUFFICES ASSUME TypeOK, VerdictFits, [Next]_vars PROVE TypeOK'
  OBVIOUS
<1> USE DEF TypeOK, Locations, Verdicts, Endings, Goto, history
<1>1. CASE ResumeVerification BY <1>1 DEF ResumeVerification
<1>2. CASE DocCheck
  <2>1. work' \in VerifyContext BY <1>2 DEF DocCheck, VerifyContext
  <2>2. QED BY <1>2, <2>1 DEF DocCheck
<1>3. CASE DecisionLost
  <2>1. FillAnswered(work, words) \in VerifyContext BY FilingKeepsSlots
  <2>2. work' \in VerifyContext BY <1>3, <2>1 DEF DecisionLost, VerifyContext
  <2>3. QED BY <1>3, <2>2 DEF DecisionLost
<1>4. CASE NeedMoreInfo
  <2>1. PICK read \in SUBSET Slots, askFor \in SUBSET Slots :
          LET context == FillAnswered(Merge(work, read), words) IN
          \E question \in Questions(context, askFor) : work' = Ask(context, question)
    BY <1>4 DEF NeedMoreInfo
  <2> DEFINE context == FillAnswered(Merge(work, read), words)
  <2>2. context \in VerifyContext BY ReadingKeepsSlots
  <2>3. PICK question \in Questions(context, askFor) : work' = Ask(context, question)
    BY <2>1
  <2> HIDE DEF context
  <2>4. question \in SUBSET Slots BY <2>2, QuestionsAreNew
  <2>5. work' \in VerifyContext BY <2>2, <2>3, <2>4, AskCounts
  <2>6. pc' \in Locations /\ verdict' \in Verdicts BY <1>4 DEF NeedMoreInfo
  <2>7. QED BY <1>4, <2>5, <2>6 DEF NeedMoreInfo
<1>5. CASE Conclude
  <2>1. PICK read \in SUBSET Slots :
          work' = [FillAnswered(Merge(work, read), words) EXCEPT !.askedLast = {}]
    BY <1>5 DEF Conclude
  <2>2. FillAnswered(Merge(work, read), words) \in VerifyContext BY ReadingKeepsSlots
  <2>3. work' \in VerifyContext BY <2>1, <2>2 DEF VerifyContext
  <2>4. QED BY <1>5, <2>3 DEF Conclude
<1>6. CASE WriteReport BY <1>6 DEF WriteReport
<1>7. CASE FileTicket BY <1>7 DEF FileTicket, Known
<1>8. CASE SaveCollection
  <2>1. turns < MaxVerifyTurns BY <1>8 DEF SaveCollection, VerdictFits
  <2>2. turns' \in 0 .. MaxVerifyTurns BY <1>8, <2>1, SlotAssumptions DEF SaveCollection
  <2>3. wordless' \subseteq Slots BY <1>8 DEF SaveCollection, VerifyContext
  <2>4. QED BY <1>8, <2>2, <2>3 DEF SaveCollection
<1>9. CASE Reply
  <2>1. asked' \in [Slots -> Nat] BY <1>9 DEF Reply
  <2>2. QED BY <1>9, <2>1, NewContextFits DEF Reply, Idle
<1>10. CASE SaveClosed \/ DropFlow
  <2>1. /\ stored' = NewContext /\ work' = NewContext /\ turns' = 0
        /\ flow' \in Endings /\ pc' = "idle" /\ words' = FALSE /\ verdict' = "none"
        /\ UNCHANGED <<ticket, history, failures>>
    BY <1>10 DEF SaveClosed, DropFlow, CloseCollection, Idle
  <2>2. 0 \in 0 .. MaxVerifyTurns BY SlotAssumptions
  <2>3. QED BY <2>1, <2>2, NewContextFits
<1>11. CASE Fail
  <2>1. failures' \in 0 .. MaxFailures BY <1>11, SlotAssumptions DEF Fail
  <2>2. unseen' \subseteq Slots BY <1>11 DEF Fail, VerifyContext
  <2>3. QED BY <1>11, <2>1, <2>2, NewContextFits DEF Fail, Idle
<1>12. CASE UNCHANGED vars BY <1>12 DEF vars, turnVars, history
<1>13. QED
  BY <1>1, <1>2, <1>3, <1>4, <1>5, <1>6, <1>7, <1>8, <1>9, <1>10, <1>11, <1>12
  DEF Next, TurnStep

-----------------------------------------------------------------------------
(* The invariant is inductive.                                             *)

LEMMA InitCollection == Init => CollectionInv
<1> SUFFICES ASSUME Init PROVE CollectionInv
  OBVIOUS
<1>1. TypeOK
  <2>1. 0 \in 0 .. MaxVerifyTurns /\ 0 \in 0 .. MaxFailures BY SlotAssumptions
  <2>2. asked \in [Slots -> Nat] BY DEF Init
  <2>3. QED BY <2>1, <2>2, NewContextFits DEF Init, TypeOK, Endings, Locations, Verdicts
<1>2. QED
  BY <1>1, NewContextFits, SlotAssumptions
  DEF Init, CollectionInv, VerdictFits, CopyFits, AskedFits, QuestionsAreOpen,
      AnswersAreFiled, GivenUpFactsWereAsked, QuestionsFit, Reached, Answered,
        history, NewContext

LEMMA NextKeepsCollection == CollectionInv /\ [Next]_vars => CollectionInv'
<1> SUFFICES ASSUME CollectionInv, [Next]_vars PROVE CollectionInv'
  OBVIOUS
<1> DEFINE Rest == /\ CountsFit(stored) /\ CountsFit(work)
                   /\ VerdictFits /\ CopyFits /\ AskedFits /\ QuestionsFit
                   /\ QuestionsAreOpen /\ AnswersAreFiled /\ GivenUpFactsWereAsked
<1>1. TypeOK /\ Rest BY DEF CollectionInv
<1>2. TypeOK' BY <1>1, NextKeepsTypes
<1>3. SUFFICES Rest' BY <1>2 DEF CollectionInv
<1> USE DEF Goto, history
<1>4. CASE ResumeVerification
  <2>1. /\ work' = stored /\ pc = "idle" /\ flow = "open"
        /\ UNCHANGED <<flow, stored, turns, ticket, history, failures>>
        /\ \/ turns >= MaxVerifyTurns /\ verdict' = "cap" /\ pc' = "file"
           \/ /\ ~ (turns >= MaxVerifyTurns) /\ verdict' = "none"
              /\ pc' = IF stored.docChecked THEN "decide" ELSE "doc_check"
    BY <1>4 DEF ResumeVerification
  <2>2. turns \in Nat /\ MaxVerifyTurns \in Nat /\ \A s \in Slots : stored.askCounts[s] \in Nat
    BY <1>1, SlotAssumptions DEF TypeOK, VerifyContext
  <2>3. VerdictFits' BY <2>1, <2>2 DEF VerdictFits
  <2>4. CopyFits' BY <1>1, <2>1, <2>2 DEF CopyFits, TypeOK
  <2>5. QED
    BY <1>1, <2>1, <2>3, <2>4
    DEF CountsFit, AskedFits, QuestionsAreOpen, AnswersAreFiled, GivenUpFactsWereAsked, QuestionsFit, Reached, Answered,
        history
<1>5. CASE DocCheck
  <2>1. /\ work' = [work EXCEPT !.docChecked = TRUE] /\ pc = "doc_check"
        /\ UNCHANGED <<flow, stored, turns, words, ticket, history, failures>>
        /\ \/ verdict' = "user_error" /\ pc' = "save"
           \/ verdict' = verdict /\ pc' = "decide"
    BY <1>5 DEF DocCheck
  <2>2. /\ work'.askCounts = work.askCounts /\ work'.askedLast = work.askedLast
        /\ work'.docChecked = TRUE /\ work'.slots = work.slots /\ Known(work') = Known(work)
    BY <1>1, <2>1 DEF TypeOK, VerifyContext, Known
  <2>3. stored.askedLast = {}
    <3>1. ~ stored.docChecked BY <1>1, <2>1 DEF CopyFits
    <3>2. \A s \in Slots : stored.askCounts[s] \in Nat /\ ~ (stored.askCounts[s] > 0)
      BY <1>1, <3>1 DEF CountsFit, TypeOK, VerifyContext
    <3>3. QED BY <1>1, <3>2 DEF CountsFit, TypeOK, VerifyContext
  <2>4. VerdictFits' BY <1>1, <2>1 DEF VerdictFits
  <2>5. CopyFits' BY <1>1, <2>1, <2>2 DEF CopyFits, VerdictFits
  <2>6. QED
    BY <1>1, <2>1, <2>2, <2>3, <2>4, <2>5
    DEF CountsFit, AskedFits, QuestionsAreOpen, AnswersAreFiled, GivenUpFactsWereAsked, QuestionsFit, Reached, Answered,
        history,
        VerdictFits
<1>6. CASE DecisionLost
  <2> DEFINE context == FillAnswered(work, words)
  <2>1. /\ work' = [context EXCEPT !.askedLast = {}] /\ pc = "decide"
        /\ verdict' = "unreadable" /\ pc' = "save"
        /\ UNCHANGED <<flow, stored, turns, words, ticket, history, failures>>
    BY <1>6 DEF DecisionLost
  <2>2. /\ context \in VerifyContext /\ Known(work) \subseteq Known(context)
        /\ context.askCounts = work.askCounts /\ context.docChecked = work.docChecked
        /\ words => work.askedLast \subseteq Known(context)
    BY <1>1, FilingKeepsSlots DEF TypeOK
  <2> HIDE DEF context
  <2>3. /\ work'.askCounts = work.askCounts /\ work'.askedLast = {}
        /\ work'.docChecked = work.docChecked /\ Known(work') = Known(context)
    BY <2>1, <2>2 DEF VerifyContext, Known
  <2>4. VerdictFits' BY <1>1, <2>1 DEF VerdictFits
  <2>5. CopyFits' BY <1>1, <2>1, <2>2, <2>3 DEF CopyFits
  <2>6. QED
    BY <1>1, <2>1, <2>2, <2>3, <2>4, <2>5
    DEF CountsFit, AskedFits, QuestionsAreOpen, AnswersAreFiled, GivenUpFactsWereAsked, QuestionsFit, Reached, Answered,
        history, CopyFits
<1>7. CASE NeedMoreInfo
  <2>1. PICK read \in SUBSET Slots, askFor \in SUBSET Slots :
          LET context == FillAnswered(Merge(work, read), words) IN
          /\ \E question \in Questions(context, askFor) : work' = Ask(context, question)
          /\ IF GivesUp(context, askFor)
             THEN verdict' = "promoted" /\ pc' = "report"
             ELSE verdict' = "need_more_info" /\ pc' = "save"
    BY <1>7 DEF NeedMoreInfo
  <2> DEFINE context == FillAnswered(Merge(work, read), words)
  <2>2. /\ context \in VerifyContext /\ Known(work) \subseteq Known(context)
        /\ context.askCounts = work.askCounts /\ context.docChecked = work.docChecked
        /\ words => work.askedLast \subseteq Known(context)
    BY <1>1, ReadingKeepsSlots DEF TypeOK
  <2>3. PICK question \in Questions(context, askFor) : work' = Ask(context, question)
    BY <2>1
  <2>4. IF GivesUp(context, askFor)
        THEN verdict' = "promoted" /\ pc' = "report"
        ELSE verdict' = "need_more_info" /\ pc' = "save"
    BY <2>1
  <2> HIDE DEF context
  <2>5. /\ pc = "decide" /\ UNCHANGED <<flow, stored, turns, words, ticket, history, failures>>
    BY <1>7 DEF NeedMoreInfo
  <2>6. /\ question \subseteq Slots /\ question \cap Known(context) = {}
        /\ \A s \in question : work.askCounts[s] = 0
        /\ GivesUp(context, askFor) => question = {}
    BY <2>2, QuestionsAreNew
  <2>7. /\ Known(work') = Known(context) /\ work'.askedLast = question
        /\ work'.docChecked = work.docChecked
        /\ \A s \in Slots : work'.askCounts[s] =
             IF s \in question THEN work.askCounts[s] + 1 ELSE work.askCounts[s]
    BY <2>2, <2>3, <2>6, AskCounts
  <2>8. \A s \in Slots : work.askCounts[s] \in Nat /\ stored.askCounts[s] \in Nat /\ asked[s] \in Nat
    BY <1>1 DEF TypeOK, VerifyContext
  <2>9. \A s \in question : asked[s] = 0
    <3>1. flow = "open" /\ stored.askCounts = work.askCounts BY <1>1, <2>5 DEF CopyFits
    <3>2. QED BY <1>1, <2>6, <2>8, <3>1 DEF AskedFits
  <2>10. CountsFit(work)'
    <3>1. work.docChecked BY <1>1, <2>5 DEF CopyFits
    <3>2. \A s \in Slots : s \in question => work'.askCounts[s] = 1
      BY <2>6, <2>7
    <3>3. \A s \in Slots : s \notin question => work'.askCounts[s] <= 1
      BY <1>1, <2>7 DEF CountsFit
    <3>4. QED BY <2>7, <3>1, <3>2, <3>3 DEF CountsFit
  <2>11. VerdictFits' BY <1>1, <2>4, <2>5 DEF VerdictFits
  <2>12. CopyFits'
    <3>1. \A s \in Slots : stored'.askCounts[s] <= work'.askCounts[s]
      BY <1>1, <2>5, <2>7, <2>8 DEF CopyFits
    <3>2. Known(stored') \subseteq Known(work') BY <1>1, <2>2, <2>5, <2>7 DEF CopyFits
    <3>3. flow' = "open" BY <1>1, <2>5 DEF CopyFits
    <3>4. \A s \in Slots : work'.askCounts[s] > 0 =>
                            stored'.askCounts[s] > 0 \/ s \in work'.askedLast
      BY <1>1, <2>5, <2>7, <2>8 DEF CopyFits
    <3>5. work'.askedLast \cap Known(work') = {} /\ \A s \in work'.askedLast : asked'[s] = 0
      BY <2>5, <2>6, <2>7, <2>9
    <3>6. pc' \in {"report", "save"} BY <2>4
    <3>7. QED BY <2>5, <3>1, <3>2, <3>3, <3>4, <3>5, <3>6 DEF CopyFits
  <2>13. AnswersAreFiled'
    <3>1. stored.askedLast = work.askedLast BY <1>1, <2>5 DEF CopyFits
    <3>2. QED BY <2>2, <2>5, <2>7, <3>1 DEF AnswersAreFiled
  <2>14. GivenUpFactsWereAsked'
    <3> SUFFICES ASSUME verdict' = "promoted", NEW s \in Missing(work')
                 PROVE  /\ asked'[s] > 0 \/ s \in unseen'
                        /\ s \in wordless' \/ (~ words' /\ s \in stored'.askedLast)
      BY DEF GivenUpFactsWereAsked
    <3>1. GivesUp(context, askFor) BY <2>4
    <3>2. Missing(context) \cap Untried(context) = {} BY <3>1 DEF GivesUp
    <3>3. s \in Missing(context) /\ s \in Slots BY <2>7, SlotAssumptions DEF Missing
    <3>4. s \notin Untried(context) BY <3>2, <3>3
    <3>5. context.askCounts = stored.askCounts /\ flow = "open"
      BY <1>1, <2>2, <2>5 DEF CopyFits
    <3>6. stored.askCounts[s] > 0 BY <2>8, <3>3, <3>4, <3>5 DEF Untried
    <3>7. Reached(s) /\ Answered(s) BY <1>1, <3>3, <3>5, <3>6 DEF QuestionsFit
    <3>8. s \notin Known(context) /\ s \notin Known(stored)
      BY <1>1, <2>2, <2>5, <3>3 DEF CopyFits, Missing
    <3>9. words => s \notin stored.askedLast
      BY <1>1, <2>2, <2>5, <3>8 DEF CopyFits
    <3>10. QED BY <2>5, <3>7, <3>8, <3>9 DEF Reached, Answered, history
  <2>16. QuestionsFit' BY <1>1, <2>4, <2>5 DEF QuestionsFit, Reached, Answered, history
  <2>15. QED
    BY <1>1, <2>5, <2>10, <2>11, <2>12, <2>13, <2>14, <2>16
    DEF CountsFit, AskedFits, QuestionsAreOpen, history
<1>8. CASE Conclude
  <2>1. PICK read \in SUBSET Slots :
          work' = [FillAnswered(Merge(work, read), words) EXCEPT !.askedLast = {}]
    BY <1>8 DEF Conclude
  <2> DEFINE context == FillAnswered(Merge(work, read), words)
  <2>2. /\ context \in VerifyContext /\ Known(work) \subseteq Known(context)
        /\ context.askCounts = work.askCounts /\ context.docChecked = work.docChecked
        /\ words => work.askedLast \subseteq Known(context)
    BY <1>1, ReadingKeepsSlots DEF TypeOK
  <2>3. work' = [context EXCEPT !.askedLast = {}] BY <2>1
  <2> HIDE DEF context
  <2>4. /\ work'.askCounts = work.askCounts /\ work'.askedLast = {}
        /\ work'.docChecked = work.docChecked /\ Known(work') = Known(context)
    BY <2>2, <2>3 DEF VerifyContext, Known
  <2>5. /\ pc = "decide" /\ UNCHANGED <<flow, stored, turns, words, ticket, history, failures>>
        /\ \/ verdict' = "user_error" /\ pc' = "save"
           \/ verdict' = "bug_confirmed" /\ pc' = "report"
    BY <1>8 DEF Conclude
  <2>6. VerdictFits' BY <1>1, <2>5 DEF VerdictFits
  <2>7. CopyFits' BY <1>1, <2>2, <2>4, <2>5 DEF CopyFits
  <2>8. QED
    BY <1>1, <2>2, <2>4, <2>5, <2>6, <2>7
    DEF CountsFit, AskedFits, QuestionsAreOpen, AnswersAreFiled, GivenUpFactsWereAsked, QuestionsFit, Reached, Answered,
        history, CopyFits
<1>9. CASE WriteReport
  <2>1. /\ pc = "report" /\ pc' = "file"
        /\ UNCHANGED <<flow, stored, turns, work, words, verdict, ticket, history, failures>>
    BY <1>9 DEF WriteReport
  <2>2. VerdictFits' BY <1>1, <2>1 DEF VerdictFits
  <2>3. QED
    BY <1>1, <2>1, <2>2
    DEF CountsFit, CopyFits, AskedFits, QuestionsAreOpen, AnswersAreFiled, GivenUpFactsWereAsked, QuestionsFit, Reached, Answered,
        history
<1>10. CASE FileTicket
  <2>1. /\ pc = "file" /\ pc' = "save" /\ Known(work) \in ticket'
        /\ UNCHANGED <<flow, stored, turns, work, words, verdict, history, failures>>
    BY <1>10 DEF FileTicket
  <2>2. VerdictFits' BY <1>1, <2>1 DEF VerdictFits
  <2>3. QED
    BY <1>1, <2>1, <2>2
    DEF CountsFit, CopyFits, AskedFits, QuestionsAreOpen, AnswersAreFiled, GivenUpFactsWereAsked, QuestionsFit, Reached, Answered,
        history
<1>11. CASE SaveCollection
  <2>1. /\ pc = "save" /\ verdict \in {"need_more_info", "unreadable"}
        /\ stored' = work /\ pc' = "reply"
        /\ wordless' = IF words THEN wordless ELSE wordless \cup stored.askedLast
        /\ UNCHANGED <<flow, work, words, verdict, ticket, asked, unseen, failures>>
    BY <1>11 DEF SaveCollection
  <2>2. \A s \in Slots : asked[s] \in Nat /\ work.askCounts[s] \in Nat /\ stored.askCounts[s] \in Nat
    BY <1>1 DEF TypeOK, VerifyContext
  <2>3. \A s \in Slots : asked[s] <= work.askCounts[s]
    <3>1. \A s \in Slots : asked[s] <= stored.askCounts[s] /\ stored.askCounts[s] <= work.askCounts[s]
      BY <1>1, <2>1 DEF AskedFits, CopyFits
    <3>2. QED BY <2>2, <3>1
  <2>4. VerdictFits' BY <1>1, <2>1 DEF VerdictFits
  <2>5. CopyFits' BY <1>1, <2>1, <2>2 DEF CopyFits
  <2>6. QuestionsAreOpen' BY <1>1, <2>1 DEF QuestionsAreOpen, CopyFits, CountsFit
  <2>7. QuestionsFit'
    <3> SUFFICES ASSUME flow = "open", NEW s \in Slots, work.askCounts[s] > 0
                 PROVE  Reached(s)' /\ Answered(s)'
      BY <2>1 DEF QuestionsFit
    <3>1. CASE s \in work.askedLast BY <2>1, <3>1 DEF Reached, Answered
    <3>2. CASE s \notin work.askedLast
      <4>1. stored.askCounts[s] > 0 BY <1>1, <2>1, <3>2 DEF CopyFits
      <4>2. Reached(s) /\ Answered(s) BY <1>1, <4>1 DEF QuestionsFit
      <4>3. Known(stored) \subseteq Known(work) BY <1>1, <2>1 DEF CopyFits
      <4>4. words => stored.askedLast \subseteq Known(work)
        BY <1>1, <2>1 DEF AnswersAreFiled
      <4>5. QED BY <2>1, <4>2, <4>3, <4>4 DEF Reached, Answered
    <3>3. QED BY <3>1, <3>2
  <2>8. QED
    BY <1>1, <2>1, <2>3, <2>4, <2>5, <2>6, <2>7
    DEF CountsFit, AskedFits, AnswersAreFiled, GivenUpFactsWereAsked, QuestionsFit, Reached, Answered,
        history
<1>12. CASE Reply
  <2>1. /\ pc = "reply" /\ Idle
        /\ UNCHANGED <<flow, stored, turns, ticket, unseen, wordless, failures>>
        /\ asked' = [s \in Slots |-> IF s \in work.askedLast THEN asked[s] + 1 ELSE asked[s]]
    BY <1>12 DEF Reply
  <2>2. /\ work = stored /\ flow = "open" /\ \A s \in work.askedLast : asked[s] = 0
    BY <1>1, <2>1 DEF CopyFits, VerdictFits
  <2>3. \A s \in Slots : asked'[s] <= 1 /\ asked'[s] <= stored.askCounts[s]
    <3> TAKE s \in Slots
    <3>1. CASE s \in work.askedLast
      <4>1. asked'[s] = 1 BY <2>1, <2>2, <3>1
      <4>2. stored.askCounts[s] = 1 BY <1>1, <2>2, <3>1 DEF CountsFit
      <4>3. QED BY <4>1, <4>2
    <3>2. CASE s \notin work.askedLast
      <4>1. asked'[s] = asked[s] BY <2>1, <3>2
      <4>2. QED BY <1>1, <2>2, <4>1 DEF AskedFits
    <3>3. QED BY <3>1, <3>2
  <2>4. VerdictFits' BY <2>1 DEF VerdictFits, Idle
  <2>5. CopyFits' BY <2>1 DEF CopyFits, Idle
  <2>6. QuestionsFit'
    <3> SUFFICES ASSUME NEW s \in Slots, stored.askCounts[s] > 0
                 PROVE  Reached(s)' /\ Answered(s)'
      BY <2>1 DEF QuestionsFit
    <3>1. Reached(s) /\ Answered(s) BY <1>1, <2>2 DEF QuestionsFit
    <3>2. CASE s \in work.askedLast
      <4>1. asked'[s] = 1 BY <2>1, <2>2, <3>2
      <4>2. QED BY <2>1, <3>1, <4>1 DEF Reached, Answered
    <3>3. CASE s \notin work.askedLast
      <4>1. asked'[s] = asked[s] BY <2>1, <3>3
      <4>2. QED BY <2>1, <3>1, <3>3, <4>1 DEF Reached, Answered
    <3>4. QED BY <3>2, <3>3
  <2>7. GivenUpFactsWereAsked' BY <2>1 DEF Idle, GivenUpFactsWereAsked
  <2>8. QED
    BY <1>1, <2>1, <2>3, <2>4, <2>5, <2>6, <2>7, NewContextFits
    DEF Idle, CountsFit, AskedFits, QuestionsAreOpen, AnswersAreFiled
<1>13. CASE SaveClosed \/ DropFlow
  <2>1. /\ stored' = NewContext /\ Idle /\ asked' = asked /\ flow' \in Endings
    BY <1>13 DEF SaveClosed, DropFlow, CloseCollection, Endings
  <2>2. VerdictFits' BY <2>1 DEF VerdictFits, Idle
  <2>3. CopyFits' BY <2>1 DEF CopyFits, Idle
  <2>4. AskedFits' BY <1>1, <2>1 DEF AskedFits, Endings
  <2>5. QuestionsFit' BY <2>1 DEF QuestionsFit, Endings
  <2>6. GivenUpFactsWereAsked' BY <2>1 DEF Idle, GivenUpFactsWereAsked
  <2>7. QED
    BY <1>1, <2>1, <2>2, <2>3, <2>4, <2>5, <2>6, NewContextFits
    DEF Idle, CountsFit, QuestionsAreOpen, AnswersAreFiled
<1>14. CASE Fail
  <2>1. /\ Idle /\ pc # "idle" /\ UNCHANGED <<flow, stored, turns, ticket, asked, wordless>>
        /\ unseen' = IF pc = "reply" THEN unseen \cup work.askedLast ELSE unseen
    BY <1>14 DEF Fail
  <2>2. VerdictFits' BY <2>1 DEF VerdictFits, Idle
  <2>3. CopyFits' BY <2>1 DEF CopyFits, Idle
  <2>4. QuestionsFit' BY <1>1, <2>1 DEF QuestionsFit, Reached, Answered
  <2>5. GivenUpFactsWereAsked' BY <2>1 DEF Idle, GivenUpFactsWereAsked
  <2>6. QED
    BY <1>1, <2>1, <2>2, <2>3, <2>4, <2>5, NewContextFits
    DEF Idle, CountsFit, AskedFits, QuestionsAreOpen, AnswersAreFiled
<1>15. CASE UNCHANGED vars
  BY <1>1, <1>15
  DEF vars, turnVars, VerdictFits, CountsFit, CopyFits, AskedFits, QuestionsAreOpen,
      AnswersAreFiled, GivenUpFactsWereAsked, QuestionsFit, Reached, Answered,
        history
<1>16. QED
  BY <1>4, <1>5, <1>6, <1>7, <1>8, <1>9, <1>10, <1>11, <1>12, <1>13, <1>14, <1>15
  DEF Next, TurnStep

LEMMA CollectionInvariant == Spec => []CollectionInv
<1>1. QED BY InitCollection, NextKeepsCollection, PTL DEF Spec

-----------------------------------------------------------------------------
(* The properties the runs check.                                          *)

(* Every reachable state is typed; in particular the turn counter stops at *)
(* the cap although nothing but the router's check holds it there.         *)
THEOREM CollectionTyped == Spec => []TypeOK
<1>1. CollectionInv => TypeOK BY DEF CollectionInv
<1>2. QED BY <1>1, CollectionInvariant, PTL

(* No slot is asked for twice by the guard, over the life of a collection, *)
(* whatever the model reads and wants and however often turns fail.        *)
THEOREM SlotsAreAskedOnce == Spec => []GuardAsksOnce
<1>1. CollectionInv => GuardAsksOnce BY DEF CollectionInv, AskedFits, GuardAsksOnce
<1>2. QED BY <1>1, CollectionInvariant, PTL

(* No saved question is about a slot the session holds, and none precedes  *)
(* the documentation check.                                                *)
THEOREM SavedQuestionsAreOpen == Spec => []QuestionsAreOpen
<1>1. CollectionInv => QuestionsAreOpen BY DEF CollectionInv
<1>2. QED BY <1>1, CollectionInvariant, PTL

(* What the last reply asked for is filled by the turn that answers it.    *)
THEOREM AnswersAlwaysFiled == Spec => []AnswersAreFiled
<1>1. CollectionInv => AnswersAreFiled BY DEF CollectionInv
<1>2. QED BY <1>1, CollectionInvariant, PTL

(* A report the guard files without a required fact comes after the user   *)
(* was asked for the fact, in a reply he got or in one lost after it was    *)
(* saved, and answered with a picture only.                                *)
THEOREM GivenUpFactsWereAlwaysAsked == Spec => []GivenUpFactsWereAsked
<1>1. CollectionInv => GivenUpFactsWereAsked BY DEF CollectionInv
<1>2. QED BY <1>1, CollectionInvariant, PTL

-----------------------------------------------------------------------------
(* IssueVerification implements EvidenceCollection.                        *)

LEMMA InitKeepsPromise == Init => Promise!Init
  BY NewContextFits, SlotAssumptions DEF Init, Promise!Init

LEMMA NextKeepsPromise ==
  CollectionInv /\ [Next]_vars => [Promise!Next]_(Promise!vars)
<1> SUFFICES ASSUME CollectionInv, [Next]_vars PROVE [Promise!Next]_(Promise!vars)
  OBVIOUS
<1> DEFINE left == IF flow = "open" THEN MaxVerifyTurns - turns ELSE 0
<1>1. TypeOK /\ VerdictFits /\ CopyFits BY DEF CollectionInv
<1>2. turns \in Nat /\ MaxVerifyTurns \in Nat /\ turns <= MaxVerifyTurns
  BY <1>1, SlotAssumptions DEF TypeOK
<1>3. ASSUME UNCHANGED <<flow, stored, turns, ticket>> PROVE UNCHANGED Promise!vars
  BY <1>3 DEF Promise!vars
<1>4. CASE ResumeVerification \/ DocCheck \/ DecisionLost \/ NeedMoreInfo \/ Conclude
           \/ WriteReport \/ Reply \/ Fail \/ UNCHANGED vars
  <2>1. UNCHANGED <<flow, stored, turns, ticket>>
    BY <1>4 DEF ResumeVerification, DocCheck, DecisionLost, NeedMoreInfo, Conclude,
       WriteReport, Reply, Fail, vars
  <2>2. QED BY <1>3, <2>1
<1>5. CASE SaveCollection
  <2>1. /\ pc = "save" /\ verdict \in {"need_more_info", "unreadable"}
        /\ stored' = work /\ turns' = turns + 1 /\ UNCHANGED <<flow, ticket>>
    BY <1>5 DEF SaveCollection
  <2>2. flow = "open" /\ turns < MaxVerifyTurns /\ Known(stored) \subseteq Known(work)
    BY <1>1, <2>1 DEF VerdictFits, CopyFits
  <2>3. left > 0 /\ left' = left - 1 BY <1>2, <2>1, <2>2
  <2>4. Known(stored)' \in {k \in SUBSET Slots : Known(stored) \subseteq k}
    BY <2>1, <2>2 DEF Known
  <2>5. Promise!Collect BY <2>1, <2>2, <2>3, <2>4 DEF Promise!Collect
  <2>6. QED BY <2>5 DEF Promise!Next
<1>6. CASE FileTicket
  <2>1. /\ pc = "file" /\ ticket' = ticket \cup {Known(work)} /\ UNCHANGED <<flow, stored, turns>>
    BY <1>6 DEF FileTicket
  <2>2. flow = "open" /\ Known(stored) \subseteq Known(work) BY <1>1, <2>1 DEF CopyFits
  <2>3. Known(work) \in SUBSET Slots BY DEF Known
  <2>4. \E k \in SUBSET Slots : Known(stored) \subseteq k /\ ticket' = ticket \cup {k}
    BY <2>1, <2>2, <2>3
  <2>5. Known(stored)' = Known(stored) /\ left' = left BY <2>1
  <2>6. Promise!File BY <2>1, <2>2, <2>4, <2>5 DEF Promise!File
  <2>7. QED BY <2>6 DEF Promise!Next
<1>7. CASE SaveClosed \/ DropFlow
  <2>1. /\ stored' = NewContext /\ ticket' = ticket /\ flow' \in Endings
        /\ flow' = "filed" => pc = "save" /\ verdict \in {"bug_confirmed", "promoted", "cap"}
        /\ flow' = "explained" => pc = "save" /\ verdict = "user_error"
    BY <1>7 DEF SaveClosed, DropFlow, CloseCollection, Endings
  <2>2. flow = "open" BY <1>1, <1>7 DEF SaveClosed, DropFlow, CopyFits
  <2>3. flow' = "filed" => \E k \in ticket : Known(stored) \subseteq k
    BY <1>1, <2>1 DEF VerdictFits, CopyFits
  <2>4. flow' = "explained" => left > 0
    <3> SUFFICES ASSUME flow' = "explained" PROVE left > 0
      OBVIOUS
    <3>1. turns < MaxVerifyTurns BY <1>1, <2>1 DEF VerdictFits
    <3>2. QED BY <1>2, <2>2, <3>1
  <2>5. Known(stored)' = {} /\ left' = 0 BY <2>1, NewContextFits DEF Endings
  <2>6. Promise!Close BY <2>1, <2>2, <2>3, <2>4, <2>5 DEF Promise!Close, Endings
  <2>7. QED BY <2>6 DEF Promise!Next
<1>8. QED BY <1>4, <1>5, <1>6, <1>7 DEF Next, TurnStep

(* The collection keeps its promise: nothing known is lost, the budget is  *)
(* spent turn by turn, and a flow that ends filed has a ticket that names  *)
(* all that was known.                                                     *)
THEOREM CollectionKeepsItsPromise == Spec => KeepsItsPromise
<1>1. QED
  BY InitKeepsPromise, NextKeepsPromise, CollectionInvariant, PTL
  DEF Spec, KeepsItsPromise, Promise!Spec
=============================================================================
