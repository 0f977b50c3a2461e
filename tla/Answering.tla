------------------------------ MODULE Answering ------------------------------
(***************************************************************************)
(* The answer to one question, from the search to what the user is shown:  *)
(* agents/knowledge.py, agents/guardrail.py and the repair ladder of       *)
(* agents/coordinator.py.  Every call of a model or of a store is a step,  *)
(* whose result is any of those it may give, and may raise instead.  What  *)
(* an answer becomes in the turn is Coordinator's.                         *)
(***************************************************************************)
EXTENDS Citations, ReplyText

CONSTANTS
  Files,          \* the images of the guides in the bucket
  AppOfFile,
  Refs,           \* the images each chunk refers to, as markers
  Replies,        \* the texts a model may write
  Declarations,   \* what it may cite: sequences of [id, section]
  ClaimLists      \* what a judge may name: sequences of [span, replacement, severity]

ASSUME AnsweringConstants ==
  /\ Replies \subseteq Seq(Tokens)
  /\ \A list \in Declarations \cup ClaimLists : list \in Seq(ToSet(list))

\* The images of a guide are in the folder of its application.
ASSUME FilesAreScoped ==
  \A c \in Chunks :
    /\ Refs[c] \subseteq Markers /\ IsFiniteSet(Refs[c])
    /\ \A m \in Refs[c] : AppOf[c] # NoApplication /\ FileOf[m] \in Files =>
                          AppOfFile[FileOf[m]] = AppOf[c]

VARIABLES
  stage,
  scopes,     \* the scope of the search, and the wider one
  mayClarify,
  narrow,     \* the response of the search in the first scope
  hits,       \* the response of the last search
  passages,   \* what of it the composer reads
  widened,    \* whether the retry answered
  noted,      \* the applications it answered from instead of the selected ones
  files,      \* the images available to the reply
  qa,         \* whether a Q&A record was found
  result,     \* what the knowledge agent returns
  verdict,    \* the last verdict of the judge
  shown       \* what the user gets

retrieved == <<scopes, mayClarify, narrow, hits, passages, widened, noted, files, qa>>
vars == <<stage, retrieved, result, verdict, shown>>

Stages == {"contextualize", "search", "widen", "images", "qa", "compose", "judge", "repair", "recheck", "present",
           "done", "raised"}

NoScopes  == [primary |-> {}, wider |-> {}]
NoResult  == [status |-> "none", reply |-> <<>>, citations |-> <<>>, judged |-> FALSE]
NoVerdict == [of |-> <<>>, outcome |-> "none", claims |-> <<>>]

\* A first question without a picture is searched for as it is.
Init ==
  /\ stage \in {"contextualize", "search"}
  /\ \E selected, entitled \in SUBSET Names :
       scopes = [primary |-> ToSlugs(selected), wider |-> ToSlugs(entitled)]
  /\ mayClarify \in BOOLEAN
  /\ narrow = <<>> /\ hits = <<>> /\ passages = <<>> /\ widened = FALSE /\ noted = {}
  /\ files = {} /\ qa = FALSE
  /\ result = NoResult
  /\ verdict = NoVerdict
  /\ shown = <<>>

-----------------------------------------------------------------------------
(* A call of a model, unless it raises (Raise).  What may be missing is a  *)
(* sequence of at most one element.                                        *)

\* A refusal or an answer that was cut off is not parsed; the text may be missing too.
Completions(objects, texts) ==
  [parsed : {<<>>} \cup {<<o>> : o \in objects}, text : texts \cup {<<>>}]

Structured(objects) == {c.parsed : c \in Completions(objects, {})}
Written(texts)      == {c.text : c \in Completions({}, texts)}

-----------------------------------------------------------------------------
(* Retrieval: _contextualize, search_with_fallback, _with_images and       *)
(* _safe_qa_search.                                                        *)

\* A model rewrites the question with the history, or with the picture; the question
\* stands when it gives nothing.  A search may answer either with anything.
Contextualize ==
  /\ stage = "contextualize"
  /\ stage' = "search"
  /\ UNCHANGED <<retrieved, result, verdict, shown>>

Search ==
  /\ stage = "search"
  /\ \E response \in Responses(scopes.primary) :
       /\ narrow' = response /\ hits' = response
       /\ passages' = Ranked(response, scopes.primary)
  /\ stage' = IF passages' = <<>> /\ IsWider(scopes.primary, scopes.wider)
              THEN "widen" ELSE "images"
  /\ UNCHANGED <<scopes, mayClarify, widened, noted, files, qa, result, verdict, shown>>

\* Where the passages of the retry are from, for the note the composer gets.
OtherApplications(read, scope) == {AppOf[c] : c \in ToSet(read)} \ (scope \cup {NoApplication})

Widen ==
  /\ stage = "widen"
  /\ \E response \in Responses(scopes.wider) :
       /\ hits' = response
       /\ passages' = Ranked(response, scopes.wider)
  /\ widened' = TRUE
  /\ noted' = OtherApplications(passages', scopes.primary)
  /\ stage' = "images"
  /\ UNCHANGED <<scopes, mayClarify, narrow, files, qa, result, verdict, shown>>

\* The applications whose passages refer to an image; an untagged chunk has no folder.
Slugs == {AppOf[c] : c \in {d \in ToSet(passages) : Refs[d] # {}}} \ {NoApplication}

\* A listing that S3 refuses, or that lags, gives fewer files; on another error it
\* raises.  What only the search used is forgotten here.
FindImages ==
  /\ stage = "images"
  /\ files' \in SUBSET {f \in Files : AppOfFile[f] \in Slugs}
  /\ stage' = "qa"
  /\ scopes' = NoScopes
  /\ narrow' = <<>> /\ hits' = <<>>
  /\ UNCHANGED <<mayClarify, passages, widened, noted, qa, result, verdict, shown>>

\* An unavailable Q&A store is an empty one; the embedding of the query may raise.
SearchQA ==
  /\ stage = "qa"
  /\ qa' \in BOOLEAN
  /\ stage' = "compose"
  /\ widened' = FALSE /\ noted' = {}
  /\ UNCHANGED <<scopes, mayClarify, narrow, hits, passages, files, result, verdict, shown>>

-----------------------------------------------------------------------------
(* KnowledgeAgent.run, from the composed reply to its result.              *)

Statuses == {"answer", "clarify", "no_answer", "suspected_bug"}

\* The images whose markers the composer reads in a passage: a ref without a folder or a
\* file is dropped.
Rewritten(chunk) ==
  {m \in Refs[chunk] : AppOf[chunk] # NoApplication /\ FileOf[m] \in files}

Offered == UNION {Rewritten(c) : c \in ToSet(passages)}

\* It may show all it read; or make up its own.
Texts == Replies \cup {text \o SetToSeq(Offered) : text \in {r \in Replies : ImagesIn(r) = <<>>}}

ComposedAnswers == [status : Statuses, answer : Texts, cited : Declarations]

\* The structured answer, or the free text that is asked for when there is none.
Compositions ==
  UNION {IF given = <<>>
         THEN {[status |-> ParsedStatus(text), answer |-> text, cited |-> <<>>] :
                 text \in Written(Texts)}
         ELSE {given[1]} :
           given \in Structured(ComposedAnswers)}

Canned(status) == [NoResult EXCEPT !.status = status]

ResultOf(composed) ==
  LET clean  == SelectImages(Scrub(composed.answer), files)
      status == ResolvedStatus(composed.status, Scrub(composed.answer))
      sourced(as) ==
        [status |-> as, reply |-> clean,
         citations |-> SelectCitations(composed.cited, passages, qa),
         judged |-> CitesAPassage(composed.cited, passages, qa)]
  IN CASE status = "suspected_bug" -> sourced("suspected_bug")
       [] status = "clarify" /\ mayClarify -> [sourced("clarify") EXCEPT !.judged = FALSE]
       [] status = "clarify" /\ ~mayClarify -> sourced("answer")
       [] status = "answer" -> sourced("answer")
       [] status = "no_answer" /\ mayClarify -> Canned("clarify")
       [] status = "no_answer" /\ ~mayClarify -> Canned("no_answer")

\* A suspected bug goes on to the verification, whose reply replaces this one.
Compose ==
  /\ stage = "compose"
  /\ \E composed \in Compositions : result' = ResultOf(composed)
  /\ stage' = IF result'.status = "suspected_bug" THEN "done"
              ELSE IF result'.judged THEN "judge" ELSE "present"
  /\ UNCHANGED <<retrieved, verdict, shown>>

-----------------------------------------------------------------------------
(* check_output and _repair_or_escalate.                                   *)

Judgements == [grounded : {TRUE}, claims : {<<>>}] \cup [grounded : {FALSE}, claims : ClaimLists]

\* No verdict passes, as a grounded one does.
Verdicts(text) ==
  {IF given = <<>> THEN [of |-> text, outcome |-> "none", claims |-> <<>>]
   ELSE [of |-> text, outcome |-> IF given[1].grounded THEN "grounded" ELSE "ungrounded",
         claims |-> given[1].claims] : given \in Structured(Judgements)}

Passes(v) == v.outcome # "ungrounded"

HandOff ==
  /\ result' = [NoResult EXCEPT !.status = "handed_off"]
  /\ stage' = "present"

\* The first rung edits in Python, and does not ask again.
Judge ==
  /\ stage = "judge"
  /\ verdict' \in Verdicts(result.reply)
  /\ LET edited == AppliedClaims(result.reply, verdict'.claims)
     IN \/ Passes(verdict') /\ stage' = "present" /\ UNCHANGED result
        \/ ~Passes(verdict') /\ verdict'.claims = <<>> /\ HandOff
        \/ ~Passes(verdict') /\ verdict'.claims # <<>> /\ edited = {}
             /\ stage' = "repair" /\ UNCHANGED result
        \/ ~Passes(verdict') /\ stage' = "present"
             /\ \E text \in edited : result' = [result EXCEPT !.reply = text]
  /\ UNCHANGED <<retrieved, shown>>

\* The files the reply shows are all a repair may show.
RepairOf(text) == SelectImages(text, {FileOf[m] : m \in ToSet(ImagesIn(result.reply))})

\* The second rung: the model rewrites the reply, or gives nothing.
Repair ==
  /\ stage = "repair"
  /\ \E text \in Written(Replies) :
       IF RepairOf(text) = <<>> THEN HandOff
       ELSE stage' = "recheck" /\ result' = [result EXCEPT !.reply = RepairOf(text)]
  /\ UNCHANGED <<retrieved, verdict, shown>>

\* Mutant: what the judge still names after a repair ships.
RecheckOnce ==
  /\ stage = "recheck"
  /\ verdict' \in Verdicts(result.reply)
  /\ stage' = "present" /\ UNCHANGED <<result, retrieved, shown>>

\* The judge sees the repaired reply once; then a human does.
Recheck ==
  /\ stage = "recheck"
  /\ verdict' \in Verdicts(result.reply)
  /\ IF Passes(verdict') THEN stage' = "present" /\ UNCHANGED result ELSE HandOff
  /\ UNCHANGED <<retrieved, shown>>

\* Every marker becomes a link, or none is left when one cannot be signed.
Present ==
  /\ stage = "present"
  /\ shown' \in {PresignMarkers(result.reply, ToSet(ImagesIn(result.reply))), Strip(result.reply)}
  /\ stage' = "done"
  /\ UNCHANGED <<retrieved, result, verdict>>

\* A search, a listing of images or a call of a model raises, and with it the turn.
Raise ==
  /\ stage \in {"contextualize", "search", "widen", "images", "qa", "compose", "judge",
                "repair", "recheck"}
  /\ stage' = "raised"
  /\ UNCHANGED <<retrieved, result, verdict, shown>>

Next ==
  \/ Contextualize \/ Search \/ Widen \/ FindImages \/ SearchQA
  \/ Compose \/ Judge \/ Repair \/ Recheck \/ Present
  \/ Raise

Spec == Init /\ [][Next]_vars

-----------------------------------------------------------------------------
(* Correctness.                                                            *)

\* A hit is passed over only for TopK better ones, or for PerDoc better ones of its
\* own document where documents are capped; nothing out of scope is read, and the
\* wider scope only when the search in the narrow one found nothing; what the user is
\* then told to be the place is one of the customer's (_query, search_with_fallback,
\* _other_applications).
BestInScopeIsRead ==
  stage = "images" =>
    LET scope == IF widened THEN scopes.wider ELSE scopes.primary
        rank(c) == CHOOSE i \in DOMAIN hits : hits[i] = c
        better(c) == {d \in ToSet(passages) : rank(d) < rank(c)}
        ofDoc(doc) == {c \in ToSet(passages) : DocOf[c] = doc}
    IN /\ ToSet(passages) \subseteq {c \in ToSet(hits) : InScope(c, scope)}
       /\ widened => scopes.primary # {} /\ scope # {} /\ narrow = <<>>
       /\ noted \subseteq scopes.wider \ scopes.primary
       /\ \A c \in ToSet(hits) \ ToSet(passages) :
            \/ Cardinality(better(c)) = TopK
            \/ Collapses(scope) /\ Cardinality(better(c) \cap ofDoc(DocOf[c])) = PerDoc
       /\ Collapses(scope) => \A d \in {DocOf[c] : c \in Chunks} : Cardinality(ofDoc(d)) <= PerDoc

\* Every source a reply shows is a guide it was composed from, with a heading of that
\* very passage, and no two look alike; every image is a file of one of those guides,
\* none twice and not too many, also after a repair; and those the composer was offered
\* are among what it may show (rewrite_passages, select of citations and of images).
ShownIsBacked ==
  /\ IsInjective(result.citations)
  /\ \A i \in DOMAIN result.citations : \E c \in ToSet(passages) :
       /\ DocOf[c] # NoDoc
       /\ AppOf[c] = result.citations[i].application
       /\ result.citations[i].section \in Headings[c] \cup {NoSection}
  /\ LET images == ImagesIn(result.reply)
     IN /\ IsInjective(images) /\ Len(images) <= MaxImages
        /\ \A m \in ToSet(images) : FileOf[m] \in files /\ AppOfFile[FileOf[m]] \in Slugs
  /\ \A m \in Offered : FileOf[m] \in files /\ AppOfFile[FileOf[m]] \in Slugs

\* An answer that shows a source, and a handoff if it showed one, is the text the judge
\* last saw and passed, or could not judge; or what the edits of the claims it named last
\* make of that text, with nothing of what it named in it but what a later edit put back
\* (check_output, _repair_or_escalate, apply_claims).  A question to the user carries its
\* sources unjudged (knowledge.py:469); a suspected bug's reply is not shown.
SourcedAnswersAreJudged ==
  stage = "done" /\ result.status \in {"answer", "handed_off"} /\ result.citations # <<>> =>
    /\ Strip(shown) = Strip(result.reply)
    /\ \/ Passes(verdict) /\ verdict.of = result.reply
       \/ /\ ~Passes(verdict)
          /\ \E text \in AppliedClaims(verdict.of, verdict.claims) : Strip(text) = Strip(shown)
          /\ \A i \in DOMAIN verdict.claims : Contains(shown, verdict.claims[i].span) =>
               \E k \in DOMAIN verdict.claims :
                 k > i /\ verdict.claims[k].replacement = verdict.claims[i].span
          /\ Prose(shown) # <<>>

\* Violated.  guardrail.py:191 "a judge that could not answer must not be allowed to
\* silence an already-paid-for reply": a composed answer is not lost to the judge.
JudgeNeverSilences == [][stage = "judge" => stage' # "raised"]_vars
=============================================================================
