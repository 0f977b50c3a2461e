------------------------------ MODULE ReplyText ------------------------------
(***************************************************************************)
(* What is done to the text of a reply after a model wrote it:             *)
(* doc_images.py, agents/guardrail.py and the markers of                   *)
(* agents/knowledge.py.  A text is a sequence of tokens: a span of prose,  *)
(* an image marker, or a control marker left in the prose.  Whitespace is  *)
(* left out.                                                               *)
(***************************************************************************)
EXTENDS Picks, SequencesExt

CONSTANTS
  Spans,
  Phrases,        \* the spans that may be deleted: short, not a sentence
  TrimOf,         \* a span with some of its words left out, or itself
  Markers,        \* well-formed image markers
  FileOf,         \* the file each names
  Screens,        \* those that are screenshots, not icons
  MaxImages,      \* images a reply shows
  HedgeLength     \* a longer reply is an answer whatever its status says

Controls == {"[[no_answer]]", "[[suspected_bug]]", "[[clarify]]"}

Tokens == Spans \cup Markers \cup Controls

ASSUME ReplyConstants ==
  /\ MaxImages \in Nat /\ HedgeLength \in Nat
  /\ Spans \cap Markers = {}
  /\ TrimOf \in [Spans -> Spans]

Prose(text)    == Only(text, Spans)
ImagesIn(text) == Only(text, Markers)
Scrub(text)    == Without(text, Controls)
Strip(text)    == Without(text, Markers)

\* A marker left standing stands for its link.
PresignMarkers(text, signed) == Without(text, Markers \ signed)

IsLong(text) == Len(Prose(text)) > HedgeLength

-----------------------------------------------------------------------------
(* select: offered images only, each once, screenshots before icons when   *)
(* there are too many.                                                     *)

FirstAt(text, k) == CHOOSE i \in DOMAIN text : text[i] = k /\ \A j \in 1 .. i - 1 : text[j] # k

Ahead(text, m, n) ==
  \/ m \in Screens /\ n \notin Screens
  \/ (m \in Screens <=> n \in Screens) /\ FirstAt(text, m) < FirstAt(text, n)

KeptImages(text, files) ==
  LET pool == {m \in ToSet(text) \cap Markers : FileOf[m] \in files}
  IN {m \in pool : Cardinality({n \in pool : Ahead(text, n, m)}) < MaxImages}

\* Mutant: any well-formed marker is offered.
SelectImagesUnchecked(text, files) ==
  Picked(text, {i \in DOMAIN text : text[i] \in Markers => FirstAt(text, text[i]) = i})

SelectImages(text, files) ==
  LET kept == KeptImages(text, files)
  IN Picked(text, {i \in DOMAIN text :
                     text[i] \in Markers => text[i] \in kept /\ FirstAt(text, text[i]) = i})

-----------------------------------------------------------------------------
(* The status of a composed reply.                                         *)

\* parse_markers, for a reply without a schema: a bug first, a hedge last.
ParsedStatus(text) ==
  CASE Contains(text, "[[suspected_bug]]") -> "suspected_bug"
    [] ~Contains(text, "[[suspected_bug]]") /\ Contains(text, "[[clarify]]") -> "clarify"
    [] ~Contains(text, "[[suspected_bug]]") /\ ~Contains(text, "[[clarify]]") ->
         IF Contains(text, "[[no_answer]]") /\ ~IsLong(text) THEN "no_answer" ELSE "answer"

\* _resolve_status: a long reply that says it is none is a hedge.
ResolvedStatus(status, text) ==
  IF status = "no_answer" /\ IsLong(text) THEN "answer" ELSE status

-----------------------------------------------------------------------------
(* apply_claims: the claims a judge named, edited away in Python.          *)

OnlyMinor(claims) == claims # <<>> /\ \A i \in DOMAIN claims : claims[i].severity = "minor"

\* An edit leaves words out, never adds any; an empty replacement deletes.
Editable(claim) ==
  IF claim.replacement = "" THEN claim.span \in Phrases \cup Markers
  ELSE claim.span \in Spans /\ claim.replacement = TrimOf[claim.span] /\ claim.replacement # claim.span

FoundOnce(text, span) == Cardinality({i \in DOMAIN text : text[i] = span}) = 1

Edit(text, claim) ==
  LET i == FirstAt(text, claim.span)
  IN IF claim.replacement = "" THEN RemoveAt(text, i) ELSE ReplaceAt(text, i, claim.replacement)

\* {} once an edit is refused: all claims are applied, or none.
EditAll(reply, claims) ==
  LET texts[n \in 0 .. Len(claims)] ==
        IF n = 0 THEN {reply}
        ELSE {Edit(text, claims[n]) :
                text \in {x \in texts[n - 1] : Editable(claims[n]) /\ FoundOnce(x, claims[n].span)}}
  IN texts[Len(claims)]

\* The images stay, and so does some prose.
AppliedClaims(reply, claims) ==
  {text \in EditAll(reply, claims) :
     OnlyMinor(claims) /\ ImagesIn(text) = ImagesIn(reply) /\ Prose(text) # <<>>}
=============================================================================
