------------------------------ MODULE Retrieval ------------------------------
(***************************************************************************)
(* rag_client.py and applications.py: which chunks of the guides a search  *)
(* hands to the composer.  A chunk belongs to a document and to an         *)
(* application; NoDoc and NoApplication stand for a payload without one.   *)
(* Scores are abstracted to the order of the hits: a response lists the    *)
(* hits above the threshold, best first.                                   *)
(***************************************************************************)
EXTENDS Picks, SequencesExt

CONSTANTS
  Chunks,
  DocOf, AppOf,   \* the payload of each chunk
  NoDoc, NoApplication,
  Names,          \* what a caller may give for an application
  SlugOf,         \* the slug of each name, NoSlug for a blank one
  NoSlug,
  TopK, PerDoc,   \* passages asked for, and at most per document
  Overfetch       \* hits fetched per passage asked for

ASSUME RetrievalConstants ==
  /\ NoDoc \notin Chunks
  /\ TopK \in Nat \ {0} /\ PerDoc \in Nat \ {0} /\ Overfetch \in Nat \ {0}

\* A scope is a set of slugs; the empty one filters nothing, as a None does.
ToSlugs(names) == {SlugOf[n] : n \in names} \ {NoSlug}

\* _build_filter: an untagged chunk is global.
InScope(chunk, scope) == scope = {} \/ AppOf[chunk] \in scope \cup {NoApplication}

\* What Qdrant may return: any ranking of what is in scope, the index may change.
Responses(scope) ==
  {hits \in SeqOf({c \in Chunks : InScope(c, scope)}, TopK * Overfetch) : IsInjective(hits)}

IsWider(primary, fallback) ==
  /\ primary # {} /\ fallback # {}
  /\ ~(fallback \subseteq primary)

First(n, s) == SubSeq(s, 1, IF n < Len(s) THEN n ELSE Len(s))

OfDoc(hits, doc) == {i \in DOMAIN hits : DocOf[hits[i]] = doc}

\* At most PerDoc chunks of one document; those without an id count as one document.
Collapsed(hits) ==
  Picked(hits, {i \in DOMAIN hits :
                  Cardinality({j \in OfDoc(hits, DocOf[hits[i]]) : j < i}) < PerDoc})

Collapses(scope) == Cardinality(scope) # 1

\* Mutant: the best TopK hits are collapsed, instead of collapsing and then cutting.
RankedCutFirst(hits, scope) ==
  IF Collapses(scope) THEN Collapsed(First(TopK, hits)) ELSE First(TopK, hits)

Ranked(hits, scope) == First(TopK, IF Collapses(scope) THEN Collapsed(hits) ELSE hits)
=============================================================================
