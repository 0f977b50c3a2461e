------------------------------ MODULE Citations ------------------------------
(***************************************************************************)
(* citations.py: which sources an answer shows, from those the composer    *)
(* declares.  An id is the position of a passage, Process, the Q&A record  *)
(* or one that was never offered.  A declaration names an id and a         *)
(* section; headings are compared as the code normalises them.             *)
(***************************************************************************)
EXTENDS Retrieval

CONSTANTS
  Headings,   \* the headings of each chunk
  NoSection

Process == 0
QA == -1

\* The ids the composer may name: a passage without a document id is left out.
Catalog(passages, qa) ==
  {Process} \cup {i \in DOMAIN passages : DocOf[passages[i]] # NoDoc}
            \cup (IF qa THEN {QA} ELSE {})

MatchSection(section, chunk) == IF section \in Headings[chunk] THEN section ELSE NoSection

\* What the user sees of a source: its section, or the application, or neither.  A
\* heading worded as the name of an application is left out: the code takes rows that
\* read alike for one.
RowOf(declared, passages) ==
  LET chunk == passages[declared.id]
  IN [section |-> MatchSection(declared.section, chunk), application |-> AppOf[chunk]]

\* Only guides are shown, the process block and the Q&A records never.
Shown(declared, passages, qa) ==
  declared.id \in Catalog(passages, qa) \cap DOMAIN passages

\* The shown rows in the order they were declared, the first of equal ones.
SelectCitations(cited, passages, qa) ==
  LET shown == {i \in DOMAIN cited : Shown(cited[i], passages, qa)}
      row   == [i \in shown |-> RowOf(cited[i], passages)]
  IN Picked(row, {i \in shown : \A j \in shown : j < i => row[j] # row[i]})

\* passages_for: whether the answer stood on a passage, a guide's or the Q&A's.
CitesAPassage(cited, passages, qa) ==
  \E i \in DOMAIN cited : cited[i].id \in Catalog(passages, qa) \ {Process}
=============================================================================
