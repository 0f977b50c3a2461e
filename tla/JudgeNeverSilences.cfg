\* As MCAnswering.cfg: whether a failing judge loses the answer.
SPECIFICATION Spec
CONSTANTS
  Chunks = {"a1", "a2", "b1", "n1", "n2"}
  DocOf <- MCDocOf
  AppOf <- MCAppOf
  NoDoc = "none"
  NoApplication = "none"
  Names = {"A", "B", "blank"}
  SlugOf <- MCSlugOf
  NoSlug = ""
  TopK = 2
  PerDoc = 1
  Overfetch = 2
  Headings <- MCHeadings
  NoSection = ""
  Spans = {"tip", "step", "other", "short tip"}
  Phrases = {"tip", "step", "short tip"}
  TrimOf <- MCTrimOf
  Markers = {"screen1", "icon2", "screenB", "invented"}
  FileOf <- MCFileOf
  Screens = {"screen1", "screenB", "invented"}
  MaxImages = 1
  HedgeLength = 1
  Files = {"a/1", "a/2", "b/1"}
  AppOfFile <- MCAppOfFile
  Refs <- MCRefs
  Replies <- MCReplies
  Declarations <- MCDeclarations
  ClaimLists <- MCClaimLists
PROPERTIES
  JudgeNeverSilences
CHECK_DEADLOCK FALSE
