SPECIFICATION ResultsSpec
CONSTANTS
  Html <- MCHtml
  Tag <- MCTag
  VoidTags <- MCVoidTags
  RawTags <- MCRawTags
  Attributes <- MCAttributes
  Rank <- MCRank
  Exprs <- MCExprs
  Queries = {}
  None = None
  Nesting = 3
  InlineTags <- MCInlineTags
  EmptyTags <- MCEmptyTags
  Numerals <- MCNumerals
  Small <- MCSmall
  Keywords <- MCKeywords
  Pages <- MCPages
  Questions <- MCQuestions
  Limits <- MCLimits
  DefaultRows = 3
  Null = Null
CHECK_DEADLOCK FALSE
INVARIANT ScansAgree
INVARIANT TablesKeepCells
INVARIANT NormalizedNamesDistinct
INVARIANT ScalarsAgree
INVARIANT ProjectReads
INVARIANT ColumnReadsWhatWhereReads
INVARIANT FlattenMeansWhere
INVARIANT ReplyInv
