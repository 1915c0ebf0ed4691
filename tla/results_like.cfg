SPECIFICATION ResultsSpec
CONSTANTS
  Html <- LikeHtml
  Tag <- MCTag
  VoidTags <- MCVoidTags
  RawTags <- MCRawTags
  Attributes <- MCAttributes
  Rank <- MCRank
  Exprs <- MCExprs
  Queries = {}
  None = None
  Nesting = 3
  InlineTags <- MCInlineTags
  EmptyTags <- MCEmptyTags
  Numerals <- MCNumerals
  Small <- MCSmall
  Keywords <- MCKeywords
  Pages <- LikePages
  Questions <- LikeQuestions
  Limits <- LikeLimits
  DefaultRows = 3
  Null = Null
CHECK_DEADLOCK FALSE
INVARIANT LikeMatches
