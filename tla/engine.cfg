SPECIFICATION Spec
CONSTANTS
  MaxPieces = 4
  MaxNested = 6
  Html <- MCHtml
  Tag <- MCTag
  VoidTags <- MCVoidTags
  RawTags <- MCRawTags
  Attributes <- MCAttributes
  Rank <- MCRank
  Exprs <- MCExprs
  Queries <- MCQueries
  None = None
CHECK_DEADLOCK FALSE
INVARIANT DocInv
INVARIANT Nested
INVARIANT MetadataInv
INVARIANT AxesInverse
INVARIANT PathsAgree
INVARIANT FirstRows
INVARIANT CountsAddUp
