SPECIFICATION RelSpec
CONSTANTS
  Html <- MCHtml
  Tag <- MCTag
  VoidTags = {}
  RawTags = {}
  Attributes <- MCAttributes
  Rank <- MCRank
  Exprs <- MCExprs
  Queries = {}
  None = None
  Alias <- MCAlias
  Unbound = Unbound
  Statements <- IndexStatements
  Subqueries <- MCSubqueries
  Visits <- MCVisits
CHECK_DEADLOCK FALSE
INVARIANT JoinComputesOn
