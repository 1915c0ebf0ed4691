SPECIFICATION RelSpec
CONSTANTS
  Html <- MCHtml
  Tag <- MCTag
  VoidTags = {}
  RawTags = {}
  Attributes <- MCAttributes
  Rank <- MCRank
  Exprs <- MCExprs
  Queries = {}
  None = None
  Alias <- MCAlias
  Unbound = Unbound
  Statements <- MCStatements
  Subqueries <- MCSubqueries
  Visits <- MCVisits
CHECK_DEADLOCK FALSE
INVARIANT SchemaInv
INVARIANT IndexInv
INVARIANT JoinComputesOn
INVARIANT PrefilterUnobservable
INVARIANT RuntimesAgree
PROPERTY LeftJoinKeeps
