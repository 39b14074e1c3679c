SPECIFICATION Spec
CONSTANTS
  Branches <- MCBranches
  Names <- MCNames
  c1 = c1
  c2 = c2
  Oids = {c1, c2}
  NoOid = NoOid
  Provides <- MCProvides
  MaxOverlayRecords = 5
  BlockPackages = 2
  MaxResults = 3
INVARIANTS
  ShowsFullBuild
  ReaderAccepts
  AnswersAreExact
  CollapseIsComplete
