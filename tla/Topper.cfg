SPECIFICATION Spec
CONSTANTS
  Absent = Absent
  Placeholder = Placeholder
  Junk = Junk
  TooLarge = TooLarge
  Clients = {c1, c2}
  MaxSent = 1
  NULL = NULL
  MaxLimit = 3
  DefaultLimit = 3
  MaxInValues = 2
  Sentinel = 2
  Requests <- MCRequests
  Keys <- MCKeys
  CatalogSpec <- MCCatalogSpec
  Schema <- MCSchema
  Created <- MCCreated
  WriteTables <- MCWriteTables
  Public <- MCPublic
  Contents <- MCContents
  Defaults <- MCDefaults
  Valid <- MCValid
  Like <- MCLike
CHECK_DEADLOCK FALSE
INVARIANTS AnswersHideDenied PagesAreStable RowsMergeInCommitOrder LoadFailsOnlyForConfig
PROPERTIES AnswersShowWhatIsStored  SignalledProcessEnds
