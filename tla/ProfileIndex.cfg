CONSTANTS
  Name = {"a", "b", "m"}
  Mixed = "m"
  Rest = {1, 2}
  Unreadable = Unreadable
  Missing = Missing
  Catalogs <- MCCatalogs
  Contents <- MCContents
  Indexes <- MCIndexes
SPECIFICATION IndexSpec
INVARIANTS
  IndexIsDeployable
PROPERTIES
  ChecksAgree
