SPECIFICATION Spec
CONSTANTS
  Resource = {1, 2, 3, 4, 5}
  NameOf <- MCNameOf
  StorageOf <- MCStorageOf
  GroupOf <- MCGroupOf
  Rank <- MCRank
  BundleGroup = "bundles"
  Special = {5}
  SizeOf <- MCSizeOf
  Packed <- MCPacked
  Values = {"a", "b", "none"}
  RuleKeys = {"a", "s", "h"}
  U32 = 72
INVARIANTS
  TypeOK
  EntriesPointAtData
  HeaderFits
  BundlesTheRightOnes
CHECK_DEADLOCK FALSE
