SPECIFICATION DeploymentSpec
CONSTANTS
  Folders = {}
  DefaultFolder = default
  Names = {a, b}
  Unnamed = unnamed
  Absent = absent
  MaxAmount = 2
  MaxPairs = 2
  PrivatePem = a
  PublicPem = b
INVARIANTS TypeOK PairFilesMatch NoForceKeepsFiles DoneMeansWritten HalvesFit
