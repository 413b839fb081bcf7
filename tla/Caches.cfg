SPECIFICATION Spec
CONSTANTS
  Calls = 3
  Limits = {1, 2}
  MaxBody = 2
  MaxRequests = 2
  Services <- MCServices
  Files = {"page", "logo"}
  Directories = {"dir", "odd"}
  Unsafe = {"malformed", "hidden", "outside"}
  IndexOf <- MCIndexOf
  SizesOf <- MCSizesOf
  SmallLimit = 2
  CacheLimit = 1
  MaxWrites = 3
  MaxCallers = 3
  Options = {"plain", "spelled out", "other"}
  KeyOf <- MCKeyOf
  MaxClears = 1
INVARIANTS
  BodyExplained FileAnswerRight CertificateShared
PROPERTY BodySettles
CHECK_DEADLOCK FALSE
