\* Every method of authentication, with a change of the password and a
\* reconnection; 257 reads the same in both orders of bytes, 258 does not.
SPECIFICATION LoginSpec
CONSTANTS
  Offers <- MCOffers
  UamOffers <- MCUamOffers
  Masks <- MCMasks
  Requested = {0, 20, 40}
  Ids = {257, 258}
  NameLengths = {4, 5}
  LittleEndian = TRUE
  HaveLibgcrypt = TRUE
  MaxVersions = 10
  MaxUams = 10
  MaxChanges = 1
  MaxReconnects = 1
INVARIANTS
  GivesAllBack
  RequestsWellFormed
  SuccessIsTrue
PROPERTIES
  NegotiatedWell
