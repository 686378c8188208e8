\* The second request of a DHX2 change of the password.
SPECIFICATION LoginSpec
CONSTANTS
  Offers <- MCOffers
  UamOffers <- MCUamOffers
  Masks <- MCMasks
  Requested = {0, 20, 40}
  Ids = {257, 258}
  NameLengths = {4, 5}
  LittleEndian = TRUE
  HaveLibgcrypt = TRUE
  MaxVersions = 10
  MaxUams = 10
  MaxChanges = 1
  MaxReconnects = 1
INVARIANTS
  AsksForTheNewPassword
