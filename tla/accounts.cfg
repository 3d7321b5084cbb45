SPECIFICATION Spec
CONSTANTS
  Account = {admin, u1, u2}
  Admin = admin
  ProfileId = {i1, i2, i3}
  Page = {r1, r2}
  None = None
  Crashes = TRUE
SYMMETRY Symmetry
INVARIANT TypeOK
INVARIANT ProfilesComplete
PROPERTY OnlyStaffVerify
