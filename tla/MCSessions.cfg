\* Rotations, a magic link and a recovery code, two requests at a time.
SPECIFICATION Spec
CONSTANTS
  SessionRows = {s1, s2, s3}
  Links = {l1}
  Codes = {c1}
  Requests = {r1, r2}
  SignIn = SignIn
INVARIANTS
  TypeOK
  CredentialsServeOnce
  OneLiveSessionPerSignIn
SYMMETRY Symmetry
