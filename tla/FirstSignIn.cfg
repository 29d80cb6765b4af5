\* Three requests: two first sign-ins and a registration between their statements.
SPECIFICATION Spec
CONSTANTS
  Requests = {r1, r2, r3}
INVARIANTS
  TypeOK
PROPERTIES
  FirstOAuthSignInCompletes
CHECK_DEADLOCK FALSE
