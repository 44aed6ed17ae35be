CONSTANTS
  Requests = {r1, r2, r3}
  Racing = FALSE
  None = None
SPECIFICATION Spec
INVARIANTS NeverTornAway ReadyMeansLoggedIn ScannedTwice
