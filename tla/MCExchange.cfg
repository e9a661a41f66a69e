\* Two redirects at most, two parts to the millisecond: timeouts that are
\* whole, rounded up, or none.  The request comes to its end.
SPECIFICATION Spec
CONSTANTS
  Parts = 2
  Timeouts = {0, 1, 3, 4}
  MaxRedirects = 2
  Chains <- ShortChains
CHECK_DEADLOCK FALSE
INVARIANT WithinBudget
INVARIANT TimeoutIsTold
INVARIANT DialMeansUnsent
INVARIANT RedirectsByOne
PROPERTY TimeoutEnds
