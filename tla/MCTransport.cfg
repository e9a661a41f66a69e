\* One request, two goroutines: a RoundTrip or a reader meets a closer, the
\* end of a context, or the collector.  The system may stop: the request made,
\* the Transport dropped.
SPECIFICATION FairSpec
CONSTANTS
  Users = {u1, u2}
  NoUser = NoUser
  Requests = {r1}
  NoRequest = NoRequest
  BodyLen = 1
CHECK_DEADLOCK FALSE
INVARIANT CausesFirst
INVARIANT UploadClosedOnce
INVARIANT NothingLeaks
INVARIANT ClosedForGood
PROPERTY BodiesKeepContract
PROPERTY CloseInterrupts
