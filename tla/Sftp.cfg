SPECIFICATION FairLazySpec
CONSTANTS
  Callers = {p1, p2}
  Closers = {q1}
  Conns = {c1, c2}
  Nil = Nil
INVARIANTS CachedClientIsLive NoSocketLeaks CancelIsNotCached OneConnection
PROPERTIES CloseReleasesAll CallsReturn CancelledCallsReturn
