--------------------------- MODULE MCClientTunnel ---------------------------
\* A session that is extended, one that may not be, one that says nothing, one
\* whose end is nearer than the lead time of its warning.
EXTENDS ClientTunnel

Session(p, e, l, x) == [prior |-> p, expires |-> e, lifetime |-> l, extend |-> x]
MCInfos ==
  {Session(1, 2, 3, TRUE), Session(1, None, 3, FALSE), Session(None, 2, None, TRUE),
   Session(2, 1, None, TRUE)}
=============================================================================
