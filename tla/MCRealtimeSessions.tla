------------------------ MODULE MCRealtimeSessions -------------------------
\* Model checking instance: one place, and two sessions that one user asks
\* for, or two.
EXTENDS RealtimeSessions

CONSTANTS s1, s2, alice, bruno, c1, c2

MCSessions == {s1, s2}
MCPrincipals == {alice, bruno}
MCClosers == {c1, c2}
=============================================================================
