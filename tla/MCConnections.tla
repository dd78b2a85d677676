--------------------------- MODULE MCConnections ----------------------------
(* Model values for Connections.                                            *)
EXTENDS Connections, TLC

CONSTANTS u1, u2, s1, s2, b1, r1, r2, g1, i1, i2, a1, a2, a3

TwoUsers == {u1, u2}
TwoSessions == {s1, s2}
OneBrowser == {b1}
TwoRequests == {r1, r2}
OneGmail == {g1}
TwoServers == {i1, i2}
OneAddress == {a3}
TwoAddresses == {a1, a2}

Symmetric == Permutations({r1, r2}) \cup Permutations({s1, s2})
               \cup Permutations({u1, u2}) \cup Permutations({i1, i2})
               \cup Permutations({a1, a2})
=============================================================================
