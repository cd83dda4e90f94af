------------------------------ MODULE MCServer ------------------------------
(* Small instances of Server for TLC. *)
EXTENDS Server

CONSTANTS s1, s2, s3

ThreeSessions == {s1, s2, s3}
\* The first connection's client sends one whole request, which a ProxyHandler
\* answers, or not; the others do whatever there is to do.
Proxied == {NewSession(ThreeSessions)}
Others == ThreeSessions \ Proxied
Everything == {"partial", "complete", "malformed", "unroutable"}
Roles(s) == IF s \in Proxied THEN {"complete"} ELSE Everything
WellBehaved(s) == {"partial", "complete", "malformed"}

=============================================================================
