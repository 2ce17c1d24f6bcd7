---- MODULE MCRollout ----
(* Model values for Rollout.                                               *)
EXTENDS Rollout, TLC

CONSTANTS n1, n2

MCFleets == {{n1, n2}, {n1}}

Value(m, over, w, s) == [mode |-> m, overrides |-> over, wait |-> w, sweeps |-> s]

\* A fleet in off whose nodes may ask for ppcie; and one in on whose nodes may,
\* rolled out by a dispatcher that sweeps and does not wait for nodes.
MCReleases == {Value("off", {"ppcie"}, TRUE, FALSE), Value("on", {"ppcie"}, FALSE, TRUE)}
=============================================================================
