------------------------------ MODULE MCBundle ------------------------------
EXTENDS Bundle
CONSTANTS x, y, p, q, m, n1, n2

Ch(ref, on, port) == [ref |-> ref, on |-> on, place |-> IF port = 0 THEN p ELSE q, wg |-> 0, port |-> port]
Rs(name, target) == [name |-> name, target |-> target, matchers |-> <<m>>]
File(channels, rulesets, port) ==
  [channels |-> channels, rulesets |-> rulesets, kill |-> "yes", port |-> port]

\* Two channels or one, stated or not, ports declared or not; what is routed
\* to one moves to the other or goes.
MCBundles == {
  File(<<>>, <<>>, 0),
  File(<<Ch(x, "unstated", 0)>>, <<Rs(n1, x)>>, 0),
  File(<<Ch(x, "unstated", 1), Ch(y, "no", 0)>>, <<>>, 0),
  File(<<Ch(y, "unstated", 0), Ch(x, "yes", 0)>>, <<Rs(n2, y), Rs(n1, x)>>, 2),
  File(<<Ch(y, "yes", 1)>>, <<Rs(n2, x)>>, 0)}
=============================================================================
