--------------------------- MODULE MCZTNAFirewall ---------------------------
EXTENDS ZTNAFirewall, TLC

CONSTANT d1

\* One policy opens a port inbound for good, the other opens outbound traffic
\* until time 1; the query is inbound on that port or outbound.
MCPolicy == {[inbound |-> TRUE, outbound |-> FALSE, ports |-> {7},
              expires |-> NoExpiry],
             [inbound |-> FALSE, outbound |-> TRUE, ports |-> {}, expires |-> 1]}
MCQuery == {[did |-> d1, port |-> 7, inbound |-> b] : b \in BOOLEAN}
EvaluatorSymmetry == Permutations(Evaluator)
=============================================================================
