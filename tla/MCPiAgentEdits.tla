--------------------------- MODULE MCPiAgentEdits ---------------------------
EXTENDS PiAgentEdits, TLC

Symmetry == Permutations(Jobs) \cup Permutations(Replicas) \cup Permutations(Pollers)

Unpublished == {w \in running : ~w.published}

\* One message at a time between the endpoint, the worker and the consumer; the
\* consumer may hold another one.
OneInFlight ==
    /\ Cardinality(requests) + Cardinality(Unpublished) + Cardinality(results) <= 1
    /\ running # Unpublished => requests = {} /\ Unpublished = {}

OneExecution == \A w \in running : w.execution.delivery = 1
=============================================================================
