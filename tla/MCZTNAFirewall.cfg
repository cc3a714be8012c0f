\* Two evaluations overlap each other and every change of the book.
CONSTANTS
    d1 = d1
    Evaluator = {e1, e2}
    DID = {d1}
    Policy <- MCPolicy
    Query <- MCQuery
    CacheTTL = 1
    MaxStall = 1
    MaxNow = 2
SYMMETRY EvaluatorSymmetry
SPECIFICATION Spec
INVARIANTS CacheCoherent
PROPERTIES AcceptJustified
