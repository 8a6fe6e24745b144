-------------------------- MODULE MCEvaluationService --------------------------
EXTENDS EvaluationService, TLC

CONSTANTS e1, e2, w1, w2

WorkerSymmetry == Permutations(Workers)

===============================================================================
