------------------------ MODULE MCEvaluationQueueOrder ------------------------
EXTENDS EvaluationQueueOrder

CONSTANTS e1, e2, w1, w2

===============================================================================
