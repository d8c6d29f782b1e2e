------------------------- MODULE MCMessageLifecycle -------------------------
EXTENDS MessageLifecycle
CONSTANT w1
OneWorker == {w1}
============================================================================
