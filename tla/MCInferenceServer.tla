-------------------------- MODULE MCInferenceServer --------------------------
EXTENDS InferenceServer
=============================================================================
