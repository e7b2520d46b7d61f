---------------------------- MODULE MCDSLExecutor ----------------------------
EXTENDS DSLExecutor
=============================================================================
