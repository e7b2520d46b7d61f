----------------------------- MODULE MCBuildTask -----------------------------
EXTENDS BuildTask
=============================================================================
