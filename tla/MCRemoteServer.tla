---------------------------- MODULE MCRemoteServer ----------------------------
EXTENDS RemoteServer
CONSTANTS t1, t2, t3
===============================================================================
