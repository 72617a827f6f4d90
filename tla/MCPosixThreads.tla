---------------------------- MODULE MCPosixThreads ----------------------------
EXTENDS PosixThreads, TLC

CONSTANTS m1, m2, c, b

MCType == (m1 :> "normal") @@ (m2 :> "recursive")
MCNThreads == (b :> 2)
=============================================================================
