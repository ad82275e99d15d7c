---- MODULE MCCmdPath ----
(* CmdPath with more commands than the counters can tell apart.             *)
EXTENDS CmdPath

MCOp    == <<"read", "flush", "write", "discard", "write", "other">>
MCChain == <<<<TRUE, TRUE>>, <<>>, <<TRUE, FALSE>>, <<>>, <<TRUE>>, <<>>>>
====
