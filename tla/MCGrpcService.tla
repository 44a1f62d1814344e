---------------------------- MODULE MCGrpcService ----------------------------
\* GrpcService with queries that reach rust-analyzer, one that fails validation,
\* GetVersion and the backend's shutdown.
EXTENDS GrpcService

CONSTANTS query, invalid, version, shutdown

MCKind == [c \in Calls |-> CASE c = shutdown -> "shutdown"
                             [] c = invalid -> "forbidden"
                             [] OTHER -> "request"]
==============================================================================
