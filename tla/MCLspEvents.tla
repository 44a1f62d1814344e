----------------------------- MODULE MCLspEvents -----------------------------
\* LspEvents with the diagnostics of two documents, which share a subscription,
\* and window messages, which are not cached.
EXTENDS LspEvents

CONSTANTS main, lib, message, diagnostics, window

MCMethodOf == [t \in Topics |-> IF t = message THEN window ELSE diagnostics]
==============================================================================
