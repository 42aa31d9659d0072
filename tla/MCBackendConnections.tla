------------------------ MODULE MCBackendConnections ------------------------
EXTENDS BackendConnections

CONSTANTS n1, h1, h2, refresher

\* One workspace, two requests for it, and the periodic refresh.
MCName == {n1}
MCHandlers == {h1, h2}
=============================================================================
