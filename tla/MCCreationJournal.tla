------------------------- MODULE MCCreationJournal -------------------------
EXTENDS CreationJournal, TLC

CONSTANTS k1, k2, c1, c2, c3, v1, w1, w2, b1, b2

\* One request for a workspace and its agent, sent twice.
MCKey == {k1}
MCKeyKind == (k1 :> "workspaceAgent")
MCKeySpace == (k1 :> w1)
MCSpace == {w1}
MCTwoCalls == {c1, c2}
MCKeyCalls == (c1 :> k1) @@ (c2 :> k1)
MCSameBody == (c1 :> b1) @@ (c2 :> b1)
MCBody == {b1}
MCSubscriber == {c1}
MCWatcher == {v1}
\* Two workspaces compete for one slot: an agent with a workspace of its own,
\* asked for under one key by two different requests, and a scheduled one,
\* sent again and again.
MCMixKeys == {k1, k2}
MCMixKind == (k1 :> "newAgent") @@ (k2 :> "scheduled")
MCMixSpace == (k1 :> w1) @@ (k2 :> w2)
MCMixSpaces == {w1, w2}
MCMixCalls == {c1, c2, c3}
MCMixKeyOf == (c1 :> k1) @@ (c2 :> k1) @@ (c3 :> k2)
MCMixBodyOf == (c1 :> b1) @@ (c2 :> b2) @@ (c3 :> b1)
MCBodies == {b1, b2}
MCFaultsMix == {"backend", "disconnect"}

MCFaultsKey == {"crash", "backend", "refuse", "stop", "api", "timeout"}
=============================================================================
