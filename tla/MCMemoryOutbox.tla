--------------------------- MODULE MCMemoryOutbox ---------------------------
\* Two handoffs, three commands; a and c share a scope
EXTENDS MemoryOutbox
MCCommandsOf == [h1 |-> <<"a", "b">>, h2 |-> <<"c">>]
MCScopeOf == [a |-> "s1", b |-> "s2", c |-> "s1"]
=============================================================================
