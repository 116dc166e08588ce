------------------------ MODULE MCMemoryTransaction ------------------------
\* Two games of one NPC: a and b are of the first and c of the second; all three
\* facts are traits
EXTENDS MemoryTransaction
MCScopeOf == [a |-> "g1", b |-> "g1", c |-> "g2"]
MCDirOf == [a |-> "traits", b |-> "traits", c |-> "traits"]
MCEarlier == [a |-> {}, b |-> {"a"}, c |-> {}]
=============================================================================
