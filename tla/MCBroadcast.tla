---------------------------- MODULE MCBroadcast ----------------------------
(* Small instances of Broadcast.                                            *)
EXTENDS Broadcast

CONSTANTS i1, s1, s2, g1, g2, k1, c1, c2

\* The signals share one key.
MCKeyOf == [g \in Signals |-> k1]

\* The second scheduled message goes to two channels, the others to one.
MCAudience == [m \in Msgs |-> IF m = s2 THEN {c1, c2} ELSE {c1}]

Created == {m \in Msgs : status[m] # "absent"}

\* What one behaviour combines: an instant and a scheduled message, two twin
\* signals, or one message to two channels (the second matters to no other).
Mixes == {{i1, s1}, {g1, g2}, {s2}}

Mixed == /\ \E mix \in Mixes : Created \subseteq mix
         /\ (\E c \in Channels \ {c1} : channel[c] # "active") => Created = {s2}
=============================================================================
