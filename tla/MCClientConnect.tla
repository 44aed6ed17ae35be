-------------------------- MODULE MCClientConnect --------------------------
\* Two servers, two commands, and gateway lists short and long enough for ties,
\* rules of other regions, priorities that say nothing and equal names.
EXTENDS ClientConnect

NoKeyArgs == {<<"none", "none">>, <<"bare", "none">>}
KeyArgs == {<<"encrypted", "none">>, <<"encrypted", "wrong">>, <<"p12", "none">>}
MCArguments ==
  {[asGateway |-> FALSE, noCache |-> n, stdin |-> i, cert |-> k[1], key |-> k[2], pick |-> n] :
     n \in BOOLEAN, i \in {"none", "cookie", "password"}, k \in NoKeyArgs \cup KeyArgs}
  \cup {[asGateway |-> TRUE, noCache |-> FALSE, stdin |-> "password",
          cert |-> "encrypted", key |-> "wrong", pick |-> FALSE]}

Gw(n, a, p, rules) == [name |-> n, address |-> a, priority |-> p, rules |-> rules]
Rule(r, p) == [name |-> r, priority |-> p]

Low == Gw("a", "g1", 2, << Rule("EU", 2), Rule("US", 1) >>)
All == Gw("b", "g2", 1, << Rule("Any", 2) >>)
Mute == Gw("c", "g3", 1, << Rule("EU", MaxPriority) >>)
Bare == Gw("b", "g4", 2, <<>>)

Outside(gs) == [inside |-> FALSE, internal |-> <<Mute>>, external |-> gs]
MCPortalConfigs ==
  {Outside(gs) : gs \in {<<>>, <<Low>>, <<All, Low>>, <<All, Bare, Low>>,
                         <<Mute, All, Low>>, <<Mute, Low, All>>}}
  \cup {[inside |-> TRUE, internal |-> <<Mute, Bare>>, external |-> <<Low>>],
        [inside |-> TRUE, internal |-> None, external |-> None]}
=============================================================================
