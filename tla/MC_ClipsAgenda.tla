-------------------------- MODULE MC_ClipsAgenda --------------------------
EXTENDS ClipsAgenda

CONSTANTS r1, r2, r3, a1, a2, b1, c1, B

MCRuleOf     == [m \in Match |-> CASE m \in {a1, a2} -> r1 [] m = b1 -> r2 [] OTHER -> r3]
MCModuleOf   == [r \in Rule |-> IF r = r3 THEN B ELSE MAIN]
MCComplexity == [r \in Rule |-> IF r = r2 THEN 2 ELSE 1]
MCBasis      == [m \in Match |-> CASE m = a1 -> <<1>> [] m = a2 -> <<2>>
                                   [] m = b1 -> <<1, 2>> [] OTHER -> <<0, 3>>]
MCGenRand    == [t \in 1..MaxTag |-> t % 2]
MCLimit      == {-1, 1}
MCSalience   == {1, None}
=============================================================================
