------------------------------ MODULE MCServer ------------------------------
EXTENDS Server, TLC
CONSTANTS dev1, dev2, c1, c2

P(d, q, u, on, clr) == [dev |-> d, seq |-> q, up |-> u, coll |-> on, clear |-> clr]
MCPackets == {P(dev1, 0, 0, TRUE, FALSE), P(dev1, 1, 1, TRUE, FALSE),
              P(dev1, 3, 1, FALSE, FALSE), P(dev1, 3, 2, TRUE, TRUE),
              P(dev2, 0, 2, TRUE, FALSE)}
=============================================================================
