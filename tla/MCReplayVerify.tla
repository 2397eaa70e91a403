--------------------------- MODULE MCReplayVerify ---------------------------
EXTENDS ReplayVerify, TLC

\* Two attributes of different keys and two of one key, in either order.
MCAttributeList == {<<<<1, "x">>, <<2, "y">>>>, <<<<2, "y">>, <<1, "x">>>>,
                    <<<<1, "x">>, <<1, "y">>>>, <<<<1, "y">>, <<1, "x">>>>}

Symmetry == Permutations(Tenant) \cup Permutations(Case)
=============================================================================
