------------------------------ MODULE MCWriters ------------------------------
EXTENDS Writers, TLC
CONSTANTS s1, s2, r1, r2
MCStreamOf == (r1 :> s2) @@ (r2 :> s2)
=============================================================================
