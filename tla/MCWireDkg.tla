----------------------------- MODULE MCWireDkg -----------------------------
EXTENDS WireDkg, TLC

CONSTANTS c1, c2, c3

\* Two requests on vault 1, one on vault 2.
TwoOnOne == c1 :> 1 @@ c2 :> 2 @@ c3 :> 1

\* The genesis roster, and a roster with a third vault that is not seated.
TwoConstitutions == {[max |-> 2, min |-> 2], [max |-> 3, min |-> 3]}
=============================================================================
