------------------------------ MODULE MCBattery ------------------------------
EXTENDS Battery
\* Empty, in the flat middle of the curve, and full.
MCSupply == {3300, 3640, 4130}
=============================================================================
