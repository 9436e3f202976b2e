------------------------------ MODULE MCBrowser ------------------------------
(* Instances of Browser for TLC: the root and one folder.                    *)
EXTENDS Browser

CONSTANTS home, sub
TwoDirs == {home, sub}
=============================================================================
