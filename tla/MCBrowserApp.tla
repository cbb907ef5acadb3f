---------------------------- MODULE MCBrowserApp ----------------------------
EXTENDS BrowserApp, TLC

CONSTANTS c1, c2, c3, auto, none

Symmetry == Permutations(Clicks)
=============================================================================
