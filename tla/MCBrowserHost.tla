---------------------------- MODULE MCBrowserHost ----------------------------
EXTENDS BrowserHost, TLC

\* Every process but the master may be renamed.
Symmetry == Permutations(Procs \ {Master})
=============================================================================
