--------------------------- MODULE MCSwupdateShim ---------------------------
EXTENDS SwupdateShim, TLC

\* Updaters are not told apart by anything but their state.
UpdaterSymmetry == Permutations(Updaters)
=============================================================================
