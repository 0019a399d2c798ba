---------------------------- MODULE MCFavorites ----------------------------
(* Two groups the clicks reach, of two modes and of one, and the hidden    *)
(* group of the Bluetooth modes.                                           *)
EXTENDS Favorites

MCModeCount == <<2, 1, 2>>
=============================================================================
