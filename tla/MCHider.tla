------------------------------ MODULE MCHider ------------------------------
(* Settings of worlds for Hider: two whose sample buffers differ.  The      *)
(* first one takes all four buffers.                                        *)
EXTENDS Hider

MCSettings == {[fmt |-> <<4, 4>>, samps |-> <<3, 1>>], [fmt |-> <<5, 3>>, samps |-> <<1, 1>>]}
MCBounds == {<<2, 1, 4, 2>>}
=============================================================================
