------------------------------- MODULE MCWire --------------------------------
(* Wire for TLC: a key that its own server serves and a longer one, with a *)
(* byte that could be taken for a length, that is redirected.              *)
EXTENDS Wire

MCKeys == {<<7>>, <<1, 0>>}
MCRedirected == {<<1, 0>>}
=============================================================================
