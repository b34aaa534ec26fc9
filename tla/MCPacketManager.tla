--------------------------- MODULE MCPacketManager ---------------------------
(* Instances of PacketManager for TLC: bytes of two values and a header of  *)
(* two bytes, so that sizes have a low and a high byte.                     *)
EXTENDS PacketManager

OneSize     == {<<1>>}
TwoSizes  == {<<1>>, <<0, 1>>}
OneWay    == [A |-> 2, B |-> 0]
TwoAndOne == [A |-> 2, B |-> 1]
=============================================================================
