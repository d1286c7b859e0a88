--------------------------- MODULE MCNemuDevices ---------------------------
EXTENDS NemuDevices

MCExtCsd == [w \in 0 .. BlockWords - 1 |-> <<"csd", w>>]
=============================================================================
