------------------------- MODULE MCAddressResolution -------------------------
(* Two stations with two adapters between them, and a cache of two entries, *)
(* which duplicated answers of one station fill.                            *)
EXTENDS AddressResolution

CONSTANTS gateway, peer, us, a, b, ours, broadcast

MCStations == {gateway, peer}
MCAdapters == {a, b}

=============================================================================
