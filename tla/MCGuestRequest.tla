--------------------------- MODULE MCGuestRequest ---------------------------
(***************************************************************************)
(* All command lines of up to four and two segments over two names, one of   *)
(* which extends the other, with clean, unclean and relative mount roots.    *)
(***************************************************************************)
EXTENDS GuestRequest

MCSegment == {"", ".", "..", "s", "sx"}
MCCwd == {<<"", "s">>}
MCMountRoot == {<<"", "s">>, <<"", "sx", "..", "s", "">>, <<"..">>, <<"">>}
=============================================================================
