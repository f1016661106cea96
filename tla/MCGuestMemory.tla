---------------------------- MODULE MCGuestMemory ----------------------------
(* GuestMemory with a loader layout of a page inside a granule and the page after it. *)
EXTENDS GuestMemory

MCLayout == {<<3, 4>>, <<4, 5>>}
=============================================================================
