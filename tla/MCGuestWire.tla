---------------------------- MODULE MCGuestWire ----------------------------
(***************************************************************************)
(* GuestWire for TLC: a string that is padded and one that is not; texts   *)
(* at and around the two limits of a region of 72 bytes, 8 for a result    *)
(* and 32 for any other event.  NoStr is any number larger than the heaps, *)
(* TLC having no 2^32.                                                     *)
(***************************************************************************)
EXTENDS GuestWire

MCStrings == {<<>>, <<7>>}

MCTexts == {<<>>, <<4, 8>>, <<3, 6, 9>>, <<4, 8, 12, 16, 20, 24, 28, 32>>,
            <<4, 8, 12, 16, 20, 24, 28, 32, 33>>}

=============================================================================
