--------------------------- MODULE MCRomBootloader ---------------------------
(***************************************************************************)
(* RomBootloader with images of two bytes, a CRC of one and two digits.    *)
(***************************************************************************)
EXTENDS RomBootloader

MCHexDigit == {"0", "B"}
MCBootImgMsg == <<"B", "O", "G">>

\* Of each byte the first differing digits count, and a longer image has another.
MCCrc(image) ==
  LET flip(d) == IF d = "0" THEN "B" ELSE "0"
      first == image[1]
  IN IF Len(image) = 1 THEN <<<<flip(first[1]), first[2]>>>>
     ELSE <<<<image[2][1], IF image[2][2] = first[2] THEN first[1] ELSE flip(first[1])>>>>

MCImages == {<<<<"0", "B">>>>, <<<<"B", "B">>, <<"0", "B">>>>}
==============================================================================
