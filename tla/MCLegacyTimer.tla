--------------------------- MODULE MCLegacyTimer ---------------------------
(* Small instances of LegacyTimer: a ULONG has eight or sixteen values.     *)
EXTENDS LegacyTimer

SmallDurations == {0, 1, 3, Half - 1}
=============================================================================
