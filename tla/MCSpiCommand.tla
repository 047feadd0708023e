--------------------------- MODULE MCSpiCommand ---------------------------
(***************************************************************************)
(* An SPI command beside SetOneRegister on SPICTL, alone.                  *)
(***************************************************************************)
EXTENDS SpiCommand

OneSpi == [line : {"0"}, bits : {16}, pulse : {FALSE}]
OneControl == {[high |-> {"4"}, mode |-> {5}, count |-> 3]}

Spec == SpiInit /\ [][SpiNext]_spiVars
=============================================================================
