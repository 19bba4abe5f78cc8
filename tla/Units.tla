-------------------------------- MODULE Units --------------------------------
(***************************************************************************)
(* units.hpp: bytes in nanoseconds, with rates in whole Gb/s, so that the  *)
(* 10^9 of the source cancels.                                             *)
(***************************************************************************)
EXTENDS Naturals

serialization_ns(bytes, rate) == (bytes * 8) \div rate

serialization_is_exact(bytes, rate) == (bytes * 8) % rate = 0
=============================================================================
