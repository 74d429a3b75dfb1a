--------------------------- MODULE MCSpectrumConfig ---------------------------
(* SpectrumConfig on a radio whose attributes take one of two values each. *)
EXTENDS SpectrumConfig
===============================================================================
