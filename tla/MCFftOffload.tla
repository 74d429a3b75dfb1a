----------------------------- MODULE MCFftOffload -----------------------------
(* FftOffload with a block of few pieces and a narrow sequence register. *)
EXTENDS FftOffload
===============================================================================
