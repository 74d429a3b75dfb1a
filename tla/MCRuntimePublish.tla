--------------------------- MODULE MCRuntimePublish ---------------------------
(* The device tree is handled as the kernel is, and all derived images       *)
(* alike; what matters of one is that a run asks for it and the next may not. *)
EXTENDS RuntimePublish

MCBase == <<"kernel", "rootfs">>
MCDerived == <<"fft_runtime">>
===============================================================================
