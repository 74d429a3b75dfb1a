------------------------------ MODULE MCQemuBoot ------------------------------
(* QemuBoot with a log that can be one line too long for its cap. *)
EXTENDS QemuBoot
===============================================================================
