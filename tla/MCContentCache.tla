---------------------------- MODULE MCContentCache ----------------------------
(* ContentCache with chunk-sized artifacts and a few processes. *)
EXTENDS ContentCache
===============================================================================
