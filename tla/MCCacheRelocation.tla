--------------------------- MODULE MCCacheRelocation ---------------------------
(* Two places and two schemas: every label differs from another in either.  *)
EXTENDS CacheRelocation
================================================================================
