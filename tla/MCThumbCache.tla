----------------------------- MODULE MCThumbCache -----------------------------
(* Small instances of ThumbCache.                                          *)
EXTENDS ThumbCache
=============================================================================
