--------------------------- MODULE MCConfigReload ---------------------------
(* ConfigReload.tla for TLC: two upstreams that come and go in four edits, *)
(* enough for a broken file, its repair and an edit during a reload.       *)
EXTENDS ConfigReload

CONSTANTS u1, u2

TwoUpstreams == {u1, u2}
=============================================================================
