------------------------- MODULE MCSharedNamespace -------------------------
(***************************************************************************)
(* Instances of SharedNamespace for TLC: a CR of each kind with one name.  *)
(***************************************************************************)
EXTENDS SharedNamespace

Sentinel == <<"RedisSentinel", "a">>
Standalone == <<"RedisStandalone", "a">>
Namesakes == {Sentinel, Standalone}
OneExporter == {Standalone}
============================================================================
