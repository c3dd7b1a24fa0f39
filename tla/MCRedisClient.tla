---------------------------- MODULE MCRedisClient ----------------------------
(* RedisClient for TLC: a string and a hash field with the same cache key, *)
(* "a:b", and a string of its own, in a cache that holds one of the two.   *)
EXTENDS RedisClient

AString == <<"a", "b">>
AHash == <<"a">>
MCStringKeys == {AString, <<"c">>}
MCHashKeys == {AHash}
=============================================================================
