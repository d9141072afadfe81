--------------------------- MODULE MCDeviceTokens ---------------------------
(***************************************************************************)
(* DeviceTokens for TLC: two administrators against a goroutine that       *)
(* validates again and again (two validations meet only in the cache,      *)
(* whose operations are atomic), two tokens competing for a cache of one   *)
(* entry, a clock long enough for an entry to outlive the revocation of    *)
(* its token and for a token to reach its expire time while it is cached.  *)
(***************************************************************************)
EXTENDS DeviceTokens, TLC

Symmetry == Permutations(Admins) \cup Permutations(Rows)
=============================================================================
