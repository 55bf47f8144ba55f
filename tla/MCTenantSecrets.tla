-------------------------- MODULE MCTenantSecrets --------------------------
(* TenantSecrets with small sets for TLC. *)
EXTENDS TenantSecrets

Old(version) == [token |-> "a", key |-> "k1", version |-> version, iv |-> 0]

\* No token, a legacy one, or one of a version this release does not know.
Stored == {NoToken, Old(LegacyVersion), Old(3)}
=============================================================================
