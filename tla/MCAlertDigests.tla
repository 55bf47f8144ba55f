--------------------------- MODULE MCAlertDigests ---------------------------
(* AlertDigests with small sets for TLC. *)
EXTENDS AlertDigests, TLC

\* Digests beside a webhook, instant messages beside email, and a webhook with
\* recipients that no email transport serves.
DigestTenants ==
    {[webhook |-> TRUE, recipients |-> FALSE, chats |-> Chats, mode |-> "digest_10m",
      enabled |-> {"telegram"}],
     [webhook |-> FALSE, recipients |-> TRUE, chats |-> Chats, mode |-> "instant",
      enabled |-> {"email", "telegram"}],
     [webhook |-> TRUE, recipients |-> TRUE, chats |-> {}, mode |-> "instant", enabled |-> {}]}
=============================================================================
