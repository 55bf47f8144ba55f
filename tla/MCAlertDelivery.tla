--------------------------- MODULE MCAlertDelivery ---------------------------
(* AlertDelivery with small sets for TLC. *)
EXTENDS AlertDelivery, TLC

Tenant(webhook, recipients, chats, mode, enabled) ==
    [webhook |-> webhook, recipients |-> recipients, chats |-> chats, mode |-> mode,
     enabled |-> enabled]

\* Email only; a webhook, with recipients but no email transport; Telegram
\* alone, at once or in digests.
MixedTenants ==
    {Tenant(FALSE, TRUE, {}, "instant", {"email"}),
     Tenant(TRUE, TRUE, {}, "instant", {})}
    \cup {Tenant(FALSE, FALSE, Chats, mode, {"telegram"}) : mode \in {"instant", "digest_10m"}}

Symmetry == Permutations(Slots) \cup Permutations(Alerts)
=============================================================================
