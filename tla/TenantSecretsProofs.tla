------------------------ MODULE TenantSecretsProofs ------------------------
(***************************************************************************)
(* The stored bot token of a tenant is the one it saved last, for every     *)
(* number of processes, keys, tokens, failures, saves and restarts.         *)
(* TokensStay is not inductive alone: the background upgrade writes a       *)
(* ciphertext that was computed from an earlier read. What carries the      *)
(* proof is that the two ciphertexts of a pending upgrade are of one token, *)
(* so that the compare-and-swap, when it succeeds, keeps the token.         *)
(* TokensStay in turn carries the second result, that a message goes out    *)
(* under a bot of the tenant when the ciphertext opens: the settings a      *)
(* delivery read are of the token the tenant meant when it read them        *)
(* (SettingsHeard).                                                         *)
(***************************************************************************)
EXTENDS TenantSecrets, TLAPS

\* The two ciphertexts of an upgrade under way are of one token.
UpgradesKeepToken ==
    \A p \in Processes : upgrade[p].read # NoToken =>
        upgrade[p].write # NoToken /\ upgrade[p].write.token = upgrade[p].read.token

IInv == TypeOK /\ UpgradesKeepToken /\ TokensStay

\* A token is encrypted to a ciphertext of that token, by any process with a key.
LEMMA EncryptedToken ==
    ASSUME TypeOK, NEW p \in Processes, key[p] # NoKey, NEW token \in Tokens
    PROVE  /\ Encrypt(p, token) \in Secret
           /\ Encrypt(p, token) # NoToken
           /\ Encrypt(p, token).token = token
<1>1. key[p] \in MasterKeys
  BY DEF TypeOK
<1>2. Encrypt(p, token) \in Secret
  BY <1>1 DEF TypeOK, Encrypt, Secret
<1> QED
  BY <1>2, SecretsAssumption DEF Encrypt

\* The state a tenant starts from, getByTenantId of its row.
LEMMA InitIInv ==
    Init => IInv
<1> SUFFICES ASSUME Init PROVE IInv
  OBVIOUS
<1>1. TypeOK
  BY SecretsAssumption DEF Init, TypeOK, NoUpgrade, IdleDelivery
<1> QED
  BY <1>1 DEF Init, IInv, UpgradesKeepToken, TokensStay, NoUpgrade

\* PUT /settings: the row and what the tenant means change together.
LEMMA SaveStep ==
    ASSUME IInv, NEW p \in Processes, NEW operation \in {"set", "clear", "unchanged"},
           NEW token \in Tokens \cup {NoToken}, operation = "set" => token \in Tokens,
           Save(p, operation, token)
    PROVE  IInv'
<1> USE DEF IInv
<1>1. CASE operation = "set"
  <2>1. row' = Encrypt(p, token) /\ meant' = token /\ key[p] # NoKey
    BY <1>1 DEF Save, Upserted
  <2>2. row' \in Secret /\ row' # NoToken /\ row'.token = token
    BY <1>1, <2>1, EncryptedToken
  <2>3. TypeOK'
    BY <2>2 DEF Save, TypeOK
  <2> QED
    BY <2>1, <2>2, <2>3 DEF Save, UpgradesKeepToken, TokensStay, TokenOf
<1>2. CASE operation = "clear"
  <2>1. row' = NoToken /\ meant' = NoToken
    BY <1>2 DEF Save, Upserted
  <2>2. TypeOK'
    BY <1>2, <2>1 DEF Save, TypeOK
  <2> QED
    BY <2>1, <2>2 DEF Save, UpgradesKeepToken, TokensStay, TokenOf
<1>3. CASE operation = "unchanged"
  <2>1. row' = row /\ meant' = meant
    BY <1>3 DEF Save, Upserted
  <2>2. TypeOK'
    BY <1>3, <2>1 DEF Save, TypeOK
  <2> QED
    BY <2>1, <2>2 DEF Save, UpgradesKeepToken, TokensStay, TokenOf
<1> QED
  BY <1>1, <1>2, <1>3

\* A delivery resolves the token and may start an upgrade of what it read.
LEMMA ResolveStep ==
    ASSUME IInv, NEW p \in Processes, Resolve(p)
    PROVE  IInv'
<1> DEFINE secret == delivery[p].settings
           starts == secret # NoToken /\ Opens(p, secret) /\ NeedsUpgrade(secret) /\ upgrade[p] = NoUpgrade
<1> USE DEF IInv
<1>1. secret \in Secret \cup {NoToken}
  BY DEF TypeOK
<1>2. Resolved(p, secret) \in Tokens \cup {GlobalToken, Nothing}
  BY <1>1 DEF Resolved, Secret
<1>3. delivery' \in [Processes -> [pc: {"idle", "resolve", "send"}, settings: Secret \cup {NoToken},
                                   token: Tokens \cup {GlobalToken, Nothing}]]
  BY <1>1, <1>2 DEF Resolve, TypeOK, IdleDelivery
<1>4. UNCHANGED <<row, key, meant>>
  BY DEF Resolve
<1>5. CASE starts
  <2>1. secret \in Secret /\ secret.key = key[p] /\ secret.token \in Tokens /\ secret.key \in MasterKeys
    BY <1>1, <1>5 DEF Opens, Secret
  <2>2. key[p] # NoKey
    BY <2>1, SecretsAssumption
  <2>3. /\ Encrypt(p, secret.token) \in Secret
        /\ Encrypt(p, secret.token) # NoToken
        /\ Encrypt(p, secret.token).token = secret.token
    BY <2>1, <2>2, EncryptedToken
  <2>4. /\ upgrade' = [upgrade EXCEPT ![p] = [read |-> secret, write |-> Encrypt(p, secret.token)]]
        /\ ivs' = ivs + 1
    BY <1>5 DEF Resolve
  <2>5. TypeOK'
    BY <1>3, <1>4, <2>1, <2>3, <2>4 DEF TypeOK
  <2>6. UpgradesKeepToken'
    BY <2>3, <2>4 DEF UpgradesKeepToken, TypeOK
  <2> QED
    BY <1>4, <2>5, <2>6 DEF TokensStay, TokenOf
<1>6. CASE ~starts
  <2>1. upgrade' = upgrade /\ ivs' = ivs
    BY <1>6 DEF Resolve
  <2>2. TypeOK'
    BY <1>3, <1>4, <2>1 DEF TypeOK
  <2> QED
    BY <1>4, <2>1, <2>2 DEF TokensStay, TokenOf, UpgradesKeepToken
<1> QED
  BY <1>5, <1>6

\* The compare-and-swap writes a ciphertext of the token that is there.
LEMMA WriteUpgradeStep ==
    ASSUME IInv, NEW p \in Processes, upgrade[p].read # NoToken,
           WriteUpgrade(p) \/ UNCHANGED row, UNCHANGED meant
    PROVE  row' \in Secret \cup {NoToken} /\ TokensStay'
<1> USE DEF IInv
<1>1. /\ upgrade[p].write \in Secret \cup {NoToken}
      /\ upgrade[p].write # NoToken
      /\ upgrade[p].write.token = upgrade[p].read.token
  BY DEF TypeOK, UpgradesKeepToken
<1>2. CASE row = upgrade[p].read /\ WriteUpgrade(p)
  <2>1. row' = upgrade[p].write
    BY <1>2 DEF WriteUpgrade
  <2>2. TokenOf(row') = TokenOf(row)
    BY <1>1, <1>2, <2>1 DEF TokenOf
  <2> QED
    BY <1>1, <2>1, <2>2 DEF TokensStay, TokenOf
<1>3. CASE row' = row
  BY <1>3 DEF TypeOK, TokensStay, TokenOf
<1> QED
  BY <1>2, <1>3 DEF WriteUpgrade

\* The upgrade ends, or fails, and is forgotten.
LEMMA UpgradeStep ==
    ASSUME IInv, NEW p \in Processes, Upgrade(p) \/ UpgradeFails(p)
    PROVE  IInv'
<1> USE DEF IInv
<1>1. /\ upgrade[p].read # NoToken
      /\ WriteUpgrade(p) \/ UNCHANGED row
      /\ UNCHANGED <<meant, key, delivery, ivs>>
      /\ upgrade' = [upgrade EXCEPT ![p] = NoUpgrade]
  BY DEF Upgrade, UpgradeFails
<1>2. row' \in Secret \cup {NoToken} /\ TokensStay'
  BY <1>1, WriteUpgradeStep
<1>3. TypeOK'
  BY <1>1, <1>2 DEF TypeOK, NoUpgrade
<1>4. UpgradesKeepToken'
  BY <1>1 DEF UpgradesKeepToken, NoUpgrade, TypeOK
<1> QED
  BY <1>2, <1>3, <1>4

\* Reads, sends and restarts leave the row alone.
LEMMA OtherStep ==
    ASSUME IInv, NEW p \in Processes, NEW k \in MasterKeys \cup {NoKey},
           ReadSettings(p) \/ Send(p) \/ Restart(p, k)
    PROVE  IInv'
<1> USE DEF IInv
<1>1. CASE ReadSettings(p)
  <2>1. TypeOK'
    BY <1>1 DEF ReadSettings, TypeOK
  <2> QED
    BY <1>1, <2>1 DEF ReadSettings, UpgradesKeepToken, TokensStay, TokenOf
<1>2. CASE Send(p)
  <2>1. TypeOK'
    BY <1>2 DEF Send, TypeOK, IdleDelivery
  <2> QED
    BY <1>2, <2>1 DEF Send, UpgradesKeepToken, TokensStay, TokenOf
<1>3. CASE Restart(p, k)
  <2>1. TypeOK'
    BY <1>3 DEF Restart, TypeOK, IdleDelivery, NoUpgrade
  <2>2. UpgradesKeepToken'
    BY <1>3 DEF Restart, UpgradesKeepToken, NoUpgrade, TypeOK
  <2> QED
    BY <1>3, <2>1, <2>2 DEF Restart, TokensStay, TokenOf
<1> QED
  BY <1>1, <1>2, <1>3

\* IInv is kept by every step of the specification.
LEMMA NextIInv ==
    IInv /\ [Next]_vars => IInv'
<1> SUFFICES ASSUME IInv, [Next]_vars PROVE IInv'
  OBVIOUS
<1>1. ASSUME NEW p \in Processes, NEW token \in Tokens, Save(p, "set", token) PROVE IInv'
  BY <1>1, SaveStep
<1>2. ASSUME NEW p \in Processes, NEW operation \in {"clear", "unchanged"}, Save(p, operation, NoToken)
      PROVE  IInv'
  <2>1. operation \in {"set", "clear", "unchanged"} /\ operation # "set"
    OBVIOUS
  <2> QED
    BY <1>2, <2>1, SaveStep
<1>3. ASSUME NEW p \in Processes, DeliveryStep(p) \/ Upgrade(p) \/ UpgradeFails(p) PROVE IInv'
  BY <1>3, ResolveStep, UpgradeStep, OtherStep DEF DeliveryStep
<1>4. ASSUME NEW p \in Processes, NEW k \in MasterKeys \cup {NoKey}, Restart(p, k) PROVE IInv'
  BY <1>4, OtherStep
<1>5. CASE UNCHANGED vars
  BY <1>5 DEF vars, IInv, TypeOK, UpgradesKeepToken, TokensStay, TokenOf
<1> QED
  BY <1>1, <1>2, <1>3, <1>4, <1>5 DEF Next

\* The stored ciphertext is always of the token the tenant saved last: no
\* upgrade in the background, of any process and however late, brings an old
\* one back (upgradeTelegramBotTokenKeyVersion).
THEOREM SavedTokensStay == Spec => []TokensStay
<1>1. Init => IInv
  BY InitIInv
<1>2. IInv /\ [Next]_vars => IInv'
  BY NextIInv
<1>3. IInv => TokensStay
  BY DEF IInv
<1> QED
  BY <1>1, <1>2, <1>3, PTL DEF Spec

-----------------------------------------------------------------------------
(* The bot a message goes out under *)

\* The token of the settings a delivery read is one the tenant had since then.
SettingsHeard ==
    \A p \in Processes : delivery[p].pc = "resolve" => TokenOf(delivery[p].settings) \in heard[p]

BotInv ==
    /\ heard = [p \in Processes |-> heard[p]]
    /\ SettingsHeard
    /\ BotsFollowSettings

\* BotsFollowSettings of one process whose delivery is d, which heard of h and
\* whose master key is k.
Follows(d, h, k) ==
    d.pc = "send" =>
        \/ Bot(d.token) \in h
        \/ Bot(d.token) = GlobalToken /\ NoToken \in h
        \/ /\ Bot(d.token) = GlobalToken /\ d.settings # NoToken
           /\ ~(d.settings.version \notin FutureVersions /\ d.settings.key = k)

\* BotsFollowSettings, one process at a time.
LEMMA FollowsEach ==
    /\ BotsFollowSettings <=> \A q \in Processes : Follows(delivery[q], heard[q], key[q])
    /\ BotsFollowSettings' <=> \A q \in Processes : Follows(delivery'[q], heard'[q], key'[q])
BY DEF BotsFollowSettings, OwnBot, Follows, Opens, Bot

\* What a step keeps of BotInv at a process whose delivery stands still while
\* the tokens it heard of only grow: saves, upgrades and the steps of others.
LEMMA StandingDeliveries ==
    ASSUME BotInv, NEW q \in Processes, delivery'[q] = delivery[q], heard[q] \subseteq heard'[q],
           key'[q] = key[q]
    PROVE  /\ delivery'[q].pc = "resolve" => TokenOf(delivery'[q].settings) \in heard'[q]
           /\ Follows(delivery'[q], heard'[q], key'[q])
<1>1. Follows(delivery[q], heard[q], key[q])
  BY FollowsEach DEF BotInv
<1>2. Follows(delivery'[q], heard'[q], key'[q])
  BY <1>1 DEF Follows
<1> QED
  BY <1>2 DEF BotInv, SettingsHeard, TokenOf

\* Only the delivery of p moves.
LEMMA OneDelivery ==
    ASSUME IInv, BotInv, NEW p \in Processes, NEW d, NEW h,
           delivery' = [delivery EXCEPT ![p] = d], heard' = [heard EXCEPT ![p] = h],
           \A q \in Processes : q # p => key'[q] = key[q],
           d.pc = "resolve" => TokenOf(d.settings) \in h, Follows(d, h, key'[p])
    PROVE  BotInv'
<1>1. delivery'[p] = d /\ heard'[p] = h /\ heard' = [q \in Processes |-> heard'[q]]
  BY DEF IInv, TypeOK, BotInv
<1>2. ASSUME NEW q \in Processes, q # p PROVE delivery'[q] = delivery[q] /\ heard'[q] = heard[q]
  BY <1>2 DEF IInv, TypeOK, BotInv
<1>3. SettingsHeard'
  BY <1>1, <1>2, StandingDeliveries DEF SettingsHeard, TokenOf
<1>4. BotsFollowSettings'
  BY <1>1, <1>2, StandingDeliveries, FollowsEach
<1> QED
  BY <1>1, <1>3, <1>4 DEF BotInv

\* getByTenantId reads the token the tenant means at that moment.
LEMMA ReadSettingsBot ==
    ASSUME IInv, BotInv, NEW p \in Processes, ReadSettings(p)
    PROVE  BotInv'
<1> DEFINE d == [pc |-> "resolve", settings |-> row, token |-> Nothing]
<1>1. /\ delivery' = [delivery EXCEPT ![p] = d]
      /\ heard' = [heard EXCEPT ![p] = {meant}] /\ key' = key
  BY DEF ReadSettings
<1>2. d.pc = "resolve" /\ TokenOf(d.settings) \in {meant}
  BY DEF IInv, TokensStay, TokenOf
<1> HIDE DEF d
<1>3. Follows(d, {meant}, key'[p])
  BY <1>2 DEF Follows
<1> QED
  BY <1>1, <1>2, <1>3, OneDelivery

\* resolveDetailedForTenant and isTelegramEnabled: the token that was read, the
\* operator's for a tenant without one or with one that does not open, or no
\* message.
LEMMA ResolveBot ==
    ASSUME IInv, BotInv, NEW p \in Processes, Resolve(p)
    PROVE  BotInv'
<1> DEFINE secret == delivery[p].settings
           token == Resolved(p, secret)
           d == IF Bot(token) = Nothing THEN IdleDelivery
                ELSE [pc |-> "send", settings |-> secret, token |-> token]
<1>1. /\ delivery[p].pc = "resolve"
      /\ delivery' = [delivery EXCEPT ![p] = d]
      /\ heard' = heard /\ key' = key
  BY DEF Resolve
<1>2. heard' = [heard EXCEPT ![p] = heard[p]]
  BY <1>1 DEF BotInv
<1>3. TokenOf(secret) \in heard[p]
  BY <1>1 DEF BotInv, SettingsHeard, TokenOf
<1>4. \/ Bot(token) \in heard[p]
      \/ Bot(token) = GlobalToken /\ NoToken \in heard[p]
      \/ Bot(token) = GlobalToken /\ secret # NoToken /\ ~Opens(p, secret)
  <2>1. CASE secret = NoToken
    BY <1>3, <2>1 DEF Resolved, TokenOf, Bot
  <2>2. CASE secret # NoToken /\ Opens(p, secret)
    <3>1. secret.token \in Tokens /\ token = secret.token /\ token \in heard[p]
      BY <1>3, <2>2 DEF IInv, TypeOK, Secret, Resolved, TokenOf
    <3> QED
      BY <3>1, SecretsAssumption DEF Bot
  <2>3. CASE secret # NoToken /\ ~Opens(p, secret)
    BY <2>3 DEF Resolved, Bot
  <2> QED
    BY <2>1, <2>2, <2>3
<1>5. d.pc # "resolve" /\ (d.pc = "send" => d.settings = secret /\ d.token = token)
  BY DEF IdleDelivery
<1> HIDE DEF d
<1>6. Follows(d, heard[p], key'[p])
  BY <1>1, <1>4, <1>5 DEF Follows, Opens
<1> QED
  BY <1>1, <1>2, <1>5, <1>6, OneDelivery

\* A delivery that is over, or lost with its process, has nothing to send.
LEMMA EndedBot ==
    ASSUME IInv, BotInv, NEW p \in Processes, \A q \in Processes : q # p => key'[q] = key[q],
           delivery' = [delivery EXCEPT ![p] = IdleDelivery], heard' = [heard EXCEPT ![p] = {}]
    PROVE  BotInv'
<1>1. IdleDelivery.pc = "idle"
  BY DEF IdleDelivery
<1>2. Follows(IdleDelivery, {}, key'[p])
  BY <1>1 DEF Follows
<1> QED
  BY <1>1, <1>2, OneDelivery

\* Saves and upgrades stop no delivery: what it heard of only grows.
LEMMA GrowingBot ==
    ASSUME BotInv, delivery' = delivery, key' = key, heard' = [q \in Processes |-> heard'[q]],
           \A q \in Processes : heard[q] \subseteq heard'[q]
    PROVE  BotInv'
<1>1. SettingsHeard'
  BY StandingDeliveries DEF SettingsHeard, TokenOf
<1>2. BotsFollowSettings'
  BY StandingDeliveries, FollowsEach
<1> QED
  BY <1>1, <1>2 DEF BotInv

\* BotInv is kept by every step of the specification.
LEMMA NextBotInv ==
    IInv /\ BotInv /\ [Next]_vars => BotInv'
<1> SUFFICES ASSUME IInv, BotInv, [Next]_vars PROVE BotInv'
  OBVIOUS
<1>1. ASSUME NEW p \in Processes, NEW operation, NEW token, Save(p, operation, token) PROVE BotInv'
  <2>1. delivery' = delivery /\ key' = key /\ heard' = [q \in Processes |-> heard[q] \cup {meant'}]
    BY <1>1 DEF Save
  <2> QED
    BY <2>1, GrowingBot
<1>2. ASSUME NEW p \in Processes, DeliveryStep(p) PROVE BotInv'
  <2>1. CASE ReadSettings(p)
    BY <2>1, ReadSettingsBot
  <2>2. CASE Resolve(p)
    BY <2>2, ResolveBot
  <2>3. CASE Send(p)
    BY <2>3, EndedBot DEF Send
  <2> QED
    BY <1>2, <2>1, <2>2, <2>3 DEF DeliveryStep
<1>3. ASSUME NEW p \in Processes, Upgrade(p) \/ UpgradeFails(p) PROVE BotInv'
  <2>1. delivery' = delivery /\ heard' = heard /\ key' = key
    BY <1>3 DEF Upgrade, UpgradeFails
  <2> QED
    BY <2>1, GrowingBot DEF BotInv
<1>4. ASSUME NEW p \in Processes, NEW k, Restart(p, k) PROVE BotInv'
  <2>1. \A q \in Processes : q # p => key'[q] = key[q]
    BY <1>4 DEF Restart, IInv, TypeOK
  <2> QED
    BY <1>4, <2>1, EndedBot DEF Restart
<1>5. CASE UNCHANGED vars
  <2>1. delivery' = delivery /\ heard' = heard /\ key' = key
    BY <1>5 DEF vars
  <2> QED
    BY <2>1, GrowingBot DEF BotInv
<1> QED
  BY <1>1, <1>2, <1>3, <1>4, <1>5 DEF Next

\* A message goes out under a bot the tenant had at some moment since its
\* delivery read the settings; the operator's bot is used only for a tenant that
\* had none, or in place of a ciphertext that does not open
\* (resolveDetailedForTenant, and the notifier's own fallback).
THEOREM TenantsBotSends == Spec => []BotsFollowSettings
<1>1. Init => IInv /\ BotInv
  <2>1. Init => BotInv
    BY DEF Init, BotInv, SettingsHeard, BotsFollowSettings, IdleDelivery
  <2> QED
    BY <2>1, InitIInv
<1>2. IInv /\ BotInv /\ [Next]_vars => (IInv /\ BotInv)'
  BY NextIInv, NextBotInv
<1>3. BotInv => BotsFollowSettings
  BY DEF BotInv
<1> QED
  BY <1>1, <1>2, <1>3, PTL DEF Spec
=============================================================================
