--------------------------- MODULE TenantSecrets ---------------------------
(***************************************************************************)
(* The Telegram bot token of one tenant in FeedPulse: saved by PUT          *)
(* /settings under the current key version, read by every delivery and      *)
(* digest, and rewritten under the current version in the background when a *)
(* read meets an older one. API and workers may run with different master   *)
(* keys while a key is being replaced.                                      *)
(***************************************************************************)
EXTENDS Integers, Sequences, FiniteSets

CONSTANTS
    Processes,    \* processes that save settings or deliver
    MasterKeys,   \* values of TENANT_SECRETS_MASTER_KEY
    NoKey,        \* the variable is not set
    Tokens,       \* bot tokens a tenant may save
    NoToken,      \* the tenant has no token of its own
    GlobalToken,  \* TELEGRAM_BOT_TOKEN of the operator, or Nothing
    Nothing,      \* no token
    LegacyVersion, CurrentVersion, FutureVersions,  \* key versions
    StartTokens,  \* ciphertexts to start from
    Faults,       \* kinds of failure that may happen
    MaxFaults,    \* bound: how many failures may happen
    MaxSaves,     \* bound: how many times the settings are saved
    MaxRestarts   \* bound: how many times a process restarts with another key

FaultKinds == {"db_error", "reply_lost"}

\* A ciphertext: the token, the key and version it is under, and the number of
\* the encryption, which stands for its random IV.
Secret == [token: Tokens, key: MasterKeys, version: {LegacyVersion, CurrentVersion} \cup FutureVersions, iv: Nat]

ASSUME SecretsAssumption ==
    /\ NoKey \notin MasterKeys /\ NoToken \notin Secret
    /\ GlobalToken \notin Tokens /\ Nothing \notin Tokens
    /\ LegacyVersion # CurrentVersion /\ {LegacyVersion, CurrentVersion} \cap FutureVersions = {}
    /\ StartTokens \subseteq Secret \cup {NoToken}
    /\ Faults \subseteq FaultKinds /\ MaxFaults \in Nat /\ MaxSaves \in Nat /\ MaxRestarts \in Nat

VARIABLES
    row,       \* telegram_bot_token_* of tenant_settings: a ciphertext or NoToken
    key,       \* the master key of each process
    upgrade,   \* pendingKeyVersionUpgrades: the ciphertext read and the one to write
    delivery,  \* the delivery of each process: where it is, the settings it read and the token it sends with
    ivs,       \* encryptions so far
    meant,     \* for the properties: the token the tenant last saved, or NoToken
    heard,     \* for the properties: every value of meant since each delivery read its settings
    saves, restarts, faults

vars == <<row, key, upgrade, delivery, ivs, meant, heard, saves, restarts, faults>>

NoUpgrade == [read |-> NoToken, write |-> NoToken]
IdleDelivery == [pc |-> "idle", settings |-> NoToken, token |-> Nothing]

TokenOf(secret) == IF secret = NoToken THEN NoToken ELSE secret.token

Init ==
    /\ row \in StartTokens
    /\ key \in [Processes -> MasterKeys \cup {NoKey}]
    /\ upgrade = [p \in Processes |-> NoUpgrade]
    /\ delivery = [p \in Processes |-> IdleDelivery]
    /\ ivs = 0
    /\ meant = TokenOf(row)
    /\ heard = [p \in Processes |-> {}]
    /\ saves = 0 /\ restarts = 0 /\ faults = 0

Fault(kind) ==
    /\ kind \in Faults
    /\ faults < MaxFaults
    /\ faults' = faults + 1

-----------------------------------------------------------------------------
(* TenantSecretsService *)

\* encryptTelegramBotToken: always under the current version.
Encrypt(p, token) == [token |-> token, key |-> key[p], version |-> CurrentVersion, iv |-> ivs + 1]

\* decryptTelegramBotToken: a version it knows, and the key the secret is under.
Opens(p, secret) == secret.version \notin FutureVersions /\ secret.key = key[p]

\* needsKeyVersionUpgrade.
NeedsUpgrade(secret) == secret.version # CurrentVersion

-----------------------------------------------------------------------------
(* PUT /settings *)

\* upsertNotifierSettings: what the columns of the token hold after the upsert.
Upserted(p, operation, token) ==
    CASE operation = "set" -> Encrypt(p, token)
      [] operation = "clear" -> NoToken
      [] OTHER -> row

\* resolveTokenOperation is clear, set or unchanged; one upsert writes the row.
\* Without a master key a set answers 400 before the statement.
Save(p, operation, token) ==
    /\ saves < MaxSaves /\ saves' = saves + 1
    /\ operation = "set" => key[p] # NoKey
    /\ row' = Upserted(p, operation, token)
    /\ ivs' = IF operation = "set" THEN ivs + 1 ELSE ivs
    /\ meant' = CASE operation = "set" -> token [] operation = "clear" -> NoToken [] OTHER -> meant
    /\ heard' = [q \in Processes |-> heard[q] \cup {meant'}]
    /\ UNCHANGED <<key, upgrade, delivery, restarts, faults>>

-----------------------------------------------------------------------------
(* A delivery: TelegramBotTokenResolverService *)

\* getByTenantId.
ReadSettings(p) ==
    /\ delivery[p].pc = "idle"
    /\ delivery' = [delivery EXCEPT ![p] = [pc |-> "resolve", settings |-> row, token |-> Nothing]]
    /\ heard' = [heard EXCEPT ![p] = {meant}]
    /\ UNCHANGED <<row, key, upgrade, ivs, meant, saves, restarts, faults>>

\* Mutant: while an upgrade is under way, the token it decrypted is used again.
ResolvedPending(p, secret) ==
    IF secret = NoToken THEN GlobalToken
    ELSE IF upgrade[p].read # NoToken THEN upgrade[p].read.token
    ELSE IF Opens(p, secret) THEN secret.token ELSE Nothing

\* resolveDetailedForTenant: the operator's token for a tenant without one, and
\* no token for one whose ciphertext does not open.
Resolved(p, secret) ==
    IF secret = NoToken THEN GlobalToken
    ELSE IF Opens(p, secret) THEN secret.token ELSE Nothing

\* The notifier puts the operator's token in the place of one it is not given:
\* isTelegramEnabled asks for the two of them, and so does sendTelegramMessage.
Bot(token) == IF token # Nothing THEN token ELSE GlobalToken

\* The token is resolved, and the upgrade of an old ciphertext is started unless
\* one is under way for the tenant in this process. Telegram is skipped when the
\* notifier has no bot to send with.
Resolve(p) ==
    LET secret == delivery[p].settings
        token  == Resolved(p, secret)
        starts == secret # NoToken /\ Opens(p, secret) /\ NeedsUpgrade(secret) /\ upgrade[p] = NoUpgrade
    IN  /\ delivery[p].pc = "resolve"
        /\ delivery' = [delivery EXCEPT ![p] = IF Bot(token) = Nothing THEN IdleDelivery
                                              ELSE [pc |-> "send", settings |-> secret, token |-> token]]
        /\ upgrade' = IF starts THEN [upgrade EXCEPT ![p] = [read |-> secret, write |-> Encrypt(p, secret.token)]]
                      ELSE upgrade
        /\ ivs' = IF starts THEN ivs + 1 ELSE ivs
        /\ UNCHANGED <<row, key, meant, heard, saves, restarts, faults>>

\* sendTelegramMessage: the message goes out under Bot(delivery[p].token).
Send(p) ==
    /\ delivery[p].pc = "send"
    /\ delivery' = [delivery EXCEPT ![p] = IdleDelivery]
    /\ heard' = [heard EXCEPT ![p] = {}]
    /\ UNCHANGED <<row, key, upgrade, ivs, meant, saves, restarts, faults>>

\* Mutant: the row is written whatever it holds by now.
WriteUpgradeBlind(p) == row' = upgrade[p].write

\* UPDATE ... WHERE ciphertext and key_version are the ones that were read.
WriteUpgrade(p) == row' = IF row = upgrade[p].read THEN upgrade[p].write ELSE row

\* upgradeTelegramBotTokenKeyVersion, and the `finally` that forgets the upgrade.
Upgrade(p) ==
    /\ upgrade[p].read # NoToken
    /\ WriteUpgrade(p)
    /\ upgrade' = [upgrade EXCEPT ![p] = NoUpgrade]
    /\ UNCHANGED <<key, delivery, ivs, meant, heard, saves, restarts, faults>>

\* Mutant: an upgrade that failed stays in the map, although nothing runs it any more.
UpgradeFailsPending(p) ==
    /\ upgrade[p].read # NoToken
    /\ \/ Fault("db_error") /\ UNCHANGED row
       \/ Fault("reply_lost") /\ WriteUpgrade(p)
    /\ upgrade' = [upgrade EXCEPT ![p].read = NoToken]
    /\ UNCHANGED <<key, delivery, ivs, meant, heard, saves, restarts>>

\* The UPDATE fails, or its answer is lost: logged, and tried again by the next read.
UpgradeFails(p) ==
    /\ upgrade[p].read # NoToken
    /\ \/ Fault("db_error") /\ UNCHANGED row
       \/ Fault("reply_lost") /\ WriteUpgrade(p)
    /\ upgrade' = [upgrade EXCEPT ![p] = NoUpgrade]
    /\ UNCHANGED <<key, delivery, ivs, meant, heard, saves, restarts>>

\* A process restarts, with the same or another master key.
Restart(p, k) ==
    /\ restarts < MaxRestarts /\ restarts' = restarts + 1
    /\ key' = [key EXCEPT ![p] = k]
    /\ upgrade' = [upgrade EXCEPT ![p] = NoUpgrade]
    /\ delivery' = [delivery EXCEPT ![p] = IdleDelivery]
    /\ heard' = [heard EXCEPT ![p] = {}]
    /\ UNCHANGED <<row, ivs, meant, saves, faults>>

-----------------------------------------------------------------------------

DeliveryStep(p) == ReadSettings(p) \/ Resolve(p) \/ Send(p)

Next ==
    \/ \E p \in Processes, token \in Tokens : Save(p, "set", token)
    \/ \E p \in Processes, operation \in {"clear", "unchanged"} : Save(p, operation, NoToken)
    \/ \E p \in Processes : DeliveryStep(p) \/ Upgrade(p) \/ UpgradeFails(p)
    \/ \E p \in Processes, k \in MasterKeys \cup {NoKey} : Restart(p, k)

Spec == Init /\ [][Next]_vars

\* Alerts keep coming for the tenant, and every process delivers some of them.
FairSpec == Spec /\ \A p \in Processes : WF_vars(DeliveryStep(p)) /\ WF_vars(Upgrade(p))

-----------------------------------------------------------------------------
(* Properties *)

\* The types of the variables that hold ciphertexts, and of what encryption needs.
TypeOK ==
    /\ row \in Secret \cup {NoToken}
    /\ key \in [Processes -> MasterKeys \cup {NoKey}]
    /\ upgrade \in [Processes -> [read: Secret \cup {NoToken}, write: Secret \cup {NoToken}]]
    /\ delivery \in [Processes -> [pc: {"idle", "resolve", "send"}, settings: Secret \cup {NoToken},
                                   token: Tokens \cup {GlobalToken, Nothing}]]
    /\ ivs \in Nat

\* The stored ciphertext is of the token the tenant saved last, and there is
\* none once it was cleared: an upgrade that was read before a save or a clear
\* never brings an old token back, also with upgrades of several processes at
\* once (the compare-and-swap on ciphertext and key version).
TokensStay == TokenOf(row) = meant

\* The bot of a message is one the tenant had at some moment since the delivery
\* read the settings, or the operator's for a tenant that had none.
OwnBot(p) ==
    LET bot == Bot(delivery[p].token)
    IN  bot \in heard[p] \/ (bot = GlobalToken /\ NoToken \in heard[p])

\* A ciphertext that opens is sent with: whatever is saved, cleared or upgraded
\* meanwhile, a message goes out under a bot the tenant had since the delivery
\* read the settings, and under the operator's only if the tenant had none or the
\* ciphertext that was read does not open in this process.
BotsFollowSettings ==
    \A p \in Processes : delivery[p].pc = "send" =>
        \/ OwnBot(p)
        \/ /\ Bot(delivery[p].token) = GlobalToken
           /\ delivery[p].settings # NoToken /\ ~Opens(p, delivery[p].settings)

\* What the resolver's comment says of a ciphertext that does not open, "Never the
\* global token": no message of a tenant with a bot of its own goes out under the
\* operator's.
BotsAreTheTenants ==
    \A p \in Processes : delivery[p].pc = "send" => OwnBot(p)

\* A ciphertext of the legacy version that some process can open is rewritten
\* under the current one, however many upgrades fail or are lost on the way.
LegacyIsUpgraded ==
    <>[](row # NoToken /\ row.version = LegacyVersion => \A p \in Processes : ~Opens(p, row))
=============================================================================
