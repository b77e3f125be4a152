--------------------------- MODULE GoogleAccounts ---------------------------
(***************************************************************************)
(* The Google accounts of one household: a consent is kept in two tables,  *)
(* google_calendar_accounts (the row) and connector_credentials (the       *)
(* encrypted refresh token), written and deleted one after the other, and  *)
(* the credential key is rotated by re-encrypting every stored secret.     *)
(*                                                                         *)
(* Refresh tokens of an account are numbered in the order Google issued    *)
(* them.  Each belongs to one OAuth callback, which asks Google for the    *)
(* account before it stores anything; callbacks may overlap.  A            *)
(* save_ciphertext transaction either commits as if alone or is refused by *)
(* the unique key, which is a failure of its caller.                       *)
(***************************************************************************)
EXTENDS Integers

CONSTANTS
  NumAccounts,  \* emails, in the order the repositories return them
  MaxConsent,   \* bound: consents of one account
  MaxFaults     \* bound: failures

ASSUME AccountLimits == NumAccounts \in Nat /\ MaxConsent \in Nat /\ MaxFaults \in Nat

VARIABLES
  minted,      \* last refresh token Google issued to the account
  secret,      \* connector_credentials: a token under a key, or NoSecret
  row,         \* accounts that have a row
  callback,    \* where the callback of each refresh token is
  forgetting,  \* forget (one at a time) is between its two deletes
  keys,        \* configured keys: the old one, both (new first), the new one
  rotating,    \* a rotation is under way
  pending,     \* the tokens it read and has not written back, 0 for none
  rotated,     \* a rotation under both keys has returned
  excuse,      \* history: why row and secret of an account may disagree
  faults       \* history: failures so far

accountVars == <<minted, secret, row, callback, forgetting, keys, rotating,
                 pending, rotated, excuse, faults>>

Email    == 1 .. NumAccounts
Token    == 1 .. MaxConsent
Key      == {"old", "new"}
NoSecret == [token |-> 0, key |-> "new"]
\* none: no such token yet; lookup: Google is asked for the account; row: the
\* secret is stored, the row is not; failed: ended without storing the secret.
Stage    == {"none", "lookup", "row", "stored", "failed"}
\* cut: a register or forget was interrupted or ran across the other; crossed:
\* a consent was given before the callback of another had stored its secret;
\* rotated: a rotation had read the secret before it changed.
Cause    == {"cut", "crossed", "rotated"}

AccountsTypeOK ==
  /\ minted \in [Email -> 0 .. MaxConsent]
  /\ secret \in [Email -> [token : Token, key : Key] \cup {NoSecret}]
  /\ row \subseteq Email /\ forgetting \subseteq Email
  /\ callback \in [Email -> [Token -> Stage]]
  /\ keys \in {"old", "both", "new"}
  /\ rotating \in BOOLEAN /\ rotated \in BOOLEAN
  /\ pending \in [Email -> 0 .. MaxConsent]
  /\ excuse \in [Email -> SUBSET Cause]
  /\ faults \in 0 .. MaxFaults

AccountsInit ==
  /\ minted = [e \in Email |-> 0]
  /\ secret = [e \in Email |-> NoSecret]
  /\ row = {} /\ forgetting = {}
  /\ callback = [e \in Email |-> [t \in Token |-> "none"]]
  /\ keys = "old"
  /\ rotating = FALSE /\ rotated = FALSE
  /\ pending = [e \in Email |-> 0]
  /\ excuse = [e \in Email |-> {}]
  /\ faults = 0

-----------------------------------------------------------------------------
Stored(e)  == secret[e].token # 0
Readable(key) == key = "old" => keys # "new"

\* Mutant: the fallback key encrypts while both are configured.
PrimaryFallback == IF keys = "new" THEN "new" ELSE "old"
\* MultiFernet encrypts with the first key.
Primary    == IF keys = "old" THEN "old" ELSE "new"
Sealed(t)  == [token |-> t, key |-> Primary]

Fault == faults < MaxFaults /\ faults' = faults + 1

Asking(e)     == {t \in Token : callback[e][t] = "lookup"}
Connecting(e) == \E t \in Token : callback[e][t] = "row"
CutIf(cond)   == IF cond THEN {"cut"} ELSE {}

\* A change of the stored secret that a rotation will overwrite.
Overtaken(e) == IF pending[e] # 0 THEN {"rotated"} ELSE {}

-----------------------------------------------------------------------------
(* GoogleCalendarAccountService.                                           *)

\* A member consents, and exchange_code gets a refresh token.
Mint(e) ==
  /\ minted[e] < MaxConsent
  /\ minted' = [minted EXCEPT ![e] = @ + 1]
  /\ callback' = [callback EXCEPT ![e][minted[e] + 1] = "lookup"]
  /\ excuse' = [excuse EXCEPT ![e] = @ \cup (IF Asking(e) # {} THEN {"crossed"} ELSE {})]
  /\ UNCHANGED <<secret, row, forgetting, keys, rotating, pending, rotated, faults>>

\* A newest token whose callback no other can follow settles an old crossing.
Crossed(e, t) ==
  IF t = minted[e] /\ Asking(e) = {t} THEN {} ELSE excuse[e] \cap {"crossed"}

\* Mutant: a stored secret is not overwritten.
RegisterSetOnce(e, t) ==
  /\ t \in Asking(e)
  /\ secret' = IF Stored(e) THEN secret ELSE [secret EXCEPT ![e] = Sealed(t)]
  /\ callback' = [callback EXCEPT ![e][t] = "row"]
  /\ excuse' = [excuse EXCEPT ![e] =
       Overtaken(e) \cup Crossed(e, t) \cup CutIf(e \in forgetting)]
  /\ UNCHANGED <<minted, row, forgetting, keys, rotating, pending, rotated, faults>>

\* Google has named the account; its secret is stored or overwritten.
RegisterSet(e, t) ==
  /\ t \in Asking(e)
  /\ secret' = [secret EXCEPT ![e] = Sealed(t)]
  /\ callback' = [callback EXCEPT ![e][t] = "row"]
  /\ excuse' = [excuse EXCEPT ![e] =
       Overtaken(e) \cup Crossed(e, t) \cup CutIf(e \in forgetting)]
  /\ UNCHANGED <<minted, row, forgetting, keys, rotating, pending, rotated, faults>>

RegisterRow(e, t) ==
  /\ callback[e][t] = "row"
  /\ row' = row \cup {e}
  /\ callback' = [callback EXCEPT ![e][t] = "stored"]
  /\ UNCHANGED <<minted, secret, forgetting, keys, rotating, pending, rotated,
                 excuse, faults>>

\* Mutant: forgetting stores an empty secret.
ForgetSecretEmpties(e) ==
  /\ e \notin forgetting /\ (Stored(e) \/ e \in row)
  /\ secret' = [secret EXCEPT ![e] = Sealed(0)]
  /\ forgetting' = forgetting \cup {e}
  /\ excuse' = [excuse EXCEPT ![e] =
       Overtaken(e) \cup (@ \cap {"crossed"}) \cup CutIf(Connecting(e))]
  /\ UNCHANGED <<minted, row, callback, keys, rotating, pending, rotated, faults>>

ForgetSecret(e) ==
  /\ e \notin forgetting /\ (Stored(e) \/ e \in row)
  /\ secret' = [secret EXCEPT ![e] = NoSecret]
  /\ forgetting' = forgetting \cup {e}
  /\ excuse' = [excuse EXCEPT ![e] =
       Overtaken(e) \cup (@ \cap {"crossed"}) \cup CutIf(Connecting(e))]
  /\ UNCHANGED <<minted, row, callback, keys, rotating, pending, rotated, faults>>

\* Mutant: the row outlives its credential.
ForgetRowKept(e) ==
  /\ e \in forgetting
  /\ forgetting' = forgetting \ {e}
  /\ UNCHANGED <<minted, secret, row, callback, keys, rotating, pending, rotated,
                 excuse, faults>>

ForgetRow(e) ==
  /\ e \in forgetting
  /\ row' = row \ {e}
  /\ forgetting' = forgetting \ {e}
  /\ UNCHANGED <<minted, secret, callback, keys, rotating, pending, rotated,
                 excuse, faults>>

Ended(stage) ==
  CASE stage = "lookup" -> "failed" [] stage = "row" -> "stored" [] OTHER -> stage

\* The lookup, the store or the row's transaction fails.
CallbackFails(e, t) ==
  /\ callback[e][t] \in {"lookup", "row"}
  /\ Fault
  /\ callback' = [callback EXCEPT ![e][t] = Ended(@)]
  /\ excuse' = [excuse EXCEPT ![e] = @ \cup CutIf(callback[e][t] = "row")]
  /\ UNCHANGED <<minted, secret, row, forgetting, keys, rotating, pending, rotated>>

ForgetFails(e) ==
  /\ e \in forgetting
  /\ Fault
  /\ forgetting' = forgetting \ {e}
  /\ excuse' = [excuse EXCEPT ![e] = @ \cup {"cut"}]
  /\ UNCHANGED <<minted, secret, row, callback, keys, rotating, pending, rotated>>

-----------------------------------------------------------------------------
(* ConnectorCredentialService.rotate and the documented key change.        *)

RotateRead ==
  /\ ~rotating
  /\ rotating' = TRUE
  /\ pending' = [e \in Email |-> secret[e].token]
  /\ UNCHANGED <<minted, secret, row, callback, forgetting, keys, rotated,
                 excuse, faults>>

\* The next secret that was read is written back under the primary key.
RotateWrite(e) ==
  /\ pending[e] # 0 /\ \A f \in Email : f < e => pending[f] = 0
  /\ secret' = [secret EXCEPT ![e] = Sealed(pending[e])]
  /\ pending' = [pending EXCEPT ![e] = 0]
  /\ UNCHANGED <<minted, row, callback, forgetting, keys, rotating, rotated,
                 excuse, faults>>

RotateReturn ==
  /\ rotating /\ \A e \in Email : pending[e] = 0
  /\ rotating' = FALSE
  /\ rotated' = (rotated \/ keys = "both")
  /\ UNCHANGED <<minted, secret, row, callback, forgetting, keys, pending,
                 excuse, faults>>

RotateFails ==
  /\ rotating
  /\ Fault
  /\ rotating' = FALSE
  /\ pending' = [e \in Email |-> 0]
  /\ UNCHANGED <<minted, secret, row, callback, forgetting, keys, rotated, excuse>>

\* The pod restarts with another key list: the new key goes first, and the old
\* one goes away once a rotation has returned.
ChangeKeys ==
  /\ \/ keys = "old" /\ keys' = "both"
     \/ keys = "both" /\ rotated /\ keys' = "new"
  /\ callback' = [e \in Email |-> [t \in Token |-> Ended(callback[e][t])]]
  /\ forgetting' = {}
  /\ excuse' = [e \in Email |-> excuse[e] \cup CutIf(Connecting(e) \/ e \in forgetting)]
  /\ rotating' = FALSE
  /\ pending' = [e \in Email |-> 0]
  /\ UNCHANGED <<minted, secret, row, rotated, faults>>

-----------------------------------------------------------------------------
MemberStep ==
  \E e \in Email :
    \/ Mint(e) \/ ForgetSecret(e) \/ ForgetRow(e) \/ ForgetFails(e)
    \/ \E t \in Token : RegisterSet(e, t) \/ RegisterRow(e, t) \/ CallbackFails(e, t)

RotationStep ==
  \/ RotateRead \/ RotateReturn \/ RotateFails \/ ChangeKeys
  \/ \E e \in Email : RotateWrite(e)

AccountsSpec == AccountsInit /\ [][MemberStep \/ RotationStep]_accountVars

-----------------------------------------------------------------------------
(***************************************************************************)
(* Whatever consents, forgets and failed rotations happen on the way, no   *)
(* stored secret is ever out of reach of the configured keys: dropping the *)
(* old key after a rotation has returned (deployment.md) loses none.       *)
(***************************************************************************)
SecretsReadable == \A e \in Email : Stored(e) => Readable(secret[e].key)

(***************************************************************************)
(* An account has a row exactly when it has a secret, except inside a      *)
(* register or forget, and after one was interrupted, ran across another,  *)
(* or changed a secret a rotation had read.  A row without a secret makes  *)
(* credentials_for_household refuse the whole household.                   *)
(***************************************************************************)
RowAndSecretAgree ==
  \A e \in Email \ forgetting :
    excuse[e] \subseteq {"crossed"} /\ ~Connecting(e) => (e \in row <=> Stored(e))

(***************************************************************************)
(* No consent later than the stored one has been stored: a later one is    *)
(* still being looked up, or its callback failed before it was stored.     *)
(* Two events excuse more: a rotation that had read an older token wrote   *)
(* it back, and callbacks that overlapped may have stored in the other     *)
(* order.                                                                  *)
(***************************************************************************)
LatestConsentIsStored ==
  \A e \in Email :
    Stored(e) /\ excuse[e] \subseteq {"cut"} =>
      \A t \in Token : t > secret[e].token => callback[e][t] \in {"none", "lookup", "failed"}
=============================================================================
