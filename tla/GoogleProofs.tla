--------------------------- MODULE GoogleProofs ---------------------------
(***************************************************************************)
(* Proofs about GoogleAccounts, for any number of accounts, consents and   *)
(* failures, and about GoogleSync, which extends it: what the stored       *)
(* positions have passed was reported, whatever was deleted.               *)
(***************************************************************************)
EXTENDS GoogleSync, TLAPS

-----------------------------------------------------------------------------
(* Accounts: the inductive invariant.                                      *)

\* What a rotation under both keys has not yet reached is in its hands, and
\* once one has returned no secret is left under the old key.
KeyInv ==
  /\ rotated => keys # "old" /\ \A e \in Email : secret[e].key = "new"
  /\ keys = "new" => rotated
  /\ rotating /\ keys = "both" =>
       \A e \in Email : secret[e].key = "old" => pending[e] # 0
  /\ ~rotating => \A e \in Email : pending[e] = 0

\* A secret a rotation has read is still the stored one, or the change is noted.
PendingInv ==
  \A e \in Email :
    pending[e] # 0 /\ "rotated" \notin excuse[e] => secret[e].token = pending[e]

\* Between its two statements a request has done the first one, unless noted.
MidwayInv ==
  \A e \in Email :
    excuse[e] \subseteq {"crossed"} =>
      /\ Connecting(e) => Stored(e) /\ e \notin forgetting
      /\ e \in forgetting => ~Stored(e)

\* Callbacks have tokens Google has issued, and the only one still looking its
\* account up has the latest, unless callbacks overlapped.
CallbackInv ==
  \A e \in Email : \A t \in Token :
    /\ t > minted[e] => callback[e][t] = "none"
    /\ "crossed" \notin excuse[e] /\ callback[e][t] = "lookup" => t = minted[e]

AccountsInv ==
  /\ AccountsTypeOK /\ KeyInv /\ PendingInv /\ MidwayInv /\ CallbackInv
  /\ RowAndSecretAgree /\ LatestConsentIsStored

-----------------------------------------------------------------------------
(* Accounts: facts about the operators.                                    *)

\* Under two keys, and under the new one, a secret is sealed with the new key.
LEMMA SealedKey ==
  ASSUME NEW t
  PROVE  /\ Sealed(t).token = t
         /\ Sealed(t).key \in Key
         /\ keys # "old" => Sealed(t).key = "new"
  BY DEF Sealed, Primary, Key

\* A sealed token is a stored secret.
LEMMA SealedType ==
  ASSUME NEW t \in Token
  PROVE  Sealed(t) \in [token : Token, key : Key] \cup {NoSecret}
  BY DEF Sealed, Primary, Key

-----------------------------------------------------------------------------
(* Accounts: every step keeps the invariant.                               *)

\* Nothing is stored, nothing is under way.
LEMMA AccountsInitInv == AccountsInit => AccountsInv
<1> SUFFICES ASSUME AccountsInit PROVE AccountsInv
  OBVIOUS
<1> USE AccountLimits DEF AccountsInit
<1>1. AccountsTypeOK
  <2>1. 0 \in 0 .. MaxConsent /\ 0 \in 0 .. MaxFaults /\ "none" \in Stage
    BY DEF Stage
  <2>2. \A S, T, v : v \in T => [e \in S |-> v] \in [S -> T]
    OBVIOUS
  <2>3. [t \in Token |-> "none"] \in [Token -> Stage]
    BY <2>1
  <2>4. QED
    BY Zenon, <2>1, <2>2, <2>3 DEF AccountsTypeOK
<1>2. NoSecret.token = 0 /\ NoSecret.key = "new"
  BY DEF NoSecret
<1>3. KeyInv /\ PendingInv /\ MidwayInv /\ CallbackInv
  BY <1>2 DEF KeyInv, PendingInv, MidwayInv, CallbackInv, Connecting, Stored
<1>4. RowAndSecretAgree /\ LatestConsentIsStored
  BY <1>2 DEF RowAndSecretAgree, LatestConsentIsStored, Stored
<1>5. QED
  BY <1>1, <1>3, <1>4 DEF AccountsInv

\* One callback moves, the others stay where they are.
LEMMA CallbackMoves ==
  ASSUME callback \in [Email -> [Token -> Stage]],
         NEW e \in Email, NEW t \in Token, NEW stage \in Stage,
         callback' = [callback EXCEPT ![e][t] = stage]
  PROVE  /\ callback' \in [Email -> [Token -> Stage]]
         /\ callback'[e][t] = stage
         /\ \A f \in Email : \A u \in Token : (f # e \/ u # t) => callback'[f][u] = callback[f][u]
  OBVIOUS

\* The new token's callback has still to find its account.
LEMMA MintStep ==
  ASSUME AccountsInv, NEW e \in Email, Mint(e)
  PROVE  AccountsInv'
<1> USE AccountLimits DEF AccountsInv
<1> DEFINE new == minted[e] + 1
<1>1. /\ new \in Token /\ minted' = [minted EXCEPT ![e] = new] /\ minted[e] \in 0 .. MaxConsent
      /\ callback' = [callback EXCEPT ![e][new] = "lookup"] /\ "lookup" \in Stage
      /\ excuse' = [excuse EXCEPT ![e] = @ \cup (IF Asking(e) # {} THEN {"crossed"} ELSE {})]
      /\ UNCHANGED <<secret, row, forgetting, keys, rotating, pending, rotated, faults>>
  BY DEF Mint, AccountsTypeOK, Token, Stage
<1>2. callback[e][new] = "none"
  BY <1>1 DEF CallbackInv
<1>3. /\ callback' \in [Email -> [Token -> Stage]]
      /\ callback'[e][new] = "lookup"
      /\ \A f \in Email : \A u \in Token : (f # e \/ u # new) => callback'[f][u] = callback[f][u]
      /\ \A f \in Email : Connecting(f)' <=> Connecting(f)
  BY <1>1, <1>2, CallbackMoves DEF AccountsTypeOK, Connecting
<1>4. AccountsTypeOK'
  <2>1. minted' \in [Email -> 0 .. MaxConsent]
    BY <1>1 DEF AccountsTypeOK, Token
  <2>2. excuse' \in [Email -> SUBSET Cause]
    BY <1>1 DEF AccountsTypeOK, Cause
  <2>3. QED
    BY <1>1, <1>3, <2>1, <2>2 DEF AccountsTypeOK
<1>5. KeyInv' /\ PendingInv'
  BY <1>1 DEF KeyInv, PendingInv, AccountsTypeOK
<1>6. \A f \in Email : \A S : excuse'[f] \subseteq S => excuse[f] \subseteq S
  BY <1>1 DEF AccountsTypeOK
<1>7. MidwayInv' /\ RowAndSecretAgree'
  BY <1>1, <1>3, <1>6 DEF MidwayInv, RowAndSecretAgree, Stored
<1>8. CallbackInv'
  <2> SUFFICES ASSUME NEW f \in Email, NEW t \in Token
               PROVE  /\ t > minted'[f] => callback'[f][t] = "none"
                      /\ "crossed" \notin excuse'[f] /\ callback'[f][t] = "lookup" => t = minted'[f]
    BY DEF CallbackInv
  <2>1. CASE f # e
    BY <1>1, <1>3, <2>1 DEF CallbackInv, AccountsTypeOK
  <2>2. CASE f = e
    <3>1. minted'[e] = new /\ t \in Int
      BY <1>1 DEF AccountsTypeOK, Token
    <3>2. t > new => callback'[e][t] = "none"
      BY <1>1, <1>3, <3>1 DEF CallbackInv
    <3>3. ASSUME "crossed" \notin excuse'[e], callback'[e][t] = "lookup", t # new
          PROVE  FALSE
      <4>1. callback[e][t] = "lookup" /\ t \in Asking(e)
        BY <1>3, <3>3 DEF Asking
      <4>2. "crossed" \in excuse'[e]
        BY <1>1, <4>1 DEF AccountsTypeOK
      <4>3. QED
        BY <3>3, <4>2
    <3>4. QED
      BY <2>2, <3>1, <3>2, <3>3
  <2>3. QED
    BY <2>1, <2>2
<1>9. LatestConsentIsStored'
  BY <1>1, <1>3, <1>6 DEF LatestConsentIsStored, Stored
<1>10. QED
  BY <1>4, <1>5, <1>7, <1>8, <1>9

\* The token stored is the latest unless callbacks overlapped, and it is stored
\* before the row.
LEMMA RegisterSetStep ==
  ASSUME AccountsInv, NEW e \in Email, NEW t \in Token, RegisterSet(e, t)
  PROVE  AccountsInv'
<1> USE AccountLimits DEF AccountsInv
<1>1. /\ callback[e][t] = "lookup" /\ "row" \in Stage
      /\ secret' = [secret EXCEPT ![e] = Sealed(t)]
      /\ Sealed(t).token = t /\ t > 0 /\ t \in Int
      /\ keys # "old" => Sealed(t).key = "new"
      /\ callback' = [callback EXCEPT ![e][t] = "row"]
      /\ excuse' = [excuse EXCEPT ![e] = Overtaken(e) \cup Crossed(e, t) \cup CutIf(e \in forgetting)]
      /\ UNCHANGED <<minted, row, forgetting, keys, rotating, pending, rotated, faults>>
  BY SealedKey DEF RegisterSet, Asking, Token, Stage
<1>2. /\ callback' \in [Email -> [Token -> Stage]]
      /\ callback'[e][t] = "row"
      /\ \A f \in Email : \A u \in Token : (f # e \/ u # t) => callback'[f][u] = callback[f][u]
      /\ \A f \in Email \ {e} : Connecting(f)' <=> Connecting(f)
  BY <1>1, CallbackMoves DEF AccountsTypeOK, Connecting
<1>3. /\ \A f \in Email \ {e} : secret'[f] = secret[f] /\ excuse'[f] = excuse[f]
      /\ secret'[e] = Sealed(t)
      /\ excuse'[e] = Overtaken(e) \cup Crossed(e, t) \cup CutIf(e \in forgetting)
  BY <1>1 DEF AccountsTypeOK
<1>4. AccountsTypeOK'
  <2>1. Crossed(e, t) \cup Overtaken(e) \cup CutIf(e \in forgetting) \subseteq Cause
    BY DEF Crossed, Overtaken, CutIf, Cause
  <2>2. Sealed(t) \in [token : Token, key : Key] \cup {NoSecret}
    BY SealedType
  <2>3. QED
    BY <1>1, <1>2, <2>1, <2>2 DEF AccountsTypeOK
<1>5. KeyInv'
  BY <1>1, <1>3 DEF KeyInv
<1>6. PendingInv'
  BY <1>1, <1>3 DEF PendingInv, Overtaken
<1>7. MidwayInv' /\ RowAndSecretAgree'
  <2>1. Connecting(e)'
    BY <1>2 DEF Connecting
  <2>2. Stored(e)' /\ \A f \in Email \ {e} : Stored(f)' <=> Stored(f)
    BY <1>1, <1>3 DEF Stored
  <2>3. excuse'[e] \subseteq {"crossed"} => e \notin forgetting
    BY <1>3 DEF CutIf
  <2>4. QED
    BY <1>1, <1>2, <1>3, <2>1, <2>2, <2>3 DEF MidwayInv, RowAndSecretAgree
<1>8. "crossed" \notin excuse'[e] =>
        t = minted[e] /\ \A u \in Token : u # t => callback[e][u] # "lookup"
  <2>1. "crossed" \notin excuse'[e] =>
          "crossed" \notin excuse[e] \/ (t = minted[e] /\ Asking(e) = {t})
    BY <1>3 DEF Crossed
  <2>2. "crossed" \notin excuse[e] =>
          t = minted[e] /\ \A u \in Token : u # t => callback[e][u] # "lookup"
    BY <1>1 DEF CallbackInv
  <2>3. Asking(e) = {t} => \A u \in Token : u # t => callback[e][u] # "lookup"
    BY DEF Asking
  <2>4. QED
    BY <2>1, <2>2, <2>3
<1>9. CallbackInv'
  BY <1>1, <1>2, <1>3, <1>8 DEF CallbackInv, Token, AccountsTypeOK
<1>10. LatestConsentIsStored'
  <2>1. ASSUME excuse'[e] \subseteq {"cut"}, NEW u \in Token, u > t
        PROVE  callback'[e][u] = "none"
    BY <1>1, <1>2, <1>8, <2>1 DEF CallbackInv
  <2>2. QED
    BY <1>1, <1>2, <1>3, <2>1 DEF LatestConsentIsStored, Stored
<1>11. QED
  BY <1>4, <1>5, <1>6, <1>7, <1>9, <1>10

\* The row joins a secret that is there.
LEMMA RegisterRowStep ==
  ASSUME AccountsInv, NEW e \in Email, NEW t \in Token, RegisterRow(e, t)
  PROVE  AccountsInv'
<1> USE DEF AccountsInv
<1>1. /\ callback[e][t] = "row" /\ row' = row \cup {e} /\ "stored" \in Stage
      /\ callback' = [callback EXCEPT ![e][t] = "stored"]
      /\ UNCHANGED <<minted, secret, forgetting, keys, rotating, pending, rotated, excuse, faults>>
  BY DEF RegisterRow, Stage
<1>2. /\ callback' \in [Email -> [Token -> Stage]]
      /\ callback'[e][t] = "stored"
      /\ \A f \in Email : \A u \in Token : (f # e \/ u # t) => callback'[f][u] = callback[f][u]
      /\ \A f \in Email : Connecting(f)' => Connecting(f)
      /\ \A f \in Email \ {e} : Connecting(f)' <=> Connecting(f)
  BY <1>1, CallbackMoves DEF AccountsTypeOK, Connecting
<1>3. AccountsTypeOK' /\ KeyInv' /\ PendingInv' /\ CallbackInv' /\ LatestConsentIsStored'
  <2>1. AccountsTypeOK'
    BY <1>1, <1>2 DEF AccountsTypeOK
  <2>2. KeyInv' /\ PendingInv'
    BY <1>1 DEF KeyInv, PendingInv
  <2>3. CallbackInv'
    BY <1>1, <1>2 DEF CallbackInv
  <2>4. LatestConsentIsStored'
    BY <1>1, <1>2 DEF LatestConsentIsStored, Stored
  <2>5. QED
    BY <2>1, <2>2, <2>3, <2>4
<1>4. Connecting(e)
  BY <1>1 DEF Connecting
<1>5. MidwayInv' /\ RowAndSecretAgree'
  BY <1>1, <1>2, <1>4 DEF MidwayInv, RowAndSecretAgree, Stored
<1>6. QED
  BY <1>3, <1>5

\* No secret is left, whatever a rotation has read.
LEMMA ForgetSecretStep ==
  ASSUME AccountsInv, NEW e \in Email, ForgetSecret(e)
  PROVE  AccountsInv'
<1> USE DEF AccountsInv, AccountsTypeOK, ForgetSecret
<1>1. /\ NoSecret.token = 0 /\ NoSecret.key = "new"
      /\ \A f \in Email : Connecting(f)' <=> Connecting(f)
  BY DEF NoSecret, Connecting
<1>2. AccountsTypeOK'
  BY DEF Overtaken, CutIf, Cause
<1>3. KeyInv'
  BY <1>1 DEF KeyInv
<1>4. PendingInv'
  BY DEF PendingInv, Overtaken
<1>5. MidwayInv'
  BY <1>1 DEF MidwayInv, Stored, Overtaken, CutIf
<1>6. CallbackInv'
  BY DEF CallbackInv
<1>7. RowAndSecretAgree'
  BY <1>1 DEF RowAndSecretAgree, Stored
<1>8. LatestConsentIsStored'
  BY <1>1 DEF LatestConsentIsStored, Stored
<1>9. QED
  BY <1>2, <1>3, <1>4, <1>5, <1>6, <1>7, <1>8

\* The row follows its secret.
LEMMA ForgetRowStep ==
  ASSUME AccountsInv, NEW e \in Email, ForgetRow(e)
  PROVE  AccountsInv'
<1> USE DEF AccountsInv, ForgetRow
<1>1. AccountsTypeOK' /\ KeyInv' /\ PendingInv' /\ CallbackInv' /\ LatestConsentIsStored'
  BY DEF AccountsTypeOK, KeyInv, PendingInv, CallbackInv, LatestConsentIsStored, Stored
<1>2. MidwayInv' /\ RowAndSecretAgree'
  BY DEF MidwayInv, RowAndSecretAgree, Stored, Connecting
<1>3. QED
  BY <1>1, <1>2

\* A forget that stops leaves a note.
LEMMA ForgetFailsStep ==
  ASSUME AccountsInv, NEW e \in Email, ForgetFails(e)
  PROVE  AccountsInv'
<1> USE AccountLimits DEF AccountsInv, ForgetFails
<1>1. AccountsTypeOK'
  BY DEF AccountsTypeOK, Fault, Cause
<1>2. KeyInv' /\ PendingInv' /\ CallbackInv' /\ LatestConsentIsStored'
  BY DEF AccountsTypeOK, KeyInv, PendingInv, CallbackInv, LatestConsentIsStored, Stored
<1>3. MidwayInv' /\ RowAndSecretAgree'
  BY DEF AccountsTypeOK, MidwayInv, RowAndSecretAgree, Stored, Connecting
<1>4. QED
  BY <1>1, <1>2, <1>3

\* A callback that stops has stored nothing, or leaves a note.
LEMMA CallbackFailsStep ==
  ASSUME AccountsInv, NEW e \in Email, NEW t \in Token, CallbackFails(e, t)
  PROVE  AccountsInv'
<1> USE AccountLimits DEF AccountsInv
<1> DEFINE stage == callback[e][t]
<1>1. /\ stage \in {"lookup", "row"} /\ faults' \in 0 .. MaxFaults
      /\ callback' = [callback EXCEPT ![e][t] = Ended(stage)]
      /\ Ended(stage) \in Stage \ {"none", "row", "lookup"}
      /\ stage = "lookup" => Ended(stage) = "failed"
      /\ excuse' = [excuse EXCEPT ![e] = @ \cup CutIf(stage = "row")]
      /\ UNCHANGED <<minted, secret, row, forgetting, keys, rotating, pending, rotated>>
  BY DEF CallbackFails, Fault, AccountsTypeOK, Ended, Stage
<1>2. /\ callback' \in [Email -> [Token -> Stage]]
      /\ callback'[e][t] = Ended(stage)
      /\ \A f \in Email : \A u \in Token : (f # e \/ u # t) => callback'[f][u] = callback[f][u]
      /\ \A f \in Email \ {e} : Connecting(f)' <=> Connecting(f)
      /\ Connecting(e)' => Connecting(e)
      /\ stage # "row" => (Connecting(e) => Connecting(e)')
  BY <1>1, CallbackMoves DEF AccountsTypeOK, Connecting
<1>3. /\ \A f \in Email \ {e} : excuse'[f] = excuse[f]
      /\ excuse'[e] = excuse[e] \cup CutIf(stage = "row")
  BY <1>1 DEF AccountsTypeOK
<1>4. AccountsTypeOK'
  BY <1>1, <1>2 DEF AccountsTypeOK, CutIf, Cause
<1>5. KeyInv' /\ PendingInv'
  BY <1>1, <1>3 DEF KeyInv, PendingInv
<1>6. CallbackInv'
  BY <1>1, <1>2, <1>3 DEF CallbackInv
<1>7. excuse'[e] \subseteq {"crossed"} => stage # "row"
  BY <1>3 DEF CutIf
<1>8. MidwayInv' /\ RowAndSecretAgree'
  BY <1>1, <1>2, <1>3, <1>7 DEF MidwayInv, RowAndSecretAgree, Stored
<1>9. LatestConsentIsStored'
  BY <1>1, <1>2, <1>3 DEF LatestConsentIsStored, Stored
<1>10. QED
  BY <1>4, <1>5, <1>6, <1>8, <1>9

\* A rotation has every stored secret in its hands.
LEMMA RotateReadStep ==
  ASSUME AccountsInv, RotateRead
  PROVE  AccountsInv'
<1> USE DEF AccountsInv, AccountsTypeOK, RotateRead
<1>1. \A e \in Email : secret[e].token \in 0 .. MaxConsent /\ (secret[e].key = "old" => Stored(e))
  BY AccountLimits DEF Token, NoSecret, Stored
<1>2. AccountsTypeOK' /\ KeyInv' /\ PendingInv'
  BY <1>1 DEF KeyInv, PendingInv, Stored
<1>3. MidwayInv' /\ CallbackInv' /\ RowAndSecretAgree' /\ LatestConsentIsStored'
  BY DEF MidwayInv, CallbackInv, RowAndSecretAgree, LatestConsentIsStored, Stored, Connecting
<1>4. QED
  BY <1>2, <1>3

\* What is written back is what is stored, unless the change was noted.
LEMMA RotateWriteStep ==
  ASSUME AccountsInv, NEW e \in Email, RotateWrite(e)
  PROVE  AccountsInv'
<1> USE DEF AccountsInv, AccountsTypeOK, RotateWrite
<1>1. /\ pending[e] \in Token
      /\ secret' = [secret EXCEPT ![e] = Sealed(pending[e])]
      /\ Sealed(pending[e]).token = pending[e]
      /\ keys # "old" => Sealed(pending[e]).key = "new"
  BY SealedKey, AccountLimits DEF Token
<1>2. AccountsTypeOK'
  <2>1. Sealed(pending[e]) \in [token : Token, key : Key] \cup {NoSecret}
    BY <1>1, SealedType
  <2>2. secret' \in [Email -> [token : Token, key : Key] \cup {NoSecret}]
    BY <1>1, <2>1
  <2>3. pending' \in [Email -> 0 .. MaxConsent]
    BY AccountLimits
  <2>4. QED
    BY <2>2, <2>3
<1>3. rotating
  BY DEF KeyInv
<1>4. KeyInv'
  BY <1>1, <1>3 DEF KeyInv
<1>5. PendingInv'
  BY <1>1 DEF PendingInv
<1>6. \A f \in Email : "rotated" \notin excuse[f] => secret'[f].token = secret[f].token
  BY <1>1 DEF PendingInv
<1>7. CallbackInv' /\ \A f \in Email : Connecting(f)' <=> Connecting(f)
  BY DEF CallbackInv, Connecting
<1>8. \A f \in Email : "rotated" \notin excuse[f] => (Stored(f)' <=> Stored(f))
  BY <1>6 DEF Stored
<1>9. MidwayInv'
  BY <1>7, <1>8 DEF MidwayInv
<1>10. RowAndSecretAgree'
  BY <1>7, <1>8 DEF RowAndSecretAgree
<1>11. LatestConsentIsStored'
  BY <1>6, <1>8 DEF LatestConsentIsStored
<1>12. QED
  BY <1>2, <1>4, <1>5, <1>7, <1>9, <1>10, <1>11

\* Under both keys a rotation that returns leaves no secret under the old one.
LEMMA RotateReturnStep ==
  ASSUME AccountsInv, RotateReturn
  PROVE  AccountsInv'
<1> USE DEF AccountsInv, AccountsTypeOK, RotateReturn
<1>1. AccountsTypeOK'
  OBVIOUS
<1>2. \A e \in Email : secret[e].key \in {"old", "new"}
  BY DEF Key, NoSecret
<1>3. KeyInv'
  BY <1>2 DEF KeyInv
<1>4. /\ PendingInv' /\ MidwayInv' /\ CallbackInv'
      /\ RowAndSecretAgree' /\ LatestConsentIsStored'
  BY DEF PendingInv, MidwayInv, CallbackInv, RowAndSecretAgree, LatestConsentIsStored, Stored,
     Connecting
<1>5. QED
  BY <1>1, <1>3, <1>4

\* A rotation that stops has nothing in hand, and has not returned.
LEMMA RotateFailsStep ==
  ASSUME AccountsInv, RotateFails
  PROVE  AccountsInv'
<1> USE DEF AccountsInv, AccountsTypeOK, RotateFails
<1>0. /\ rotating' = FALSE /\ faults' \in 0 .. MaxFaults
      /\ pending' \in [Email -> 0 .. MaxConsent] /\ \A e \in Email : pending'[e] = 0
  BY AccountLimits DEF Fault
<1>1. AccountsTypeOK'
  BY Zenon, <1>0
<1>2. KeyInv' /\ PendingInv'
  BY <1>0 DEF KeyInv, PendingInv
<1>3. MidwayInv' /\ CallbackInv' /\ RowAndSecretAgree' /\ LatestConsentIsStored'
  BY DEF MidwayInv, CallbackInv, RowAndSecretAgree, LatestConsentIsStored, Stored, Connecting
<1>4. QED
  BY <1>1, <1>2, <1>3

\* The restart ends every request; the old key goes away only after a rotation
\* has returned.
LEMMA ChangeKeysStep ==
  ASSUME AccountsInv, ChangeKeys
  PROVE  AccountsInv'
<1> USE AccountLimits DEF AccountsInv
<1>1. /\ callback' = [e \in Email |-> [t \in Token |-> Ended(callback[e][t])]]
      /\ forgetting' = {}
      /\ excuse' = [e \in Email |-> excuse[e] \cup CutIf(Connecting(e) \/ e \in forgetting)]
      /\ UNCHANGED <<minted, secret, row, rotated, faults>>
      /\ ~rotating' /\ rotating' \in BOOLEAN
      /\ pending' = [e \in Email |-> 0]
      /\ keys' \in {"both", "new"} /\ (keys' = "new" => rotated)
  BY DEF ChangeKeys
<1>2. \A stage \in Stage :
        /\ Ended(stage) \in Stage \ {"lookup", "row"}
        /\ stage = "none" => Ended(stage) = "none"
        /\ stage \in {"none", "lookup", "failed"} => Ended(stage) \in {"none", "failed"}
  BY DEF Ended, Stage
<1>3. \A e \in Email : \A t \in Token :
        callback'[e][t] = Ended(callback[e][t]) /\ callback[e][t] \in Stage
  BY <1>1 DEF AccountsTypeOK
<1>4. \A e \in Email : ~Connecting(e)'
  BY <1>2, <1>3 DEF Connecting
<1>5. AccountsTypeOK'
  <2>1. callback' \in [Email -> [Token -> Stage]]
    BY <1>1, <1>2, <1>3
  <2>2. excuse' \in [Email -> SUBSET Cause]
    BY <1>1 DEF CutIf, Cause, AccountsTypeOK
  <2>3. QED
    BY <1>1, <2>1, <2>2 DEF AccountsTypeOK
<1>6. KeyInv' /\ PendingInv'
  BY <1>1 DEF KeyInv, PendingInv
<1>7. \A e \in Email :
        /\ excuse[e] \subseteq excuse'[e]
        /\ excuse'[e] \subseteq {"crossed"} => ~Connecting(e) /\ e \notin forgetting
  BY <1>1 DEF CutIf
<1>8. MidwayInv' /\ RowAndSecretAgree'
  BY <1>1, <1>4, <1>7 DEF MidwayInv, RowAndSecretAgree, Stored
<1>9. CallbackInv'
  BY <1>1, <1>2, <1>3 DEF CallbackInv
<1>10. LatestConsentIsStored'
  BY <1>1, <1>2, <1>3, <1>7 DEF LatestConsentIsStored, Stored
<1>11. QED
  BY <1>5, <1>6, <1>8, <1>9, <1>10

\* A step of a member or of a request keeps the invariant.
LEMMA MemberStepInv ==
  ASSUME AccountsInv, MemberStep
  PROVE  AccountsInv'
  BY MintStep, RegisterSetStep, RegisterRowStep, CallbackFailsStep, ForgetSecretStep,
     ForgetRowStep, ForgetFailsStep DEF MemberStep

-----------------------------------------------------------------------------
(* Accounts: the theorems.                                                 *)

\* The inductive invariant of the two tables, the credential store and the
\* rotation holds in every reachable state.
THEOREM AccountsInvariance == AccountsSpec => []AccountsInv
<1>1. AccountsInit => AccountsInv
  BY AccountsInitInv
<1>2. ASSUME AccountsInv, [MemberStep \/ RotationStep]_accountVars
      PROVE  AccountsInv'
  <2>1. CASE MemberStep
    BY <1>2, <2>1, MemberStepInv
  <2>2. CASE RotationStep
    BY <1>2, <2>2, RotateReadStep, RotateWriteStep, RotateReturnStep, RotateFailsStep,
       ChangeKeysStep DEF RotationStep
  <2>3. CASE UNCHANGED accountVars
    BY <1>2, <2>3 DEF accountVars, AccountsInv, AccountsTypeOK, KeyInv, PendingInv, MidwayInv,
       CallbackInv, Connecting, RowAndSecretAgree, LatestConsentIsStored, Stored
  <2>4. QED
    BY <1>2, <2>1, <2>2, <2>3
<1>3. QED
  BY <1>1, <1>2, PTL DEF AccountsSpec

\* Every variable keeps its type.
THEOREM AccountsTypeCorrect == AccountsSpec => []AccountsTypeOK
<1>1. AccountsInv => AccountsTypeOK
  BY DEF AccountsInv
<1>2. QED
  BY <1>1, AccountsInvariance, PTL

\* No stored secret is ever out of reach of the configured keys: the documented
\* order of restart, rotation and restart loses none (rotate, deployment.md).
THEOREM RotationKeepsSecretsReadable == AccountsSpec => []SecretsReadable
<1>1. AccountsInv => SecretsReadable
  BY DEF AccountsInv, KeyInv, SecretsReadable, Readable, AccountsTypeOK
<1>2. QED
  BY <1>1, AccountsInvariance, PTL

\* Row and secret of an account exist together outside the noted causes, so that
\* credentials_for_household can refuse a household only after one of them.
THEOREM AccountsAreWhole == AccountsSpec => []RowAndSecretAgree
<1>1. AccountsInv => RowAndSecretAgree
  BY DEF AccountsInv
<1>2. QED
  BY <1>1, AccountsInvariance, PTL

\* A consent later than the stored one is still being looked up or has failed,
\* unless callbacks overlapped or a rotation wrote an older token back.
THEOREM ConsentIsNotUndone == AccountsSpec => []LatestConsentIsStored
<1>1. AccountsInv => LatestConsentIsStored
  BY DEF AccountsInv
<1>2. QED
  BY <1>1, AccountsInvariance, PTL

-----------------------------------------------------------------------------
(* Listings: the inductive invariant.                                      *)

\* A position that is gone for no noted reason was never there.
FirstListingInv ==
  \A e \in Email \ gap : cursor[e] = NoPos => reported[e] = NoPos

\* What a run has listed continues what was reported, unless it is a reset.
EntryInv ==
  \A e \in Email :
    entries[e] # Nothing => e \in gap \/ entries[e].full \/ entries[e].whole

SyncInv ==
  /\ AccountsInv /\ TypeOK /\ FirstListingInv /\ EntryInv /\ DeletionsReported

-----------------------------------------------------------------------------
(* Listings: every step keeps the invariant.                               *)

\* An entry has a position of its own.
LEMMA EntryType ==
  ASSUME NEW x \in Entry
  PROVE  /\ x.pos \in Rev \cup {NoPos} /\ x.full \in BOOLEAN /\ x.whole \in BOOLEAN
         /\ x # Nothing => x.pos \in Rev
         /\ x.whole => x.pos \in Rev
<1>1. CASE x = Nothing
  BY <1>1 DEF Nothing
<1>2. CASE x # Nothing
  BY <1>2 DEF Entry
<1>3. QED
  BY <1>1, <1>2

\* No account has been listed.
LEMMA SyncInitInv == Init => SyncInv
<1> SUFFICES ASSUME Init PROVE SyncInv
  OBVIOUS
<1> USE RevNat DEF Init
<1>1. AccountsInv
  BY AccountsInitInv
<1>2. TypeOK
  <2>1. 0 \in 0 .. MaxConsent /\ 0 \in Rev /\ Nothing \in Entry /\ NoPos \in Rev \cup {NoPos}
    BY AccountLimits DEF Rev, Entry
  <2>2. \A S, T, v : v \in T => [e \in S |-> v] \in [S -> T]
    OBVIOUS
  <2>3. QED
    BY Zenon, <1>1, <2>1, <2>2 DEF TypeOK, AccountsInv
<1>3. FirstListingInv /\ EntryInv /\ DeletionsReported
  BY DEF FirstListingInv, EntryInv, DeletionsReported, NoPos
<1>4. QED
  BY <1>1, <1>2, <1>3 DEF SyncInv

\* A failure leaves the accounts as they are.
LEMMA FaultStep ==
  ASSUME AccountsInv, Fault,
         UNCHANGED <<minted, secret, row, callback, forgetting, keys, rotating,
                     pending, rotated, excuse>>
  PROVE  AccountsInv'
<1>1. faults' \in 0 .. MaxFaults
  BY AccountLimits DEF Fault, AccountsInv, AccountsTypeOK
<1>2. QED
  BY <1>1 DEF AccountsInv, AccountsTypeOK, KeyInv, PendingInv, MidwayInv,
     CallbackInv, Connecting, RowAndSecretAgree, LatestConsentIsStored, Stored

\* Nor do steps outside the accounts.
LEMMA AccountsStutter ==
  ASSUME AccountsInv, UNCHANGED accountVars
  PROVE  AccountsInv'
  BY DEF accountVars, AccountsInv, AccountsTypeOK, KeyInv, PendingInv, MidwayInv,
     CallbackInv, Connecting, RowAndSecretAgree, LatestConsentIsStored, Stored

\* The parts of the invariant that speak of positions.
LEMMA PositionsStutter ==
  ASSUME FirstListingInv, EntryInv, DeletionsReported,
         UNCHANGED <<cursor, entries, reported, gap>>
  PROVE  FirstListingInv' /\ EntryInv' /\ DeletionsReported'
  BY DEF FirstListingInv, EntryInv, DeletionsReported

\* Google deletes, tokens expire, a run starts or reads a secret.
LEMMA QuietStep ==
  ASSUME SyncInv, NEW e \in Email,
         \/ Revoke(e) \/ Remove(e) \/ CacheExpires(e)
         \/ SyncStart \/ ReadSecret(e) \/ SkipDead(e)
  PROVE  SyncInv'
<1> USE DEF SyncInv
<1>1. UNCHANGED <<accountVars, cursor, entries, reported, gap>>
  BY DEF Revoke, Remove, CacheExpires, SyncStart, ReadSecret, SkipDead
<1>2. AccountsInv'
  BY <1>1, AccountsStutter
<1>3. FirstListingInv' /\ EntryInv' /\ DeletionsReported'
  BY <1>1, PositionsStutter
<1>4. AccountsTypeOK /\ AccountsTypeOK'
  BY <1>2 DEF AccountsInv
<1>5. TypeOK'
  <2>1. CASE Remove(e)
    BY <1>1, <1>4, <2>1, RevNat DEF Remove, TypeOK, Rev
  <2>2. CASE CacheExpires(e)
    BY <1>1, <1>4, <2>2, AccountLimits DEF CacheExpires, TypeOK
  <2>3. CASE SyncStart
    BY <1>1, <1>4, <2>3 DEF SyncStart, TypeOK, AccountsTypeOK
  <2>4. CASE ReadSecret(e)
    <3>1. secret[e].token \in 0 .. MaxConsent
      BY <1>4, AccountLimits DEF AccountsTypeOK, Token, NoSecret
    <3>2. QED
      BY <1>1, <1>4, <2>4, <3>1 DEF ReadSecret, TypeOK
  <2>5. CASE SkipDead(e)
    BY <1>1, <1>4, <2>5 DEF SkipDead, TypeOK
  <2>6. CASE Revoke(e)
    BY <1>1, <1>4, <2>6 DEF Revoke, TypeOK, AccountsTypeOK
  <2>7. QED
    BY <2>1, <2>2, <2>3, <2>4, <2>5, <2>6
<1>6. QED
  BY <1>2, <1>3, <1>5

\* A run that ends drops what it has listed.
LEMMA RaisesStep ==
  ASSUME SyncInv, Raises, AccountsInv'
  PROVE  SyncInv'
<1> USE DEF SyncInv, Raises, Ends
<1>1. TypeOK'
  <2>1. 0 \in 0 .. MaxConsent /\ Nothing \in Entry
    BY AccountLimits DEF Entry
  <2>2. held' \in [Email -> 0 .. MaxConsent] /\ entries' \in [Email -> Entry]
    BY <2>1
  <2>3. QED
    BY <2>2 DEF TypeOK, AccountsInv
<1>2. FirstListingInv' /\ EntryInv' /\ DeletionsReported'
  BY DEF FirstListingInv, EntryInv, DeletionsReported
<1>3. QED
  BY <1>1, <1>2

\* A listing from the stored position continues it, a first one has nothing to
\* continue, and one after a 410 is a reset.
LEMMA ListFromStep ==
  ASSUME SyncInv, NEW e \in Email, NEW since, ListFrom(e, since),
         since = cursor[e] \/ (since = NoPos /\ cursor[e] # NoPos),
         AccountsInv'
  PROVE  SyncInv'
<1> USE DEF SyncInv
<1> DEFINE whole == reported[e] \in {NoPos, removed[e]} \/ (since # NoPos /\ since <= reported[e])
           new   == [pos |-> Position(e), full |-> since = NoPos /\ cursor[e] # NoPos,
                     whole |-> whole]
<1>1. /\ entries' = [entries EXCEPT ![e] = new]
      /\ cached' = [cached EXCEPT ![e] = held[e]]
      /\ todo' = todo \ {e}
      /\ UNCHANGED <<revoked, removed, cursor, phase, held, reported, gap>>
  BY DEF ListFrom
<1>2. new \in Entry
  BY DEF TypeOK, Entry, Position
<1>3. TypeOK'
  <2>1. entries' \in [Email -> Entry]
    BY <1>1, <1>2 DEF TypeOK
  <2>2. cached' \in [Email -> 0 .. MaxConsent]
    BY <1>1 DEF TypeOK
  <2>3. QED
    BY <1>1, <2>1, <2>2 DEF TypeOK, AccountsInv
<1>4. e \notin gap /\ ~new.full => new.whole
  <2>1. ASSUME e \notin gap, ~new.full
        PROVE  whole
    <3>1. CASE cursor[e] = NoPos
      BY <2>1, <3>1 DEF FirstListingInv
    <3>2. CASE cursor[e] # NoPos
      BY <2>1, <3>2 DEF DeletionsReported
    <3>3. QED
      BY <3>1, <3>2
  <2>2. QED
    BY <2>1
<1>5. EntryInv'
  BY <1>1, <1>4 DEF EntryInv, TypeOK
<1>6. FirstListingInv' /\ DeletionsReported'
  BY <1>1 DEF FirstListingInv, DeletionsReported
<1>7. QED
  BY <1>3, <1>5, <1>6

\* A stored position moves with what was reported, or its account is noted.
LEMMA SaveCursorStep ==
  ASSUME SyncInv, SaveCursor
  PROVE  SyncInv'
<1> USE DEF SyncInv
<1>1. AccountsInv'
  BY AccountsStutter DEF SaveCursor
<1>2. CASE \A e \in Email : entries[e] = Nothing
  BY <1>1, <1>2, RaisesStep DEF SaveCursor, Raises
<1>3. CASE ~ \A e \in Email : entries[e] = Nothing
  <2>1. /\ Ends /\ UNCHANGED <<revoked, removed, cached>>
        /\ cursor' = [e \in Email |-> entries[e].pos]
        /\ reported' = [e \in Email |->
             IF entries[e].whole THEN entries[e].pos ELSE reported[e]]
        /\ gap' = gap \cup {e \in Email :
             entries[e].full \/ (entries[e] = Nothing /\ cursor[e] # NoPos)}
    BY <1>3 DEF SaveCursor
  <2>2. \A e \in Email :
          /\ entries[e].pos \in Rev \cup {NoPos}
          /\ entries[e].whole => entries[e].pos \in Rev
          /\ entries[e] # Nothing => entries[e].pos \in Rev
    BY EntryType DEF TypeOK
  <2>3. TypeOK'
    <3>1. 0 \in 0 .. MaxConsent /\ Nothing \in Entry
      BY AccountLimits DEF Entry
    <3>2. /\ held' \in [Email -> 0 .. MaxConsent] /\ entries' \in [Email -> Entry]
          /\ phase' = "idle" /\ todo' = {}
      BY <2>1, <3>1 DEF Ends
    <3>3. cursor' \in [Email -> Rev \cup {NoPos}] /\ reported' \in [Email -> Rev \cup {NoPos}]
      BY <2>1, <2>2 DEF TypeOK
    <3>4. QED
      BY <1>1, <2>1, <3>2, <3>3 DEF TypeOK, AccountsInv
  <2>4. EntryInv'
    BY <2>1 DEF Ends, EntryInv
  <2>5. ASSUME NEW e \in Email \ gap'
        PROVE  (cursor'[e] = NoPos => reported'[e] = NoPos) /\ cursor'[e] <= reported'[e]
    <3>1. e \in Email /\ e \notin gap /\ ~entries[e].full
      BY <2>1
    <3>2. CASE entries[e] = Nothing
      <4>1. cursor[e] = NoPos /\ reported[e] = NoPos
        BY <2>1, <2>5, <3>1, <3>2 DEF FirstListingInv
      <4>2. cursor'[e] = NoPos /\ reported'[e] = NoPos
        BY <2>1, <3>1, <3>2, <4>1 DEF Nothing
      <4>3. QED
        BY <4>2 DEF NoPos
    <3>3. CASE entries[e] # Nothing
      <4>1. entries[e].whole
        BY <3>1, <3>3 DEF EntryInv
      <4>2. cursor'[e] = entries[e].pos /\ reported'[e] = entries[e].pos
        BY <2>1, <3>1, <4>1
      <4>3. QED
        BY <2>2, <3>1, <4>1, <4>2, RevNat DEF Rev, NoPos
    <3>4. QED
      BY <3>2, <3>3
  <2>6. FirstListingInv' /\ DeletionsReported'
    BY <2>5 DEF FirstListingInv, DeletionsReported
  <2>7. QED
    BY <1>1, <2>3, <2>4, <2>6
<1>4. QED
  BY <1>2, <1>3

-----------------------------------------------------------------------------
(* Listings: the theorems.                                                 *)

\* The inductive invariant of the positions holds in every reachable state.
THEOREM SyncInvariance == Spec => []SyncInv
<1>1. Init => SyncInv
  BY SyncInitInv
<1>2. ASSUME SyncInv, [Next]_vars
      PROVE  SyncInv'
  <2>1. CASE MemberStep /\ UNCHANGED syncVars
    <3>1. AccountsInv'
      BY <1>2, <2>1, MemberStepInv DEF SyncInv
    <3>2. TypeOK'
      BY <1>2, <2>1, <3>1 DEF SyncInv, TypeOK, syncVars, AccountsInv
    <3>3. FirstListingInv' /\ EntryInv' /\ DeletionsReported'
      BY <1>2, <2>1, PositionsStutter DEF SyncInv, syncVars
    <3>4. QED
      BY <3>1, <3>2, <3>3 DEF SyncInv
  <2>2. ASSUME NEW e \in Email, List(e)
        PROVE  SyncInv'
    BY <1>2, <2>2, ListFromStep, AccountsStutter DEF List, SyncInv
  <2>3. ASSUME NEW e \in Email, ListGone(e)
        PROVE  SyncInv'
    BY <1>2, <2>3, ListFromStep, FaultStep DEF ListGone, SyncInv
  <2>4. ASSUME NEW e \in Email, MissingSecret(e) \/ Refused(e)
        PROVE  SyncInv'
    BY <1>2, <2>4, RaisesStep, AccountsStutter DEF MissingSecret, Refused, SyncInv
  <2>5. CASE SyncFails
    BY <1>2, <2>5, RaisesStep, FaultStep DEF SyncFails, SyncInv
  <2>6. CASE SyncStart
    <3>1. CASE Email = {}
      <4>1. AccountsInv' /\ FirstListingInv' /\ EntryInv' /\ DeletionsReported'
        BY <1>2, <2>6, AccountsStutter, PositionsStutter DEF SyncStart, SyncInv
      <4>2. QED
        BY <1>2, <2>6, <4>1 DEF SyncStart, SyncInv, TypeOK, AccountsInv, AccountsTypeOK
    <3>2. QED
      BY <1>2, <2>6, <3>1, QuietStep
  <2>7. CASE UNCHANGED vars
    <3>1. AccountsInv'
      BY <1>2, <2>7, AccountsStutter DEF vars, SyncInv
    <3>2. TypeOK'
      BY <1>2, <2>7, <3>1 DEF SyncInv, TypeOK, vars, syncVars, AccountsInv
    <3>3. FirstListingInv' /\ EntryInv' /\ DeletionsReported'
      BY <1>2, <2>7, PositionsStutter DEF SyncInv, vars, syncVars
    <3>4. QED
      BY <3>1, <3>2, <3>3 DEF SyncInv
  <2>8. QED
    BY <1>2, <2>1, <2>2, <2>3, <2>4, <2>5, <2>6, <2>7, QuietStep, SaveCursorStep
    DEF Next, SyncStep
<1>3. QED
  BY <1>1, <1>2, PTL DEF Spec

\* Every variable keeps its type.
THEOREM SyncTypeCorrect == Spec => []TypeOK
<1>1. SyncInv => TypeOK
  BY DEF SyncInv
<1>2. QED
  BY <1>1, SyncInvariance, PTL

\* A deletion a stored position has passed was reported as a tombstone, unless
\* the position was dropped or reset: skipping a dead account beside its
\* siblings never moves that account's position.
THEOREM SyncReportsDeletions == Spec => []DeletionsReported
<1>1. SyncInv => DeletionsReported
  BY DEF SyncInv
<1>2. QED
  BY <1>1, SyncInvariance, PTL
===========================================================================
