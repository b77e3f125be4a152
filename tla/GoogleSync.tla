----------------------------- MODULE GoogleSync -----------------------------
(***************************************************************************)
(* GoogleCalendarConnector.sync over the accounts of one household, while  *)
(* members connect and disconnect accounts and Google revokes tokens.  The *)
(* cursor holds one position per account.  An account whose refresh token  *)
(* is dead is skipped; any other error ends the run for every account.     *)
(*                                                                         *)
(* A position is the number of deletions seen: a full listing carries      *)
(* everything else, so nothing else can be lost.  MirrorSync has the       *)
(* overlapping runs and the applier.                                       *)
(***************************************************************************)
EXTENDS GoogleAccounts

CONSTANT MaxRev   \* bound: deletions from one calendar

ASSUME RevNat == MaxRev \in Nat

VARIABLES
  revoked,   \* refresh tokens of each account up to this one are dead
  removed,   \* events deleted from each account's calendar at Google
  cached,    \* GoogleCalendarClient's access token: the refresh token it is for
  cursor,    \* stored cursor: each account's position, or NoPos
  phase,     \* where the run is
  todo,      \* accounts whose credential, then whose listing, is still to come
  held,      \* the refresh tokens the run has read
  entries,   \* the positions the run has reached
  reported,  \* history: deletions reported, of those after the first listing
  gap        \* history: accounts whose position was dropped or reset

syncVars == <<revoked, removed, cached, cursor, phase, todo, held, entries, reported, gap>>
vars == <<accountVars, syncVars>>

NoPos   == -1
Rev     == 0 .. MaxRev
Nothing == [pos |-> NoPos, full |-> FALSE, whole |-> FALSE]
\* pos: the position; full: listed without a token though one was stored;
\* whole: with what was reported before, no deletion up to pos is left out.
Entry   == [pos : Rev, full : BOOLEAN, whole : BOOLEAN] \cup {Nothing}

TypeOK ==
  /\ AccountsTypeOK
  /\ revoked \in [Email -> 0 .. MaxConsent]
  /\ removed \in [Email -> Rev]
  /\ cached \in [Email -> 0 .. MaxConsent]
  /\ cursor \in [Email -> Rev \cup {NoPos}]
  /\ phase \in {"idle", "creds", "list"}
  /\ todo \subseteq Email
  /\ held \in [Email -> 0 .. MaxConsent]
  /\ entries \in [Email -> Entry]
  /\ reported \in [Email -> Rev \cup {NoPos}]
  /\ gap \subseteq Email

Init ==
  /\ AccountsInit
  /\ revoked = [e \in Email |-> 0]
  /\ removed = [e \in Email |-> 0]
  /\ cached = [e \in Email |-> 0]
  /\ cursor = [e \in Email |-> NoPos]
  /\ phase = "idle" /\ todo = {}
  /\ held = [e \in Email |-> 0]
  /\ entries = [e \in Email |-> Nothing]
  /\ reported = [e \in Email |-> NoPos]
  /\ gap = {}

-----------------------------------------------------------------------------
(* Google and its clock.                                                   *)

Revoke(e) ==
  /\ revoked[e] < minted[e]
  /\ revoked' = [revoked EXCEPT ![e] = minted[e]]
  /\ UNCHANGED <<accountVars, removed, cached, cursor, phase, todo, held, entries, reported, gap>>

Remove(e) ==
  /\ removed[e] < MaxRev
  /\ removed' = [removed EXCEPT ![e] = @ + 1]
  /\ UNCHANGED <<accountVars, revoked, cached, cursor, phase, todo, held, entries, reported, gap>>

\* An access token lasts about an hour and is not renewed while it is cached.
CacheExpires(e) ==
  /\ cached[e] # 0
  /\ cached' = [cached EXCEPT ![e] = 0]
  /\ UNCHANGED <<accountVars, revoked, removed, cursor, phase, todo, held, entries, reported, gap>>

-----------------------------------------------------------------------------
(* GoogleCalendarConnector.sync                                            *)

\* Accounts are taken in the order of their emails.
Turn(e) == e \in todo /\ \A f \in todo : e <= f

\* The cursor is read and the account rows are listed.
SyncStart ==
  /\ phase = "idle"
  /\ todo' = row
  /\ phase' = IF row = {} THEN "list" ELSE "creds"
  /\ UNCHANGED <<accountVars, revoked, removed, cached, cursor, held, entries, reported, gap>>

\* credentials_for_household: one read per account; the last one starts the listing.
ReadSecret(e) ==
  /\ phase = "creds" /\ Turn(e) /\ Stored(e)
  /\ held' = [held EXCEPT ![e] = secret[e].token]
  /\ IF todo = {e}
     THEN phase' = "list" /\ todo' = {f \in Email : f = e \/ held[f] # 0}
     ELSE todo' = todo \ {e} /\ UNCHANGED phase
  /\ UNCHANGED <<accountVars, revoked, removed, cached, cursor, entries, reported, gap>>

\* The run is over, with what it had in hand.
Ends ==
  /\ phase' = "idle" /\ todo' = {}
  /\ held' = [e \in Email |-> 0]
  /\ entries' = [e \in Email |-> Nothing]

Raises == Ends /\ UNCHANGED <<revoked, removed, cached, cursor, reported, gap>>

\* A row whose credential went missing raises for the whole household.
MissingSecret(e) ==
  /\ phase = "creds" /\ Turn(e) /\ ~Stored(e)
  /\ Raises
  /\ UNCHANGED accountVars

Dead(e)   == held[e] <= revoked[e]
Cached(e) == cached[e] = held[e]

\* Mutant: a listing that ends without a sync token is accepted.
PositionMissing(e) == NoPos
\* The nextSyncToken of the last page.
Position(e) == removed[e]

\* The account's pages are read to the end, from `since`.
ListFrom(e, since) ==
  LET whole == reported[e] \in {NoPos, removed[e]} \/ (since # NoPos /\ since <= reported[e])
  IN  /\ phase = "list" /\ Turn(e) /\ (~Dead(e) \/ Cached(e))
      /\ entries' = [entries EXCEPT ![e] =
           [pos |-> Position(e), full |-> since = NoPos /\ cursor[e] # NoPos, whole |-> whole]]
      /\ cached' = [cached EXCEPT ![e] = held[e]]
      /\ todo' = todo \ {e}
      /\ UNCHANGED <<revoked, removed, cursor, phase, held, reported, gap>>

List(e) == ListFrom(e, cursor[e]) /\ UNCHANGED accountVars

\* 410 on the sync token: this account is listed in full within the run.
ListGone(e) ==
  /\ cursor[e] # NoPos
  /\ Fault
  /\ ListFrom(e, NoPos)
  /\ UNCHANGED <<minted, secret, row, callback, forgetting, keys, rotating,
                 pending, rotated, excuse>>

\* Mutant: the skipped account's position is written as if it had been listed.
SkipDeadMoves(e) ==
  /\ phase = "list" /\ Turn(e) /\ Dead(e) /\ ~Cached(e)
  /\ entries' = [entries EXCEPT ![e] = [pos |-> removed[e], full |-> FALSE, whole |-> FALSE]]
  /\ todo' = todo \ {e}
  /\ UNCHANGED <<accountVars, revoked, removed, cached, cursor, phase, held, reported, gap>>

\* Mutant: a dead account ends the run.
SkipDeadRaises(e) ==
  /\ phase = "list" /\ Turn(e) /\ Dead(e) /\ ~Cached(e)
  /\ Raises
  /\ UNCHANGED accountVars

\* invalid_grant: the account is skipped.
SkipDead(e) ==
  /\ phase = "list" /\ Turn(e) /\ Dead(e) /\ ~Cached(e)
  /\ todo' = todo \ {e}
  /\ UNCHANGED <<accountVars, revoked, removed, cached, cursor, phase, held, entries, reported, gap>>

\* The access token was revoked with the grant: 401, which nothing translates.
Refused(e) ==
  /\ phase = "list" /\ Turn(e) /\ Dead(e) /\ Cached(e)
  /\ Raises
  /\ UNCHANGED accountVars

\* ConnectorService.sync stores the next cursor, if there is one.
SaveCursor ==
  /\ phase = "list" /\ todo = {}
  /\ IF \A e \in Email : entries[e] = Nothing
     THEN UNCHANGED <<cursor, reported, gap>>
     ELSE /\ cursor' = [e \in Email |-> entries[e].pos]
          /\ reported' = [e \in Email |->
               IF entries[e].whole THEN entries[e].pos ELSE reported[e]]
          /\ gap' = gap \cup {e \in Email :
               entries[e].full \/ (entries[e] = Nothing /\ cursor[e] # NoPos)}
  /\ Ends
  /\ UNCHANGED <<accountVars, revoked, removed, cached>>

SyncFails ==
  /\ phase # "idle"
  /\ Fault
  /\ Raises
  /\ UNCHANGED <<minted, secret, row, callback, forgetting, keys, rotating,
                 pending, rotated, excuse>>

-----------------------------------------------------------------------------
SyncStep ==
  \/ SyncStart \/ SaveCursor
  \/ \E e \in Email : ReadSecret(e) \/ MissingSecret(e) \/ List(e) \/ SkipDead(e) \/ Refused(e)

Next ==
  \/ MemberStep /\ UNCHANGED syncVars
  \/ \E e \in Email : Revoke(e) \/ CacheExpires(e) \/ ListGone(e) \/ Remove(e)
  \/ SyncStep \/ SyncFails

\* The hourly pass keeps starting runs, a run keeps going, tokens expire.
Spec ==
  /\ Init /\ [][Next]_vars
  /\ WF_vars(SyncStep) /\ \A e \in Email : WF_vars(CacheExpires(e))

-----------------------------------------------------------------------------
(***************************************************************************)
(* A deletion the stored position has passed was reported as a tombstone,  *)
(* unless the account's position was dropped (skipped beside a live        *)
(* sibling, or disconnected) or reset by Google after its first listing.   *)
(***************************************************************************)
DeletionsReported ==
  \A e \in Email \ gap : cursor[e] <= reported[e]

Alive(e) == secret[e].token > revoked[e]

\* The account could be listed, and no row of the household lacks its secret.
Usable(e) ==
  /\ e \in row /\ Alive(e)
  /\ \A f \in row : Stored(f)

(***************************************************************************)
(* A dead account does not hold its siblings back (connector.py 13-16): an *)
(* account that stays usable is listed to the end, again and again.        *)
(***************************************************************************)
SiblingsKeepSyncing ==
  \A e \in Email : <>[]Usable(e) => []<>(cursor[e] = removed[e])
=============================================================================
