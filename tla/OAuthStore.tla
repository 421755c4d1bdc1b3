------------------------------- MODULE OAuthStore -------------------------------
(***************************************************************************)
(* oauth::Store: authorization codes in the memory of the server, clients  *)
(* and token pairs in SQLite, and the statements that change them.  A      *)
(* statement or a transaction is one step (Db::call holds the connection   *)
(* for the whole closure); the requests of OAuthFlow string them together. *)
(*                                                                         *)
(* Codes and pairs are numbered in the order random_token draws them: 256  *)
(* random bits do not collide, and nothing depends on their values.        *)
(***************************************************************************)
EXTENDS Integers, FiniteSets

CONSTANTS
  MaxCodes, MaxPairs,  \* how many of each are ever drawn
  Client, Uri,         \* client ids /register may draw; redirect URIs in requests
  AllowedUri,          \* those is_allowed_redirect accepts
  Verifier, Challenge, \* PKCE verifiers; challenges, named by the verifier that matches
  CodeTtl, TokenTtl, RefreshTtl,  \* in ticks
  MaxClock, MaxMishaps,  \* bounds on time, and on failing statements and crashes together
  None

CodeEntry == [client : Client, uri : Uri, chal : Challenge, expires : Nat]

ASSUME StoreConstants ==
  /\ MaxCodes \in Nat /\ MaxPairs \in Nat
  /\ AllowedUri \subseteq Uri /\ Challenge \subseteq Verifier
  /\ CodeTtl \in Nat \ {0} /\ TokenTtl \in Nat \ {0} /\ RefreshTtl \in Nat \ {0}
  /\ TokenTtl <= RefreshTtl
  /\ MaxClock \in Nat /\ MaxMishaps \in Nat
  /\ None \notin Nat \cup Uri \cup Client \cup Challenge \cup CodeEntry

Code == 1..MaxCodes
Pair == 1..MaxPairs
Time == Nat

VARIABLES
  codes,    \* codes[c]: the CodeEntry in memory, or None
  clients,  \* the clients table
  access,   \* access[p]: expires_unix of the pair's access row, 0 without a row
  refresh,  \* likewise for its refresh row
  clock,    \* now, on either clock
  mishaps,  \* failed statements and crashes so far
  drawnCodes, drawnPairs,  \* how many random_token has drawn
  origin    \* origin[p]: the code the pair descends from (no such column)

tables == <<clients, access, refresh, origin>>
storeVars == <<codes, tables, clock, mishaps, drawnCodes, drawnPairs>>

StoreTypeOK ==
  /\ codes \in [Code -> CodeEntry \cup {None}]
  /\ clients \subseteq Client \X AllowedUri
  /\ access \in [Pair -> Time]
  /\ refresh \in [Pair -> Time]
  /\ clock \in Time /\ mishaps \in Nat
  /\ drawnCodes \in 0..MaxCodes /\ drawnPairs \in 0..MaxPairs
  /\ origin \in [Pair -> Code \cup {None}]

StoreInit ==
  /\ codes = [c \in Code |-> None]
  /\ clients = {}
  /\ access = [p \in Pair |-> 0]
  /\ refresh = [p \in Pair |-> 0]
  /\ origin = [p \in Pair |-> None]
  /\ clock = 1 /\ mishaps = 0
  /\ drawnCodes = 0 /\ drawnPairs = 0

-----------------------------------------------------------------------------
(* Statements.  One that fails leaves the tables as they were.             *)

Ok == UNCHANGED mishaps
Mishap == mishaps < MaxMishaps /\ mishaps' = mishaps + 1
Fault == Mishap /\ UNCHANGED tables

Live(expires) == expires > clock

(* registered_redirect_uris with `any` for `all`. *)
AnyAllowed(uris) == uris \cap AllowedUri # {}

(* registered_redirect_uris *)
Registrable(uris) == uris # {} /\ uris \subseteq AllowedUri

(* register_client: every URI of the request, in one transaction. *)
RegisterClient(client, uris) ==
  /\ clients' = clients \cup ({client} \X uris)
  /\ UNCHANGED <<access, refresh, origin>>

(* client_allows_redirect *)
Bound(client, uri) == <<client, uri>> \in clients

(* issue without its transaction: the second insert may be missing. *)
InsertTorn(p, login, at) ==
  /\ access' = [access EXCEPT ![p] = at + TokenTtl]
  /\ refresh' \in {refresh, [refresh EXCEPT ![p] = at + RefreshTtl]}
  /\ origin' = [origin EXCEPT ![p] = login]
  /\ UNCHANGED clients

(* issue's transaction: both rows or neither. *)
InsertPair(p, login, at) ==
  /\ access' = [access EXCEPT ![p] = at + TokenTtl]
  /\ refresh' = [refresh EXCEPT ![p] = at + RefreshTtl]
  /\ origin' = [origin EXCEPT ![p] = login]
  /\ UNCHANGED clients

(* refresh with a SELECT for the DELETE. *)
ReadRefresh(p) == UNCHANGED tables

(* refresh: DELETE ... RETURNING, so that of two requests with one token   *)
(* only one is told an expiry.                                             *)
TakeRefresh(p) ==
  /\ refresh' = [refresh EXCEPT ![p] = 0]
  /\ UNCHANGED <<clients, access, origin>>

(* validate: an expired token is dropped on the way out. *)
DropDead(p) ==
  /\ access' = IF Live(access[p]) THEN access ELSE [access EXCEPT ![p] = 0]
  /\ UNCHANGED <<clients, refresh, origin>>

(* sweep_expired, with the time its caller read. *)
Expired(rows, now) == {p \in Pair : rows[p] <= now}
Swept(rows, now) == [p \in Pair |-> IF p \in Expired(rows, now) THEN 0 ELSE rows[p]]

SweepAccess(now) == access' = Swept(access, now) /\ UNCHANGED <<clients, refresh, origin>>

(* sweep_expired_refresh with the other table's name. *)
SweepWrongTable(now) == SweepAccess(now)

SweepRefresh(now) == refresh' = Swept(refresh, now) /\ UNCHANGED <<clients, access, origin>>

-----------------------------------------------------------------------------
(* The codes, under their lock.                                            *)

(* new_code without the retain's condition: a new login drops the others.  *)
InsertOnlyCode(client, uri, chal, at) ==
  LET c == drawnCodes + 1 IN
  /\ c \in Code
  /\ drawnCodes' = c
  /\ codes' = [d \in Code |->
                 IF d = c THEN [client |-> client, uri |-> uri, chal |-> chal,
                                expires |-> at + CodeTtl]
                 ELSE None]

(* new_code: `at` was read before the lock was taken. *)
InsertCode(client, uri, chal, at) ==
  LET c == drawnCodes + 1 IN
  /\ c \in Code
  /\ drawnCodes' = c
  /\ codes' = [d \in Code |->
                 IF d = c THEN [client |-> client, uri |-> uri, chal |-> chal,
                                expires |-> at + CodeTtl]
                 ELSE IF codes[d] # None /\ codes[d].expires > at THEN codes[d] ELSE None]

(* redeem with get for remove. *)
KeepCode(c) == UNCHANGED codes

(* redeem: the code leaves the map whatever the checks then say. *)
TakeCode(c) == codes' = [codes EXCEPT ![c] = None]

(* redeem without its look at the expiry: a code nobody swept lives on. *)
RedeemableForEver(entry, uri, verifier) == entry.uri = uri /\ entry.chal = verifier

(* A code still counts in the tick it expires in, unlike a token. *)
Redeemable(entry, uri, verifier) ==
  entry.expires >= clock /\ entry.uri = uri /\ entry.chal = verifier

=============================================================================
