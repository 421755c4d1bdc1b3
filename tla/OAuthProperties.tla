----------------------------- MODULE OAuthProperties -----------------------------
(***************************************************************************)
(* What logins and their tokens may rely on, stated over OAuthFlow.        *)
(***************************************************************************)
EXTENDS OAuthFlow

(* A login is held in one place at a time: its code, one request, or one   *)
(* refresh token, however many requests present the code or the token at   *)
(* once (redeem's remove, refresh's DELETE ... RETURNING).                 *)
Holds(r, c) == req[r].login = c
Token(p, c) == refresh[p] # 0 /\ origin[p] = c

OneHolder ==
  \A c \in Code :
    /\ codes[c] # None => (\A r \in Req : ~Holds(r, c)) /\ (\A p \in Pair : ~Token(p, c))
    /\ \A r \in Req, p \in Pair : ~(Holds(r, c) /\ Token(p, c))
    /\ \A r, s \in Req : Holds(r, c) /\ Holds(s, c) => r = s
    /\ \A p, q \in Pair : Token(p, c) /\ Token(q, c) => p = q

(* While an access token works its pair can still be renewed, unless its   *)
(* refresh token was presented: the two rows appear together and neither   *)
(* the expiries, nor the sweep, nor a crash in between takes the refresh   *)
(* row first (issue's transaction, TOKEN_TTL < REFRESH_TTL).               *)
Renewable == \A p \in Pair : Live(access[p]) => Live(refresh[p]) \/ p \in taken

(* Every pair goes back, through any chain of refreshes, to a human's      *)
(* login at a URI its client had registered, redeemed at that URI, with    *)
(* the matching verifier and no later than the code's moment of expiry.    *)
TokensTraceToLogin ==
  \A p \in Pair : access[p] # 0 \/ refresh[p] # 0 =>
    LET login == proof[origin[p]] IN
    /\ login.entry.uri = login.uri /\ login.entry.chal = login.verifier
    /\ login.at <= login.entry.expires
    /\ Bound(login.entry.client, login.uri)

(* Nobody's credentials go because of somebody else's request, the sweep   *)
(* or a restart: a working access token stays, a working refresh token     *)
(* leaves only to a request that presented it, and a new login drops only   *)
(* codes that have expired.                                                *)
CredentialsStay ==
  [][/\ \A p \in Pair : Live(access[p]) => access'[p] = access[p]
     /\ \A p \in Pair : Live(refresh[p]) /\ refresh'[p] # refresh[p] =>
          p \in taken'
     /\ \A c \in Code : codes[c] # None /\ codes'[c] # codes[c] /\ Live(codes[c].expires) =>
          drawnCodes' = drawnCodes]_vars

(* Each login keeps the promise OAuthGrant makes: one linear grant, and    *)
(* what was lost is not revived by any replay of a code or a token.        *)
Requested(c) == \E r \in Req : Holds(r, c)
Refreshable(c) == \E p \in Pair : Token(p, c)

GrantOf(c) ==
  IF codes[c] # None THEN "code"
  ELSE IF Requested(c) THEN "request"
  ELSE IF Refreshable(c) THEN "token"
  ELSE IF c <= drawnCodes THEN "over" ELSE "unborn"

GrantMap == [c \in Code |-> GrantOf(c)]
Grants == INSTANCE OAuthGrant WITH Login <- Code, grant <- GrantMap
ImplementsGrant == Grants!GrantSpec

-----------------------------------------------------------------------------
(* The reaper passes every hour, and each of its statements returns.       *)
LiveSpec == Spec /\ WF_vars(Sweep)

(* The tables do not keep dead rows for ever, whatever fails and whoever   *)
(* never comes back: superseded access tokens are never presented again,   *)
(* and abandoned refresh tokens neither (sweep_expired).                   *)
DeadRowsGo ==
  \A p \in Pair :
    /\ access[p] # 0 /\ ~Live(access[p]) ~> access[p] = 0
    /\ refresh[p] # 0 /\ ~Live(refresh[p]) ~> refresh[p] = 0

=============================================================================
