------------------------------- MODULE OAuthFlow -------------------------------
(***************************************************************************)
(* The requests on OAuthStore: /register, /authorize, /token, the bearer   *)
(* check in front of /mcp (oauth/flow.rs, auth.rs) and the reaper's sweep  *)
(* of both token tables.  Every await ends a step.  A client that hangs up *)
(* cancels its handler at the await it is in, but a closure already handed *)
(* to the blocking pool still runs.                                        *)
(***************************************************************************)
EXTENDS OAuthStore

CONSTANT Req  \* requests in progress at once

VARIABLES
  req,     \* req[r]: where request r is, and what it carries
  sweep,   \* the reaper's sweep of the token tables
  proof,   \* proof[c]: the entry of c when it was redeemed, what the request presented, and when
  taken    \* pairs whose refresh token was spent

(* Kept for the properties only. *)
ghosts == <<proof, taken>>

vars == <<storeVars, req, sweep, ghosts>>

(* A request carries nothing until its first statement returns, so it      *)
(* starts with that statement.  code: bound, awaiting the codes' lock;     *)
(* spent: told a refresh token's expiry; commit: about to insert a pair    *)
(* whose expiries are fixed.  at: the time, or the expiry, it was told.    *)
Requests == [pc : {"idle", "code", "spent", "commit"}, client : Client \cup {None},
             uri : Uri \cup {None}, chal : Challenge \cup {None}, login : Code \cup {None},
             pair : Pair \cup {None}, at : Time]

Idle == [pc |-> "idle", client |-> None, uri |-> None, chal |-> None, login |-> None,
         pair |-> None, at |-> 0]

Sweeps == [pc : {"idle", "access", "refresh"}, now : Time]

TypeOK ==
  /\ StoreTypeOK
  /\ req \in [Req -> Requests]
  /\ sweep \in Sweeps
  /\ proof \in [Code -> [entry : CodeEntry, uri : Uri, verifier : Verifier, at : Time] \cup {None}]
  /\ taken \subseteq Pair

Init ==
  /\ StoreInit
  /\ req = [r \in Req |-> Idle]
  /\ sweep = [pc |-> "idle", now |-> 0]
  /\ proof = [c \in Code |-> None] /\ taken = {}

At(r, pc) == req[r].pc = pc
End(r) == req' = [req EXCEPT ![r] = Idle]

-----------------------------------------------------------------------------
(* /register: a body without a URI, or with one that is not allowed, is    *)
(* refused before anything is stored.                                      *)
Register(client, uris) ==
  /\ Registrable(uris)
  /\ \A u \in Uri : ~Bound(client, u)
  /\ \/ Ok /\ RegisterClient(client, uris)
     \/ Fault
  /\ UNCHANGED <<codes, clock, drawnCodes, drawnPairs, req, sweep, ghosts>>

(* /authorize: the Basic login, the open-redirect rule and, after the      *)
(* binding query, the response type and the S256 challenge are decided on  *)
(* the request alone; refused, it leaves no trace.  The query fails        *)
(* closed.  new_code reads the time before it waits for the codes.         *)
Authorize(r, client, uri, chal) ==
  /\ At(r, "idle")
  /\ uri \in AllowedUri /\ Bound(client, uri)
  /\ req' = [req EXCEPT ![r] = [Idle EXCEPT !.pc = "code", !.client = client, !.uri = uri,
                                            !.chal = chal, !.at = clock]]
  /\ UNCHANGED <<storeVars, sweep, ghosts>>

AuthorizeCode(r) ==
  /\ At(r, "code")
  /\ InsertCode(req[r].client, req[r].uri, req[r].chal, req[r].at)
  /\ End(r)
  /\ UNCHANGED <<tables, clock, mishaps, drawnPairs, sweep, ghosts>>

(* issue: the pair is drawn and both expiries are computed before the call *)
(* to the database.                                                        *)
DrawPair(r, login) ==
  /\ drawnPairs + 1 \in Pair
  /\ drawnPairs' = drawnPairs + 1
  /\ req' = [req EXCEPT ![r] = [Idle EXCEPT !.pc = "commit", !.login = login,
                                            !.pair = drawnPairs + 1, !.at = clock]]

(* /token, authorization_code: everything up to issue's transaction runs   *)
(* without an await once the lock is held.                                 *)
Redeem(r, c, uri, verifier) ==
  /\ At(r, "idle") /\ codes[c] # None
  /\ TakeCode(c)
  /\ IF Redeemable(codes[c], uri, verifier)
     THEN /\ DrawPair(r, c)
          /\ proof' = [proof EXCEPT ![c] = [entry |-> codes[c], uri |-> uri,
                                            verifier |-> verifier, at |-> clock]]
     ELSE UNCHANGED <<req, drawnPairs, proof>>
  /\ UNCHANGED <<tables, clock, mishaps, drawnCodes, sweep, taken>>

(* /token, refresh_token, with a token this server has issued; any other   *)
(* one deletes nothing.  If the client hangs up meanwhile, the deletion    *)
(* runs on without what follows it.                                        *)
Refresh(r, p) ==
  /\ At(r, "idle") /\ origin[p] # None
  /\ \/ /\ Ok /\ TakeRefresh(p)
        /\ taken' = taken \cup {p}
        /\ \/ /\ refresh[p] # 0
              /\ req' = [req EXCEPT ![r] =
                   [Idle EXCEPT !.pc = "spent", !.login = origin[p], !.at = refresh[p]]]
           \/ UNCHANGED req
     \/ Fault /\ UNCHANGED <<req, taken>>
  /\ UNCHANGED <<codes, clock, drawnCodes, drawnPairs, sweep, proof>>

RefreshIssue(r) ==
  /\ At(r, "spent")
  /\ IF Live(req[r].at) THEN DrawPair(r, req[r].login)
     ELSE End(r) /\ UNCHANGED drawnPairs
  /\ UNCHANGED <<codes, tables, clock, mishaps, drawnCodes, sweep, ghosts>>

Commit(r) ==
  /\ At(r, "commit")
  /\ \/ Ok /\ InsertPair(req[r].pair, req[r].login, req[r].at)
     \/ Fault
  /\ End(r)
  /\ UNCHANGED <<codes, clock, drawnCodes, drawnPairs, sweep, ghosts>>

(* The bearer check: a token without a row changes nothing. *)
Validate(p) ==
  /\ access[p] # 0
  /\ Ok /\ DropDead(p)
  /\ UNCHANGED <<codes, clock, drawnCodes, drawnPairs, req, sweep, ghosts>>

(* A handler is dropped with its connection at the await it is in; only a  *)
(* transaction already handed over runs on, and nobody hears of its pair.  *)
HangUp(r) ==
  /\ req[r].pc \in {"code", "spent"}
  /\ End(r)
  /\ UNCHANGED <<storeVars, sweep, ghosts>>

-----------------------------------------------------------------------------
(* The reaper's pass reads the time once and sweeps one table, then the    *)
(* other; a failed sweep waits for the next pass.                          *)

SweepStart ==
  /\ sweep.pc = "idle"
  /\ sweep' = [pc |-> "access", now |-> clock]
  /\ UNCHANGED <<storeVars, req, ghosts>>

SweepFirst ==
  /\ sweep.pc = "access"
  /\ \/ Ok /\ SweepAccess(sweep.now)
     \/ Fault
  /\ sweep' = [sweep EXCEPT !.pc = "refresh"]
  /\ UNCHANGED <<codes, clock, drawnCodes, drawnPairs, req, ghosts>>

SweepSecond ==
  /\ sweep.pc = "refresh"
  /\ \/ Ok /\ SweepRefresh(sweep.now)
     \/ Fault
  /\ sweep' = [sweep EXCEPT !.pc = "idle"]
  /\ UNCHANGED <<codes, clock, drawnCodes, drawnPairs, req, ghosts>>

Sweep == SweepStart \/ SweepFirst \/ SweepSecond

(* The server dies between any two steps and is started again: the codes   *)
(* and the requests are gone, the database is as the last commit left it.  *)
DieAndRestart ==
  /\ Mishap
  /\ codes' = [c \in Code |-> None]
  /\ req' = [r \in Req |-> Idle]
  /\ sweep' = [pc |-> "idle", now |-> 0]
  /\ UNCHANGED <<tables, clock, drawnCodes, drawnPairs, ghosts>>

Tick ==
  /\ clock < MaxClock
  /\ clock' = clock + 1
  /\ UNCHANGED <<codes, tables, mishaps, drawnCodes, drawnPairs, req, sweep, ghosts>>

Next ==
  \/ \E client \in Client, uris \in SUBSET Uri : Register(client, uris)
  \/ \E r \in Req :
       \/ \E client \in Client, uri \in Uri, chal \in Challenge : Authorize(r, client, uri, chal)
       \/ AuthorizeCode(r)
       \/ \E c \in Code, uri \in Uri, verifier \in Verifier : Redeem(r, c, uri, verifier)
       \/ \E p \in Pair : Refresh(r, p)
       \/ RefreshIssue(r) \/ Commit(r) \/ HangUp(r)
  \/ \E p \in Pair : Validate(p)
  \/ Sweep \/ DieAndRestart \/ Tick

Spec == Init /\ [][Next]_vars

=============================================================================
