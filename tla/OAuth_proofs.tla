------------------------------ MODULE OAuth_proofs ------------------------------
(***************************************************************************)
(* Proofs about OAuthFlow, for any numbers of requests, logins, pairs,     *)
(* clients, failures and crashes.                                          *)
(***************************************************************************)
EXTENDS OAuthProperties, TLAPS

(* What a request carries: a time or a login it may still act on, and a    *)
(* pair nobody else will insert and no row knows yet.                      *)
CarriesOne(r) ==
    /\ req[r].pc \in {"idle", "code"} => req[r].login = None
    /\ req[r].pc = "code" => /\ req[r].client \in Client /\ req[r].uri \in Uri
                             /\ req[r].chal \in Challenge /\ req[r].at <= clock
    /\ req[r].pc \in {"spent", "commit"} => req[r].login \in Code
    /\ req[r].pc = "commit" =>
         /\ req[r].pair \in Pair /\ req[r].pair <= drawnPairs
         /\ access[req[r].pair] = 0 /\ refresh[req[r].pair] = 0
         /\ \A s \in Req : req[s].pc = "commit" /\ req[s].pair = req[r].pair => s = r

Carries == \A r \in Req : CarriesOne(r)

(* What random_token has not drawn is nowhere yet. *)
Undrawn ==
  /\ \A c \in Code : c > drawnCodes =>
       /\ codes[c] = None
       /\ \A r \in Req : ~Holds(r, c)
       /\ \A p \in Pair : origin[p] # c
  /\ \A p \in Pair : p > drawnPairs => access[p] = 0 /\ refresh[p] = 0 /\ origin[p] = None

(* The sweep's time is past, and rows expire in the order issue gave them. *)
Timely ==
  /\ sweep.now <= clock
  /\ \A p \in Pair : Live(access[p]) => access[p] <= refresh[p] \/ p \in taken
  /\ \A p \in Pair : origin[p] = None => access[p] = 0 /\ refresh[p] = 0

Inv == TypeOK /\ Carries /\ Undrawn /\ Timely /\ OneHolder

-----------------------------------------------------------------------------

LEMMA InitInv == Init => Inv
  BY StoreConstants DEF Init, StoreInit, Inv, TypeOK, StoreTypeOK, Carries, CarriesOne, Undrawn, Timely, OneHolder,
         Holds, Token, Live, Idle, Requests, Sweeps, CodeEntry, Code, Pair, Time

(* The records the steps build. *)
LEMMA IdleRecord == Idle \in Requests
  BY DEF Idle, Requests, Time

LEMMA CodeRecord ==
  \A client \in Client, uri \in Uri, chal \in Challenge, at \in Time :
    [Idle EXCEPT !.pc = "code", !.client = client, !.uri = uri, !.chal = chal, !.at = at]
      \in Requests
  BY DEF Idle, Requests

LEMMA SpentRecord ==
  \A c \in Code, at \in Time : [Idle EXCEPT !.pc = "spent", !.login = c, !.at = at] \in Requests
  BY DEF Idle, Requests

LEMMA CommitRecord ==
  \A c \in Code, p \in Pair, at \in Time :
    [Idle EXCEPT !.pc = "commit", !.login = c, !.pair = p, !.at = at] \in Requests
  BY DEF Idle, Requests

LEMMA DrawPairType ==
  ASSUME TypeOK, NEW r \in Req, NEW c \in Code, DrawPair(r, c)
  PROVE  req' \in [Req -> Requests] /\ drawnPairs' \in 0..MaxPairs
  <1>1. drawnPairs + 1 \in Pair /\ clock \in Time
    BY StoreConstants DEF DrawPair, TypeOK, StoreTypeOK, Pair
  <1>2. [Idle EXCEPT !.pc = "commit", !.login = c, !.pair = drawnPairs + 1, !.at = clock]
          \in Requests
    BY <1>1, CommitRecord
  <1> QED
    BY <1>1, <1>2, StoreConstants DEF DrawPair, TypeOK, Pair

LEMMA InsertCodeType ==
  ASSUME TypeOK, NEW client \in Client, NEW uri \in Uri, NEW chal \in Challenge,
         NEW at \in Time, InsertCode(client, uri, chal, at)
  PROVE  codes' \in [Code -> CodeEntry \cup {None}] /\ drawnCodes' \in 0..MaxCodes
  <1>1. [client |-> client, uri |-> uri, chal |-> chal, expires |-> at + CodeTtl] \in CodeEntry
    BY StoreConstants DEF CodeEntry, Time
  <1> QED
    BY <1>1, StoreConstants DEF InsertCode, TypeOK, StoreTypeOK, Code

(* Each step keeps the types. *)
LEMMA TypeStep == TypeOK /\ Carries /\ [Next]_vars => TypeOK'
  <1> SUFFICES ASSUME TypeOK, Carries, [Next]_vars PROVE TypeOK'
    OBVIOUS
  <1>a. codes \in [Code -> CodeEntry \cup {None}] /\ drawnCodes \in 0..MaxCodes
    BY DEF TypeOK, StoreTypeOK
  <1>b. access \in [Pair -> Time] /\ refresh \in [Pair -> Time] /\ drawnPairs \in 0..MaxPairs
    BY DEF TypeOK, StoreTypeOK
  <1>c. origin \in [Pair -> Code \cup {None}] /\ clients \subseteq Client \X AllowedUri
    BY DEF TypeOK, StoreTypeOK
  <1>d. clock \in Time /\ mishaps \in Nat /\ taken \subseteq Pair
    BY DEF TypeOK, StoreTypeOK
  <1>e. req \in [Req -> Requests] /\ sweep \in Sweeps
    BY DEF TypeOK
  <1> DEFINE Proofs == [entry : CodeEntry, uri : Uri, verifier : Verifier, at : Time] \cup {None}
  <1>f. proof \in [Code -> Proofs]
    BY DEF TypeOK
  <1> HIDE DEF Proofs
  <1> DEFINE Goal ==
        /\ codes' \in [Code -> CodeEntry \cup {None}] /\ drawnCodes' \in 0..MaxCodes
        /\ access' \in [Pair -> Time] /\ refresh' \in [Pair -> Time] /\ drawnPairs' \in 0..MaxPairs
        /\ origin' \in [Pair -> Code \cup {None}] /\ clients' \subseteq Client \X AllowedUri
        /\ clock' \in Time /\ mishaps' \in Nat /\ taken' \subseteq Pair
        /\ req' \in [Req -> Requests] /\ sweep' \in Sweeps
        /\ proof' \in [Code -> Proofs]
  <1> USE DEF Ok, Fault, Mishap, tables, storeVars, ghosts, At
  <1>1. ASSUME NEW client \in Client, NEW uris \in SUBSET Uri, Register(client, uris)
        PROVE Goal
    BY <1>a, <1>b, <1>c, <1>d, <1>e, <1>f, <1>1 DEF Register, Registrable, RegisterClient
  <1>2. ASSUME NEW r \in Req, NEW client \in Client, NEW uri \in Uri, NEW chal \in Challenge,
               Authorize(r, client, uri, chal)
        PROVE Goal
    <2>1. req' \in [Req -> Requests]
      BY <1>a, <1>b, <1>c, <1>d, <1>e, <1>f, <1>2, CodeRecord DEF Authorize
    <2> QED
      BY <1>a, <1>b, <1>c, <1>d, <1>e, <1>f, <1>2, <2>1 DEF Authorize
  <1>3. ASSUME NEW r \in Req, AuthorizeCode(r) PROVE Goal
    <2>1. /\ req[r].client \in Client /\ req[r].uri \in Uri /\ req[r].chal \in Challenge
          /\ req[r].at \in Time
      BY <1>a, <1>b, <1>c, <1>d, <1>e, <1>f, <1>3 DEF AuthorizeCode, Carries, CarriesOne, Requests
    <2>2. codes' \in [Code -> CodeEntry \cup {None}] /\ drawnCodes' \in 0..MaxCodes
      BY <1>a, <1>b, <1>c, <1>d, <1>e, <1>f, <1>3, <2>1, InsertCodeType DEF AuthorizeCode
    <2>3. req' \in [Req -> Requests]
      BY <1>a, <1>b, <1>c, <1>d, <1>e, <1>f, <1>3, IdleRecord DEF AuthorizeCode, End
    <2> QED
      BY <1>a, <1>b, <1>c, <1>d, <1>e, <1>f, <1>3, <2>2, <2>3 DEF AuthorizeCode
  <1>4. ASSUME NEW r \in Req, NEW c \in Code, NEW uri \in Uri, NEW verifier \in Verifier,
               Redeem(r, c, uri, verifier)
        PROVE Goal
    <2>1. codes' \in [Code -> CodeEntry \cup {None}]
      BY <1>a, <1>b, <1>c, <1>d, <1>e, <1>f, <1>4 DEF Redeem, TakeCode
    <2>2. req' \in [Req -> Requests] /\ drawnPairs' \in 0..MaxPairs
      BY <1>a, <1>b, <1>c, <1>d, <1>e, <1>f, <1>4, DrawPairType DEF Redeem
    <2>3. codes[c] \in CodeEntry
      BY <1>a, <1>b, <1>c, <1>d, <1>e, <1>f, <1>4 DEF Redeem
    <2> DEFINE shown == [entry |-> codes[c], uri |-> uri, verifier |-> verifier, at |-> clock]
    <2>6. shown \in Proofs
      BY <1>d, <2>3 DEF Proofs
    <2>7. proof' = [proof EXCEPT ![c] = shown] \/ proof' = proof
      BY <1>a, <1>b, <1>c, <1>d, <1>e, <1>f, <1>4 DEF Redeem
    <2> HIDE DEF shown
    <2>10. proof' \in [Code -> Proofs]
      BY <1>f, <2>6, <2>7
    <2> QED
      BY <1>a, <1>b, <1>c, <1>d, <1>e, <1>f, <1>4, <2>1, <2>2, <2>10 DEF Redeem
  <1>5. ASSUME NEW r \in Req, NEW p \in Pair, Refresh(r, p) PROVE Goal
    <2>1. origin[p] \in Code /\ refresh[p] \in Time
      BY <1>a, <1>b, <1>c, <1>d, <1>e, <1>f, <1>5 DEF Refresh
    <2>2. [Idle EXCEPT !.pc = "spent", !.login = origin[p], !.at = refresh[p]] \in Requests
      BY <2>1, SpentRecord
    <2>3. req' \in [Req -> Requests]
      BY <1>a, <1>b, <1>c, <1>d, <1>e, <1>f, <1>5, <2>2 DEF Refresh
    <2>4. refresh' \in [Pair -> Time] /\ taken' \subseteq Pair /\ mishaps' \in Nat
      BY <1>b, <1>d, <1>5 DEF Refresh, TakeRefresh, Time
    <2>5. UNCHANGED <<codes, clients, access, origin, clock, drawnCodes, drawnPairs, sweep, proof>>
      BY <1>a, <1>b, <1>c, <1>d, <1>e, <1>f, <1>5 DEF Refresh, TakeRefresh
    <2> QED
      BY <1>a, <1>b, <1>c, <1>d, <1>e, <1>f, <2>3, <2>4, <2>5
  <1>6. ASSUME NEW r \in Req, RefreshIssue(r) PROVE Goal
    <2>1. req[r].login \in Code
      BY <1>a, <1>b, <1>c, <1>d, <1>e, <1>f, <1>6 DEF RefreshIssue, Carries, CarriesOne
    <2>2. req' \in [Req -> Requests] /\ drawnPairs' \in 0..MaxPairs
      BY <1>a, <1>b, <1>c, <1>d, <1>e, <1>f, <1>6, <2>1, DrawPairType, IdleRecord DEF RefreshIssue, End
    <2> QED
      BY <1>a, <1>b, <1>c, <1>d, <1>e, <1>f, <1>6, <2>2 DEF RefreshIssue
  <1>7. ASSUME NEW r \in Req, Commit(r) PROVE Goal
    <2>1. req[r].login \in Code /\ req[r].pair \in Pair /\ req[r].at \in Time
      BY <1>a, <1>b, <1>c, <1>d, <1>e, <1>f, <1>7 DEF Commit, Carries, CarriesOne, Requests
    <2>2. req' \in [Req -> Requests]
      BY <1>a, <1>b, <1>c, <1>d, <1>e, <1>f, <1>7, IdleRecord DEF Commit, End
    <2>3. /\ req[r].at + TokenTtl \in Time /\ req[r].at + RefreshTtl \in Time
      BY <2>1, StoreConstants DEF Time
    <2>4. \/ UNCHANGED <<access, refresh, origin>>
          \/ InsertPair(req[r].pair, req[r].login, req[r].at)
      BY <1>a, <1>b, <1>c, <1>d, <1>e, <1>f, <1>7 DEF Commit
    <2>5. access' \in [Pair -> Time] /\ refresh' \in [Pair -> Time]
      BY <1>b, <2>1, <2>3, <2>4 DEF InsertPair
    <2>6. origin' \in [Pair -> Code \cup {None}]
      BY <1>c, <2>1, <2>4 DEF InsertPair
    <2>7. mishaps' \in Nat /\ UNCHANGED <<codes, clients, clock, drawnCodes, drawnPairs, sweep,
                                         proof, taken>>
      BY <1>a, <1>b, <1>c, <1>d, <1>e, <1>f, <1>7 DEF Commit, InsertPair
    <2> QED
      BY <1>a, <1>b, <1>c, <1>d, <1>e, <1>f, <2>2, <2>5, <2>6, <2>7
  <1>8. ASSUME NEW r \in Req, HangUp(r) PROVE Goal
    BY <1>a, <1>b, <1>c, <1>d, <1>e, <1>f, <1>8, IdleRecord DEF HangUp, End
  <1>9. ASSUME NEW p \in Pair, Validate(p) PROVE Goal
    BY <1>a, <1>b, <1>c, <1>d, <1>e, <1>f, <1>9 DEF Validate, DropDead, Time
  <1>10. ASSUME Sweep PROVE Goal
    <2>1. sweep' \in Sweeps
      BY <1>a, <1>b, <1>c, <1>d, <1>e, <1>f, <1>10 DEF Sweep, SweepStart, SweepFirst, SweepSecond, Sweeps
    <2>2. \A rows \in [Pair -> Time], now \in Time : Swept(rows, now) \in [Pair -> Time]
      BY DEF Swept, Time
    <2>3. sweep.now \in Time
      BY <1>e DEF Sweeps
    <2>4. access' = access \/ access' = Swept(access, sweep.now)
      BY <1>a, <1>b, <1>c, <1>d, <1>e, <1>f, <1>10 DEF Sweep, SweepStart, SweepFirst, SweepSecond, SweepAccess, SweepRefresh
    <2>5. refresh' = refresh \/ refresh' = Swept(refresh, sweep.now)
      BY <1>a, <1>b, <1>c, <1>d, <1>e, <1>f, <1>10 DEF Sweep, SweepStart, SweepFirst, SweepSecond, SweepAccess, SweepRefresh
    <2>6. access' \in [Pair -> Time] /\ refresh' \in [Pair -> Time]
      BY <1>b, <2>2, <2>3, <2>4, <2>5
    <2>7. mishaps' \in Nat /\ UNCHANGED <<codes, clients, origin, clock, drawnCodes, drawnPairs,
                                         req, proof, taken>>
      BY <1>a, <1>b, <1>c, <1>d, <1>e, <1>f, <1>10 DEF Sweep, SweepStart, SweepFirst, SweepSecond, SweepAccess, SweepRefresh
    <2> QED
      BY <1>a, <1>b, <1>c, <1>d, <1>e, <1>f, <2>1, <2>6, <2>7
  <1>11. ASSUME DieAndRestart PROVE Goal
    BY <1>a, <1>b, <1>c, <1>d, <1>e, <1>f, <1>11, IdleRecord DEF DieAndRestart, Sweeps, Time
  <1>12. ASSUME Tick PROVE Goal
    BY <1>a, <1>b, <1>c, <1>d, <1>e, <1>f, <1>12 DEF Tick, Time
  <1>13. ASSUME UNCHANGED vars PROVE Goal
    BY <1>a, <1>b, <1>c, <1>d, <1>e, <1>f, <1>13 DEF vars
  <1> HIDE DEF Goal
  <1>14. Goal
    BY <1>1, <1>2, <1>3, <1>4, <1>5, <1>6, <1>7, <1>8, <1>9, <1>10, <1>11, <1>12, <1>13
    DEF Next
  <1> QED
    BY <1>a, <1>b, <1>c, <1>d, <1>e, <1>f, <1>14 DEF Goal, TypeOK, StoreTypeOK, Proofs

(* What the steps do to the requests. *)
LEMMA DrawPairEffect ==
  ASSUME req \in [Req -> Requests], NEW r \in Req, NEW c, DrawPair(r, c)
  PROVE  /\ \A s \in Req : s # r => req'[s] = req[s]
         /\ req'[r].pc = "commit" /\ req'[r].login = c /\ req'[r].pair = drawnPairs + 1
         /\ drawnPairs' = drawnPairs + 1 /\ drawnPairs' \in Pair
  BY DEF DrawPair, Idle

LEMMA EndEffect ==
  ASSUME req \in [Req -> Requests], NEW r \in Req, End(r)
  PROVE  /\ \A s \in Req : s # r => req'[s] = req[s]
         /\ req'[r].pc = "idle" /\ req'[r].login = None
  BY DEF End, Idle

(* The sweep drops only rows that have expired by now. *)
LEMMA SweepSpares ==
  ASSUME Inv, Sweep
  PROVE  /\ \A p \in Pair : access'[p] = access[p] \/ (access'[p] = 0 /\ access[p] <= clock)
         /\ \A p \in Pair : refresh'[p] = refresh[p] \/ (refresh'[p] = 0 /\ refresh[p] <= clock)
  <1>a. access \in [Pair -> Nat] /\ refresh \in [Pair -> Nat]
    BY DEF Inv, TypeOK, StoreTypeOK, Time
  <1>b. sweep.now \in Nat /\ clock \in Nat /\ sweep.now <= clock
    BY DEF Inv, TypeOK, StoreTypeOK, Sweeps, Time, Timely
  <1>c. /\ access' = access \/ access' = Swept(access, sweep.now)
        /\ refresh' = refresh \/ refresh' = Swept(refresh, sweep.now)
    BY DEF Sweep, SweepStart, SweepFirst, SweepSecond, SweepAccess, SweepRefresh, Ok, Fault,
           Mishap, tables, storeVars
  <1>s. \A rows \in [Pair -> Nat], now \in Nat, p \in Pair :
          Swept(rows, now)[p] = rows[p] \/ (Swept(rows, now)[p] = 0 /\ rows[p] <= now)
    <2> SUFFICES ASSUME NEW rows \in [Pair -> Nat], NEW now \in Nat, NEW p \in Pair
                 PROVE  Swept(rows, now)[p] = rows[p] \/ (Swept(rows, now)[p] = 0 /\ rows[p] <= now)
      OBVIOUS
    <2>1. Swept(rows, now)[p] = IF p \in Expired(rows, now) THEN 0 ELSE rows[p]
      BY DEF Swept
    <2>2. CASE rows[p] <= now
      BY <2>1, <2>2 DEF Expired
    <2>3. CASE ~(rows[p] <= now)
      <3>1. p \notin Expired(rows, now)
        BY <2>3 DEF Expired
      <3> QED
        BY <2>1, <3>1, Zenon
    <2> QED
      BY <2>2, <2>3
  <1>d. \A p \in Pair : access'[p] = access[p] \/ (access'[p] = 0 /\ access[p] <= clock)
    BY <1>a, <1>b, <1>c, <1>s
  <1>e. \A p \in Pair : refresh'[p] = refresh[p] \/ (refresh'[p] = 0 /\ refresh[p] <= clock)
    BY <1>a, <1>b, <1>c, <1>s
  <1> QED
    BY <1>d, <1>e

LEMMA RestStep == Inv /\ [Next]_vars => Carries' /\ Undrawn' /\ Timely' /\ OneHolder'
  <1> SUFFICES ASSUME Inv, [Next]_vars PROVE Carries' /\ Undrawn' /\ Timely' /\ OneHolder'
    OBVIOUS
  <1>a. codes \in [Code -> CodeEntry \cup {None}] /\ drawnCodes \in Nat
    BY StoreConstants DEF Inv, TypeOK, StoreTypeOK
  <1>b. access \in [Pair -> Nat] /\ refresh \in [Pair -> Nat] /\ drawnPairs \in Nat
    BY StoreConstants DEF Inv, TypeOK, StoreTypeOK, Time
  <1>c. origin \in [Pair -> Code \cup {None}] /\ clock \in Nat
    BY DEF Inv, TypeOK, StoreTypeOK, Time
  <1>n. drawnCodes \in Nat /\ drawnPairs \in Nat
    BY StoreConstants DEF Inv, TypeOK, StoreTypeOK
  <1>d. req \in [Req -> Requests]
    BY DEF Inv, TypeOK
  <1>e. sweep.now \in Nat
    BY DEF Inv, TypeOK, Sweeps, Time
  <1>f. Carries /\ Undrawn /\ Timely /\ OneHolder
    BY DEF Inv
  <1>g. Code \subseteq Nat /\ Pair \subseteq Nat /\ None \notin Nat
    BY StoreConstants DEF Code, Pair
  <1>h. \A r \in Req : req[r].at \in Nat
    BY <1>d DEF Requests, Time
  <1>o. /\ \A d \in Code : d > drawnCodes => codes[d] = None
        /\ \A d \in Code, s \in Req : d > drawnCodes => req[s].login # d
        /\ \A d \in Code, p \in Pair : d > drawnCodes => origin[p] # d
        /\ \A p \in Pair : p > drawnPairs => access[p] = 0 /\ refresh[p] = 0 /\ origin[p] = None
    BY <1>f DEF Undrawn, Holds
  <1> USE DEF Ok, Fault, Mishap, tables, storeVars, ghosts, At
  <1>1. ASSUME NEW client \in Client, NEW uris \in SUBSET Uri, Register(client, uris)
        PROVE Carries' /\ Undrawn' /\ Timely' /\ OneHolder'
    <2>1. Carries'
      BY <1>a, <1>b, <1>c, <1>d, <1>e, <1>f, <1>g, <1>h, <1>1 DEF Carries, CarriesOne, Register, RegisterClient
    <2>2. Undrawn'
      BY <1>a, <1>b, <1>c, <1>d, <1>e, <1>f, <1>g, <1>h, <1>1 DEF Undrawn, Holds, Register, RegisterClient
    <2>3. Timely'
      BY <1>a, <1>b, <1>c, <1>d, <1>e, <1>f, <1>g, <1>h, <1>1 DEF Timely, Live, Register, RegisterClient
    <2>4. OneHolder'
      BY <1>a, <1>b, <1>c, <1>d, <1>e, <1>f, <1>g, <1>h, <1>1 DEF OneHolder, Holds, Token, Register, RegisterClient
    <2> QED
      BY <2>1, <2>2, <2>3, <2>4
  <1>2. ASSUME NEW r \in Req, NEW client \in Client, NEW uri \in Uri, NEW chal \in Challenge,
               Authorize(r, client, uri, chal)
        PROVE Carries' /\ Undrawn' /\ Timely' /\ OneHolder'
    <2>1. Carries'
      BY <1>a, <1>b, <1>c, <1>d, <1>e, <1>f, <1>g, <1>h, <1>2 DEF Carries, CarriesOne, Authorize, Idle
    <2>2. Undrawn'
      BY <1>a, <1>b, <1>c, <1>d, <1>e, <1>f, <1>g, <1>h, <1>2 DEF Undrawn, Holds, Authorize, Idle
    <2>3. Timely'
      BY <1>a, <1>b, <1>c, <1>d, <1>e, <1>f, <1>g, <1>h, <1>2 DEF Timely, Live, Authorize, Idle
    <2>4. OneHolder'
      BY <1>a, <1>b, <1>c, <1>d, <1>e, <1>f, <1>g, <1>h, <1>2 DEF OneHolder, Holds, Token, Authorize, Idle
    <2> QED
      BY <2>1, <2>2, <2>3, <2>4
  <1>3. ASSUME NEW r \in Req, AuthorizeCode(r)
        PROVE Carries' /\ Undrawn' /\ Timely' /\ OneHolder'
    <2>e. /\ \A s \in Req : s # r => req'[s] = req[s]
          /\ req'[r].pc = "idle" /\ req'[r].login = None
      BY <1>d, <1>3, EndEffect DEF AuthorizeCode
    <2>c. /\ drawnCodes' = drawnCodes + 1
          /\ \A d \in Code : codes'[d] # None => codes[d] # None \/ d = drawnCodes + 1
      BY <1>3 DEF AuthorizeCode, InsertCode
    <2>u. UNCHANGED <<clients, access, refresh, origin, clock, drawnPairs, sweep, taken>>
      BY <1>3 DEF AuthorizeCode
    <2>1. Carries'
      BY <1>a, <1>b, <1>c, <1>e, <1>f, <1>g, <1>h, <2>e, <2>c, <2>u DEF Carries, CarriesOne
    <2>h. \A s \in Req, d \in Code : req'[s].login = d => req[s].login = d
      BY <1>g, <2>e
    <2>d. \A d \in Code : codes[d] # None \/ (\E s \in Req : req[s].login = d)
                           \/ (\E p \in Pair : origin[p] = d) => d <= drawnCodes
      <3>1. \A d \in Code : d <= drawnCodes \/ d > drawnCodes
        BY <1>g, <1>n
      <3> QED
        BY <1>o, <3>1
    <2>g. \A d \in Code : d > drawnCodes' => d > drawnCodes /\ d # drawnCodes + 1
      BY <1>g, <1>n, <2>c
    <2>2. Undrawn'
      BY <1>o, <2>g, <2>h, <2>c, <2>u DEF Undrawn, Holds
    <2>3. Timely'
      BY <1>a, <1>b, <1>c, <1>e, <1>f, <1>g, <1>h, <2>e, <2>c, <2>u DEF Timely, Live
    <2>4. OneHolder'
      BY <1>a, <1>f, <1>g, <2>d, <2>h, <2>c, <2>u DEF OneHolder, Holds, Token
    <2> QED
      BY <2>1, <2>2, <2>3, <2>4
  <1>4. ASSUME NEW r \in Req, NEW c \in Code, NEW uri \in Uri, NEW verifier \in Verifier,
               Redeem(r, c, uri, verifier)
        PROVE Carries' /\ Undrawn' /\ Timely' /\ OneHolder'
    <2>u. /\ UNCHANGED <<access, refresh, origin, clock, drawnCodes, sweep, taken>>
          /\ codes[c] # None /\ codes' = [codes EXCEPT ![c] = None]
      BY <1>4 DEF Redeem, TakeCode
    <2>a. CASE Redeemable(codes[c], uri, verifier)
      <3>e. /\ \A s \in Req : s # r => req'[s] = req[s]
            /\ req'[r].pc = "commit" /\ req'[r].login = c /\ req'[r].pair = drawnPairs + 1
            /\ drawnPairs' = drawnPairs + 1 /\ drawnPairs' \in Pair
        BY <1>d, <1>4, <2>a, DrawPairEffect DEF Redeem
      <3>p. /\ access[drawnPairs + 1] = 0 /\ refresh[drawnPairs + 1] = 0
            /\ \A s \in Req : req[s].pc = "commit" => req[s].pair # drawnPairs + 1
        BY <1>b, <1>f, <1>g, <3>e DEF Carries, CarriesOne, Undrawn
      <3>1. Carries'
        <4>1. SUFFICES ASSUME NEW x \in Req PROVE CarriesOne(x)'
          BY DEF Carries
        <4>2. CASE x = r
          BY <1>b, <1>f, <1>g, <2>u, <3>e, <3>p, <4>2 DEF CarriesOne
        <4>3. CASE x # r
          <5>1. req'[x] = req[x] /\ CarriesOne(x)
            BY <1>f, <3>e, <4>3 DEF Carries
          <5>2. req[x].pc = "commit" =>
                  \A s \in Req : req'[s].pc = "commit" /\ req'[s].pair = req[x].pair => s = x
            BY <3>e, <3>p, <5>1 DEF CarriesOne
          <5>3. req[x].pc = "commit" => req[x].pair <= drawnPairs'
            <6>1. req[x].pc = "commit" => req[x].pair \in Pair /\ req[x].pair <= drawnPairs
              BY <5>1 DEF CarriesOne
            <6>2. drawnPairs' = drawnPairs + 1
              BY <3>e
            <6>3. \A q \in Pair : q <= drawnPairs => q <= drawnPairs + 1
              BY <1>b, <1>g
            <6> QED
              BY <6>1, <6>2, <6>3
          <5> QED
            BY <2>u, <5>1, <5>2, <5>3 DEF CarriesOne
        <4> QED
          BY <4>2, <4>3
      <3>2. Undrawn'
        <4>1. \A s \in Req : req'[s].login \in {req[s].login, c}
          BY <3>e
        <4>2. ~(c > drawnCodes)
          BY <1>o, <2>u
        <4>3. \A q \in Pair : q > drawnPairs' => q > drawnPairs
          BY <1>g, <1>n, <3>e
        <4>4. \A d \in Code : codes[d] = None => codes'[d] = None
          BY <1>a, <2>u
        <4> QED
          BY <1>o, <2>u, <4>1, <4>2, <4>3, <4>4 DEF Undrawn, Holds
      <3>3. Timely'
        BY <1>a, <1>b, <1>c, <1>e, <1>f, <1>g, <1>h, <2>u, <3>e DEF Timely, Live
      <3>c. /\ codes'[c] = None /\ \A d \in Code : d # c => codes'[d] = codes[d]
        BY <1>a, <2>u
      <3>n. \A s \in Req, p \in Pair : ~Holds(s, c) /\ ~Token(p, c)
        BY <1>f, <2>u DEF OneHolder
      <3>4. OneHolder'
        BY <1>f, <2>u, <3>c, <3>e, <3>n DEF OneHolder, Holds, Token
      <3> QED
        BY <3>1, <3>2, <3>3, <3>4
    <2>b. CASE ~Redeemable(codes[c], uri, verifier)
      <3>e. UNCHANGED <<req, drawnPairs>>
        BY <1>4, <2>b DEF Redeem
      <3>1. Carries'
        BY <1>a, <1>b, <1>c, <1>e, <1>f, <1>g, <1>h, <2>u, <3>e DEF Carries, CarriesOne
      <3>2. Undrawn'
        BY <1>a, <1>b, <1>c, <1>e, <1>f, <1>g, <1>h, <2>u, <3>e DEF Undrawn, Holds
      <3>3. Timely'
        BY <1>a, <1>b, <1>c, <1>e, <1>f, <1>g, <1>h, <2>u, <3>e DEF Timely, Live
      <3>4. OneHolder'
        BY <1>a, <1>b, <1>c, <1>e, <1>f, <1>g, <1>h, <2>u, <3>e DEF OneHolder, Holds, Token
      <3> QED
        BY <3>1, <3>2, <3>3, <3>4
    <2> QED
      BY <2>a, <2>b
  <1>5. ASSUME NEW r \in Req, NEW p \in Pair, Refresh(r, p)
        PROVE Carries' /\ Undrawn' /\ Timely' /\ OneHolder'
    <2>u. UNCHANGED <<codes, access, origin, clock, drawnCodes, drawnPairs, sweep>>
      BY <1>5 DEF Refresh, TakeRefresh
    <2>r. /\ \A s \in Req : s # r => req'[s] = req[s]
          /\ \/ req'[r] = req[r]
             \/ /\ req'[r].pc = "spent" /\ req'[r].login = origin[p]
                /\ origin[p] # None /\ refresh[p] # 0 /\ refresh' = [refresh EXCEPT ![p] = 0]
      BY <1>d, <1>5 DEF Refresh, TakeRefresh, Idle
    <2>t. \/ refresh' = refresh /\ taken' = taken
          \/ refresh' = [refresh EXCEPT ![p] = 0] /\ taken' = taken \cup {p}
      BY <1>5 DEF Refresh, TakeRefresh
    <2>1. Carries'
      <3> SUFFICES ASSUME NEW x \in Req PROVE CarriesOne(x)'
        BY DEF Carries
      <3>0. CarriesOne(x) /\ refresh' \in [Pair -> Nat]
        BY <1>b, <1>f, <2>t DEF Carries
      <3>1. \A q \in Pair : refresh[q] = 0 => refresh'[q] = 0
        BY <1>b, <2>t
      <3>2. CASE req'[x] = req[x]
        <4>1. req[x].pc = "commit" =>
                \A s \in Req : req'[s].pc = "commit" /\ req'[s].pair = req[x].pair => s = x
          BY <2>r, <3>0 DEF CarriesOne
        <4> QED
          BY <2>u, <3>0, <3>1, <3>2, <4>1 DEF CarriesOne
      <3>3. CASE req'[x] # req[x]
        BY <1>c, <2>r, <3>3 DEF CarriesOne
      <3> QED
        BY <3>2, <3>3
    <2>2. Undrawn'
      BY <1>a, <1>b, <1>c, <1>e, <1>f, <1>g, <1>h, <2>u, <2>r, <2>t DEF Undrawn, Holds
    <2>3. Timely'
      BY <1>a, <1>b, <1>c, <1>e, <1>f, <1>g, <1>h, <2>u, <2>r, <2>t DEF Timely, Live
    <2>4. OneHolder'
      BY <1>a, <1>b, <1>c, <1>e, <1>f, <1>g, <1>h, <2>u, <2>r, <2>t DEF OneHolder, Holds, Token
    <2> QED
      BY <2>1, <2>2, <2>3, <2>4
  <1>6. ASSUME NEW r \in Req, RefreshIssue(r)
        PROVE Carries' /\ Undrawn' /\ Timely' /\ OneHolder'
    <2>u. /\ UNCHANGED <<codes, access, refresh, origin, clock, drawnCodes, sweep, taken>>
          /\ req[r].pc = "spent"
      BY <1>6 DEF RefreshIssue
    <2>a. CASE Live(req[r].at)
      <3>e. /\ \A s \in Req : s # r => req'[s] = req[s]
            /\ req'[r].pc = "commit" /\ req'[r].login = req[r].login
            /\ req'[r].pair = drawnPairs + 1
            /\ drawnPairs' = drawnPairs + 1 /\ drawnPairs' \in Pair
        BY <1>d, <1>6, <2>a, DrawPairEffect DEF RefreshIssue
      <3>p. /\ access[drawnPairs + 1] = 0 /\ refresh[drawnPairs + 1] = 0
            /\ req[r].login \in Code
            /\ \A s \in Req : req[s].pc = "commit" => req[s].pair # drawnPairs + 1
        BY <1>b, <1>f, <1>g, <2>u, <3>e DEF Carries, CarriesOne, Undrawn
      <3>1. Carries'
        <4>1. SUFFICES ASSUME NEW x \in Req PROVE CarriesOne(x)'
          BY DEF Carries
        <4>2. CASE x = r
          BY <1>b, <1>f, <1>g, <2>u, <3>e, <3>p, <4>2 DEF CarriesOne
        <4>3. CASE x # r
          <5>1. req'[x] = req[x] /\ CarriesOne(x)
            BY <1>f, <3>e, <4>3 DEF Carries
          <5>2. req[x].pc = "commit" =>
                  \A s \in Req : req'[s].pc = "commit" /\ req'[s].pair = req[x].pair => s = x
            BY <3>e, <3>p, <5>1 DEF CarriesOne
          <5>3. req[x].pc = "commit" => req[x].pair <= drawnPairs'
            <6>1. req[x].pc = "commit" => req[x].pair \in Pair /\ req[x].pair <= drawnPairs
              BY <5>1 DEF CarriesOne
            <6>2. drawnPairs' = drawnPairs + 1
              BY <3>e
            <6>3. \A q \in Pair : q <= drawnPairs => q <= drawnPairs + 1
              BY <1>b, <1>g
            <6> QED
              BY <6>1, <6>2, <6>3
          <5> QED
            BY <2>u, <5>1, <5>2, <5>3 DEF CarriesOne
        <4> QED
          BY <4>2, <4>3
      <3>h. \A s \in Req : req'[s].login = req[s].login
        BY <3>e
      <3>i. drawnPairs' = drawnPairs + 1
        BY <3>e
      <3>2. Undrawn'
        <4>1. \A d \in Code : d > drawnCodes => \A s \in Req : req'[s].login # d
          BY <1>f, <3>h DEF Undrawn, Holds
        <4>2. \A p \in Pair : p > drawnPairs' => p > drawnPairs
          BY <1>b, <1>g, <3>i
        <4>3. \A p \in Pair : p > drawnPairs' => access[p] = 0 /\ refresh[p] = 0 /\ origin[p] = None
          BY <1>f, <4>2 DEF Undrawn
        <4>4. \A d \in Code : d > drawnCodes => codes[d] = None /\ \A p \in Pair : origin[p] # d
          BY <1>f DEF Undrawn
        <4> QED
          BY <2>u, <4>1, <4>3, <4>4 DEF Undrawn, Holds
      <3>3. Timely'
        BY <1>a, <1>b, <1>c, <1>e, <1>f, <1>g, <1>h, <2>u, <3>e DEF Timely, Live
      <3>4. OneHolder'
        BY <1>f, <2>u, <3>h DEF OneHolder, Holds, Token
      <3> QED
        BY <3>1, <3>2, <3>3, <3>4
    <2>b. CASE ~Live(req[r].at)
      <3>e. /\ \A s \in Req : s # r => req'[s] = req[s]
            /\ req'[r].pc = "idle" /\ req'[r].login = None
            /\ drawnPairs' = drawnPairs
        BY <1>d, <1>6, <2>b, EndEffect DEF RefreshIssue
      <3>1. Carries'
        BY <1>a, <1>b, <1>c, <1>e, <1>f, <1>g, <1>h, <2>u, <3>e DEF Carries, CarriesOne
      <3>2. Undrawn'
        <4>1. \A d \in Code, s \in Req : d > drawnCodes => req'[s].login # d
          BY <1>f, <1>g, <3>e DEF Undrawn, Holds
        <4>2. \A d \in Code : d > drawnCodes => codes[d] = None /\ \A p \in Pair : origin[p] # d
          BY <1>f DEF Undrawn
        <4>3. \A p \in Pair : p > drawnPairs => access[p] = 0 /\ refresh[p] = 0 /\ origin[p] = None
          BY <1>f DEF Undrawn
        <4> QED
          BY <2>u, <3>e, <4>1, <4>2, <4>3 DEF Undrawn, Holds
      <3>3. Timely'
        BY <1>a, <1>b, <1>c, <1>e, <1>f, <1>g, <1>h, <2>u, <3>e DEF Timely, Live
      <3>h. \A s \in Req, d \in Code : req'[s].login = d => req[s].login = d
        BY <1>g, <3>e
      <3>4. OneHolder'
        BY <1>f, <2>u, <3>h DEF OneHolder, Holds, Token
      <3> QED
        BY <3>1, <3>2, <3>3, <3>4
    <2> QED
      BY <2>a, <2>b
  <1>7. ASSUME NEW r \in Req, Commit(r)
        PROVE Carries' /\ Undrawn' /\ Timely' /\ OneHolder'
    <2>e. /\ \A s \in Req : s # r => req'[s] = req[s]
          /\ req'[r].pc = "idle" /\ req'[r].login = None
      BY <1>d, <1>7, EndEffect DEF Commit
    <2>u. /\ UNCHANGED <<codes, clock, drawnCodes, drawnPairs, sweep, taken>>
          /\ req[r].pc = "commit"
      BY <1>7 DEF Commit
    <2> DEFINE p == req[r].pair
    <2>p. /\ p \in Pair /\ p <= drawnPairs /\ access[p] = 0 /\ refresh[p] = 0
          /\ req[r].login \in Code
          /\ \A s \in Req : s # r /\ req[s].pc = "commit" => req[s].pair # p
      BY <1>f, <2>u DEF Carries, CarriesOne
    <2>i. \/ UNCHANGED <<access, refresh, origin>>
          \/ /\ access' = [access EXCEPT ![p] = req[r].at + TokenTtl]
             /\ refresh' = [refresh EXCEPT ![p] = req[r].at + RefreshTtl]
             /\ origin' = [origin EXCEPT ![p] = req[r].login]
      BY <1>7 DEF Commit, InsertPair
    <2>n. req[r].at + TokenTtl <= req[r].at + RefreshTtl
      BY <1>h, StoreConstants
    <2> HIDE DEF p
    <2>1. Carries'
      <3> SUFFICES ASSUME NEW x \in Req PROVE CarriesOne(x)'
        BY DEF Carries
      <3>1. CASE x = r
        BY <2>e, <3>1 DEF CarriesOne
      <3>2. CASE x # r
        <4>1. CarriesOne(x) /\ req'[x] = req[x]
          BY <1>f, <2>e, <3>2 DEF Carries
        <4>2. req[x].pc = "commit" => req[x].pair # p
          BY <2>p, <3>2
        <4>3. \A q \in Pair : q # p => access'[q] = access[q] /\ refresh'[q] = refresh[q]
          BY <1>b, <2>i
        <4>4. req[x].pc = "commit" =>
                \A s \in Req : req'[s].pc = "commit" /\ req'[s].pair = req[x].pair => s = x
          BY <2>e, <4>1 DEF CarriesOne
        <4> QED
          BY <2>u, <4>1, <4>2, <4>3, <4>4 DEF CarriesOne
      <3> QED
        BY <3>1, <3>2
    <2> DEFINE c == req[r].login
    <2>c. c \in Code /\ c \in Nat /\ Holds(r, c)
      BY <1>g, <2>p DEF Holds
    <2> HIDE DEF c
    <2>m. ~(c > drawnCodes)
      BY <1>f, <2>c DEF Undrawn
    <2>l. req[r].login <= drawnCodes
      BY <1>a, <2>c, <2>m DEF c
    <2>h. \A s \in Req, d \in Code : req'[s].login = d => req[s].login = d
      BY <1>g, <2>e
    <2>2. Undrawn'
      BY <1>a, <1>b, <1>c, <1>f, <1>g, <2>h, <2>l, <2>u, <2>p, <2>i DEF Undrawn, Holds
    <2>3. Timely'
      BY <1>a, <1>b, <1>c, <1>e, <1>f, <1>g, <1>h, <2>e, <2>u, <2>p, <2>i, <2>n, ZenonT(60) DEF Timely, Live
    <2>4. OneHolder'
      BY <1>a, <1>b, <1>c, <1>e, <1>f, <1>g, <1>h, <2>e, <2>u, <2>p, <2>i, <2>n DEF OneHolder, Holds, Token
    <2> QED
      BY <2>1, <2>2, <2>3, <2>4
  <1>8. ASSUME NEW r \in Req, HangUp(r)
        PROVE Carries' /\ Undrawn' /\ Timely' /\ OneHolder'
    <2>1. Carries'
      BY <1>a, <1>b, <1>c, <1>d, <1>e, <1>f, <1>g, <1>h, <1>8 DEF Carries, CarriesOne, HangUp, End, Idle
    <2>2. Undrawn'
      BY <1>a, <1>b, <1>c, <1>d, <1>e, <1>f, <1>g, <1>h, <1>8 DEF Undrawn, Holds, HangUp, End, Idle
    <2>3. Timely'
      BY <1>a, <1>b, <1>c, <1>d, <1>e, <1>f, <1>g, <1>h, <1>8 DEF Timely, Live, HangUp, End, Idle
    <2>4. OneHolder'
      BY <1>a, <1>b, <1>c, <1>d, <1>e, <1>f, <1>g, <1>h, <1>8 DEF OneHolder, Holds, Token, HangUp, End, Idle
    <2> QED
      BY <2>1, <2>2, <2>3, <2>4
  <1>9. ASSUME NEW p \in Pair, Validate(p)
        PROVE Carries' /\ Undrawn' /\ Timely' /\ OneHolder'
    <2>1. Carries'
      BY <1>a, <1>b, <1>c, <1>d, <1>e, <1>f, <1>g, <1>h, <1>9 DEF Carries, CarriesOne, Validate, DropDead
    <2>2. Undrawn'
      BY <1>a, <1>b, <1>c, <1>d, <1>e, <1>f, <1>g, <1>h, <1>9 DEF Undrawn, Holds, Validate, DropDead
    <2>3. Timely'
      BY <1>a, <1>b, <1>c, <1>d, <1>e, <1>f, <1>g, <1>h, <1>9 DEF Timely, Live, Validate, DropDead
    <2>4. OneHolder'
      BY <1>a, <1>b, <1>c, <1>d, <1>e, <1>f, <1>g, <1>h, <1>9 DEF OneHolder, Holds, Token, Validate, DropDead
    <2> QED
      BY <2>1, <2>2, <2>3, <2>4
  <1>10. ASSUME Sweep
        PROVE Carries' /\ Undrawn' /\ Timely' /\ OneHolder'
    <2>1. Carries'
      BY <1>a, <1>b, <1>c, <1>d, <1>e, <1>f, <1>g, <1>h, <1>10 DEF Carries, CarriesOne, Sweep, SweepStart, SweepFirst, SweepSecond, SweepAccess, SweepRefresh, Swept, Expired
    <2>2. Undrawn'
      BY <1>a, <1>b, <1>c, <1>d, <1>e, <1>f, <1>g, <1>h, <1>10 DEF Undrawn, Holds, Sweep, SweepStart, SweepFirst, SweepSecond, SweepAccess, SweepRefresh, Swept, Expired
    <2>a. UNCHANGED <<clock, taken, origin>>
      BY <1>10 DEF Sweep, SweepStart, SweepFirst, SweepSecond, SweepAccess, SweepRefresh
    <2>b. sweep'.now \in {sweep.now, clock}
      BY <1>10 DEF Sweep, SweepStart, SweepFirst, SweepSecond, Inv, TypeOK, Sweeps
    <2>c. /\ \A p \in Pair : access'[p] = access[p] \/ (access'[p] = 0 /\ access[p] <= clock)
          /\ \A p \in Pair : refresh'[p] = refresh[p] \/ (refresh'[p] = 0 /\ refresh[p] <= clock)
      BY <1>10, SweepSpares
    <2>3. Timely'
      BY <1>b, <1>c, <1>e, <1>f, <2>a, <2>b, <2>c DEF Timely, Live
    <2>4. OneHolder'
      BY <1>a, <1>b, <1>c, <1>d, <1>e, <1>f, <1>g, <1>h, <1>10 DEF OneHolder, Holds, Token, Sweep, SweepStart, SweepFirst, SweepSecond, SweepAccess, SweepRefresh, Swept, Expired
    <2> QED
      BY <2>1, <2>2, <2>3, <2>4
  <1>11. ASSUME DieAndRestart
        PROVE Carries' /\ Undrawn' /\ Timely' /\ OneHolder'
    <2>1. Carries'
      BY <1>a, <1>b, <1>c, <1>d, <1>e, <1>f, <1>g, <1>h, <1>11 DEF Carries, CarriesOne, DieAndRestart, Idle
    <2>2. Undrawn'
      BY <1>a, <1>b, <1>c, <1>d, <1>e, <1>f, <1>g, <1>h, <1>11 DEF Undrawn, Holds, DieAndRestart, Idle
    <2>3. Timely'
      BY <1>a, <1>b, <1>c, <1>d, <1>e, <1>f, <1>g, <1>h, <1>11 DEF Timely, Live, DieAndRestart, Idle
    <2>4. OneHolder'
      BY <1>a, <1>b, <1>c, <1>d, <1>e, <1>f, <1>g, <1>h, <1>11 DEF OneHolder, Holds, Token, DieAndRestart, Idle
    <2> QED
      BY <2>1, <2>2, <2>3, <2>4
  <1>12. ASSUME Tick
        PROVE Carries' /\ Undrawn' /\ Timely' /\ OneHolder'
    <2>1. Carries'
      BY <1>a, <1>b, <1>c, <1>d, <1>e, <1>f, <1>g, <1>h, <1>12 DEF Carries, CarriesOne, Tick
    <2>2. Undrawn'
      BY <1>a, <1>b, <1>c, <1>d, <1>e, <1>f, <1>g, <1>h, <1>12 DEF Undrawn, Holds, Tick
    <2>3. Timely'
      BY <1>a, <1>b, <1>c, <1>d, <1>e, <1>f, <1>g, <1>h, <1>12 DEF Timely, Live, Tick
    <2>4. OneHolder'
      BY <1>a, <1>b, <1>c, <1>d, <1>e, <1>f, <1>g, <1>h, <1>12 DEF OneHolder, Holds, Token, Tick
    <2> QED
      BY <2>1, <2>2, <2>3, <2>4
  <1>13. ASSUME UNCHANGED vars
        PROVE Carries' /\ Undrawn' /\ Timely' /\ OneHolder'
    <2>1. Carries'
      BY <1>a, <1>b, <1>c, <1>d, <1>e, <1>f, <1>g, <1>h, <1>13 DEF Carries, CarriesOne, vars
    <2>2. Undrawn'
      BY <1>a, <1>b, <1>c, <1>d, <1>e, <1>f, <1>g, <1>h, <1>13 DEF Undrawn, Holds, vars
    <2>3. Timely'
      BY <1>a, <1>b, <1>c, <1>d, <1>e, <1>f, <1>g, <1>h, <1>13 DEF Timely, Live, vars
    <2>4. OneHolder'
      BY <1>a, <1>b, <1>c, <1>d, <1>e, <1>f, <1>g, <1>h, <1>13 DEF OneHolder, Holds, Token, vars
    <2> QED
      BY <2>1, <2>2, <2>3, <2>4
  <1> QED
    BY <1>1, <1>2, <1>3, <1>4, <1>5, <1>6, <1>7, <1>8, <1>9, <1>10, <1>11, <1>12, <1>13
    DEF Next

LEMMA StepInv == Inv /\ [Next]_vars => Inv'
  BY TypeStep, RestStep DEF Inv

LEMMA Invariance == Spec => []Inv
  BY InitInv, StepInv, PTL DEF Spec

(* Every reachable state is well typed. *)
THEOREM OAuthIsTyped == Spec => []TypeOK
  <1>1. Inv => TypeOK
    BY DEF Inv
  <1> QED
    BY <1>1, Invariance, PTL

(* A login is in one place at a time, whatever requests, failures and      *)
(* crashes do: no code and no refresh token is ever good for two answers.  *)
THEOREM LoginsAreLinear == Spec => []OneHolder
  <1>1. Inv => OneHolder
    BY DEF Inv
  <1> QED
    BY <1>1, Invariance, PTL

(* A working access token can be renewed until its refresh token is used.  *)
THEOREM WorkingIsRenewable == Spec => []Renewable
  <1>1. Inv => Renewable
    <2> SUFFICES ASSUME Inv, NEW p \in Pair, Live(access[p]), p \notin taken
                 PROVE  Live(refresh[p])
      BY DEF Renewable
    <2>1. access[p] <= refresh[p]
      BY DEF Inv, Timely
    <2>2. access[p] \in Nat /\ refresh[p] \in Nat /\ clock \in Nat
      BY DEF Inv, TypeOK, StoreTypeOK, Time
    <2> QED
      BY <2>1, <2>2 DEF Live
  <1> QED
    BY <1>1, Invariance, PTL

-----------------------------------------------------------------------------

(* Nobody's credentials go because of somebody else. *)
THEOREM CredentialsAreSafe == Spec => CredentialsStay
  <1> DEFINE Stay ==
        /\ \A p \in Pair : Live(access[p]) => access'[p] = access[p]
        /\ \A p \in Pair : Live(refresh[p]) /\ refresh'[p] # refresh[p] => p \in taken'
        /\ \A c \in Code :
             codes[c] # None /\ codes'[c] # codes[c] /\ Live(codes[c].expires) =>
               drawnCodes' = drawnCodes
  <1>1. ASSUME Inv, Next PROVE Stay
    <2>a. codes \in [Code -> CodeEntry \cup {None}] /\ drawnCodes \in Nat /\ clock \in Nat
      BY <1>1, StoreConstants DEF Inv, TypeOK, StoreTypeOK, Time
    <2>b. access \in [Pair -> Nat] /\ refresh \in [Pair -> Nat] /\ req \in [Req -> Requests]
      BY <1>1 DEF Inv, TypeOK, StoreTypeOK, Time
    <2>c. Carries /\ Undrawn /\ Timely
      BY <1>1 DEF Inv
    <2> USE DEF Ok, Fault, Mishap, tables, storeVars, ghosts, At
    <2>1. ASSUME NEW client \in Client, NEW uris \in SUBSET Uri, Register(client, uris)
          PROVE Stay
      BY <2>1 DEF Register, RegisterClient
    <2>2. ASSUME NEW r \in Req, NEW client \in Client, NEW uri \in Uri, NEW chal \in Challenge,
                 Authorize(r, client, uri, chal)
          PROVE Stay
      BY <2>2 DEF Authorize
    <2>3. ASSUME NEW r \in Req, AuthorizeCode(r) PROVE Stay
      <3>1. req[r].at <= clock /\ req[r].at \in Nat
        BY <2>b, <2>c, <2>3 DEF AuthorizeCode, Carries, CarriesOne, Requests, Time
      <3>2. \A c \in Code : codes[c] # None => codes[c].expires \in Nat /\ c # drawnCodes + 1
        BY <2>a, <2>c, StoreConstants DEF CodeEntry, Undrawn, Code, Time
      <3>3. \A c \in Code : codes[c] # None /\ codes[c].expires > req[r].at => codes'[c] = codes[c]
        BY <2>3, <3>2 DEF AuthorizeCode, InsertCode
      <3>4. \A c \in Code : codes[c] # None /\ Live(codes[c].expires) => codes'[c] = codes[c]
        BY <2>a, <3>1, <3>2, <3>3 DEF Live
      <3> QED
        BY <2>3, <3>4 DEF AuthorizeCode
    <2>4. ASSUME NEW r \in Req, NEW c \in Code, NEW uri \in Uri, NEW verifier \in Verifier,
                 Redeem(r, c, uri, verifier)
          PROVE Stay
      BY <2>4 DEF Redeem
    <2>5. ASSUME NEW r \in Req, NEW p \in Pair, Refresh(r, p) PROVE Stay
      <3>1. UNCHANGED <<codes, access, drawnCodes>>
        BY <2>5 DEF Refresh, TakeRefresh
      <3>2. \/ UNCHANGED refresh
            \/ refresh' = [refresh EXCEPT ![p] = 0] /\ p \in taken'
        BY <2>5 DEF Refresh, TakeRefresh
      <3> QED
        BY <2>b, <3>1, <3>2
    <2>6. ASSUME NEW r \in Req, RefreshIssue(r) PROVE Stay
      BY <2>6 DEF RefreshIssue
    <2>7. ASSUME NEW r \in Req, Commit(r) PROVE Stay
      <3>1. req[r].pair \in Pair /\ access[req[r].pair] = 0 /\ refresh[req[r].pair] = 0
        BY <2>c, <2>7 DEF Commit, Carries, CarriesOne
      <3>2. UNCHANGED <<codes, drawnCodes>>
        BY <2>7 DEF Commit
      <3>3. \A p \in Pair : p # req[r].pair => access'[p] = access[p] /\ refresh'[p] = refresh[p]
        BY <2>7, <2>b, <3>1 DEF Commit, InsertPair
      <3>4. ~Live(access[req[r].pair]) /\ ~Live(refresh[req[r].pair])
        BY <2>a, <3>1 DEF Live
      <3> QED
        BY <3>2, <3>3, <3>4
    <2>8. ASSUME NEW r \in Req, HangUp(r) PROVE Stay
      BY <2>8 DEF HangUp
    <2>9. ASSUME NEW p \in Pair, Validate(p) PROVE Stay
      <3>1. UNCHANGED <<codes, drawnCodes, refresh>>
        BY <2>9 DEF Validate, DropDead
      <3>2. \A q \in Pair : Live(access[q]) => access'[q] = access[q]
        BY <2>9, <2>b DEF Validate, DropDead
      <3> QED
        BY <3>1, <3>2
    <2>10. ASSUME Sweep PROVE Stay
      <3>1. UNCHANGED <<codes, drawnCodes>>
        BY <2>10 DEF Sweep, SweepStart, SweepFirst, SweepSecond
      <3>2. \A p \in Pair : access'[p] = access[p] \/ access[p] <= clock
        BY <1>1, <2>10, SweepSpares
      <3>3. \A p \in Pair : refresh'[p] = refresh[p] \/ refresh[p] <= clock
        BY <1>1, <2>10, SweepSpares
      <3> QED
        BY <2>a, <2>b, <3>1, <3>2, <3>3 DEF Live
    <2>11. ASSUME DieAndRestart PROVE Stay
      BY <2>11 DEF DieAndRestart
    <2>12. ASSUME Tick PROVE Stay
      BY <2>12 DEF Tick
    <2> QED
      BY <1>1, <2>1, <2>2, <2>3, <2>4, <2>5, <2>6, <2>7, <2>8, <2>9, <2>10, <2>11, <2>12 DEF Next
  <1>2. Inv /\ [Next]_vars => [Stay]_vars
    BY <1>1
  <1> QED
    BY <1>2, Invariance, PTL DEF Spec, CredentialsStay

-----------------------------------------------------------------------------
(* The refinement.  A login can only be lost, or be handed on.             *)

LEMMA Lost ==
  ASSUME \A c \in Code : \/ GrantOf(c)' = GrantOf(c)
                         \/ GrantOf(c) # "unborn" /\ GrantOf(c)' = "over",
         \A c \in Code : GrantOf(c) \in Grants!Places
  PROVE  Grants!GrantNext
  <1> DEFINE cs == {c \in Code : GrantOf(c)' # GrantOf(c)}
  <1>1. \A c \in cs : GrantMap[c] \in Grants!Places \ {"unborn"}
    BY DEF GrantMap
  <1>2. GrantMap' = [c \in Code |-> IF c \in cs THEN "over" ELSE GrantMap[c]]
    BY DEF GrantMap
  <1>3. cs \in SUBSET Code
    OBVIOUS
  <1> HIDE DEF cs
  <1> QED
    BY <1>1, <1>2, <1>3 DEF Grants!GrantNext, Grants!Lose, Grants!Pass

LEMMA HandedOn ==
  ASSUME NEW c \in Code, \A d \in Code : d # c => GrantOf(d)' = GrantOf(d),
         \/ GrantOf(c) \in {"code", "token"} /\ GrantOf(c)' = "request"
         \/ GrantOf(c) = "request" /\ GrantOf(c)' = "token"
  PROVE  Grants!GrantNext
  <1>1. GrantMap[c] = GrantOf(c)
    BY DEF GrantMap
  <1>2. GrantMap' = [d \in Code |-> IF d \in {c} THEN GrantOf(c)' ELSE GrantMap[d]]
    BY DEF GrantMap
  <1>3. CASE GrantOf(c)' = "request"
    BY <1>1, <1>2, <1>3 DEF Grants!GrantNext, Grants!Spend, Grants!Pass
  <1>4. CASE GrantOf(c)' = "token"
    BY <1>1, <1>2, <1>4 DEF Grants!GrantNext, Grants!Mint, Grants!Pass
  <1> QED
    BY <1>3, <1>4

LEMMA Places == \A c \in Code : GrantOf(c) \in Grants!Places
  BY DEF GrantOf, Grants!Places

(* At most one of the three holds a login, and only one that was issued.   *)
LEMMA Whereabouts ==
  ASSUME Inv, NEW c \in Code
  PROVE  /\ codes[c] # None => ~Requested(c) /\ ~Refreshable(c)
         /\ ~(Requested(c) /\ Refreshable(c))
         /\ codes[c] # None \/ Requested(c) \/ Refreshable(c) => c <= drawnCodes
  <1>1. OneHolder /\ Undrawn
    BY DEF Inv
  <1>2. c \in Nat /\ drawnCodes \in Nat
    BY StoreConstants DEF Inv, TypeOK, StoreTypeOK, Code
  <1>3. codes[c] # None \/ Requested(c) \/ Refreshable(c) => ~(c > drawnCodes)
    BY <1>1 DEF Undrawn, Requested, Refreshable, Token
  <1>4. codes[c] # None => ~Requested(c) /\ ~Refreshable(c)
    BY <1>1 DEF OneHolder, Requested, Refreshable
  <1>5. ~(Requested(c) /\ Refreshable(c))
    BY <1>1 DEF OneHolder, Requested, Refreshable
  <1> QED
    BY <1>2, <1>3, <1>4, <1>5

(* A step after which nobody holds a login who did not hold it before.     *)
LEMMA LosingStep ==
  ASSUME Inv, drawnCodes' = drawnCodes,
         \A c \in Code : /\ codes'[c] # None => codes[c] # None
                         /\ Requested(c)' => Requested(c)
                         /\ Refreshable(c)' => Refreshable(c)
  PROVE  Grants!GrantNext
  <1> SUFFICES ASSUME NEW c \in Code
               PROVE  \/ GrantOf(c)' = GrantOf(c)
                      \/ GrantOf(c) # "unborn" /\ GrantOf(c)' = "over"
    BY Lost, Places
  <1> QED
    BY Whereabouts DEF GrantOf

(* What a step does to who is requesting, when it touches one request.     *)
LEMMA RequestedElsewhere ==
  ASSUME NEW r \in Req, \A s \in Req : s # r => req'[s] = req[s], NEW c,
         req[r].login # c, req'[r].login # c
  PROVE  Requested(c)' <=> Requested(c)
  BY DEF Requested, Holds

LEMMA GrantInitially == Init => Grants!GrantInit
  BY StoreConstants
  DEF Init, StoreInit, Grants!GrantInit, GrantMap, GrantOf, Requested, Refreshable,
      Holds, Token, Idle, Code

LEMMA GrantStep == Inv /\ Next => Grants!GrantNext
  <1> SUFFICES ASSUME Inv, Next PROVE Grants!GrantNext
    OBVIOUS
  <1>a. codes \in [Code -> CodeEntry \cup {None}] /\ drawnCodes \in Nat
    BY StoreConstants DEF Inv, TypeOK, StoreTypeOK
  <1>b. access \in [Pair -> Nat] /\ refresh \in [Pair -> Nat]
    BY DEF Inv, TypeOK, StoreTypeOK, Time
  <1>c. origin \in [Pair -> Code \cup {None}] /\ clock \in Nat
    BY DEF Inv, TypeOK, StoreTypeOK, Time
  <1>d. req \in [Req -> Requests]
    BY DEF Inv, TypeOK
  <1>f. Carries /\ Undrawn /\ OneHolder
    BY DEF Inv
  <1>g. Code \subseteq Nat /\ Pair \subseteq Nat /\ None \notin Nat
    BY StoreConstants DEF Code, Pair
  <1> USE DEF Ok, Fault, Mishap, tables, storeVars, ghosts, At
  <1>1. ASSUME NEW client \in Client, NEW uris \in SUBSET Uri, Register(client, uris)
        PROVE  Grants!GrantNext
    BY <1>1, LosingStep DEF Register, RegisterClient, Requested, Refreshable, Holds, Token
  <1>2. ASSUME NEW r \in Req, NEW client \in Client, NEW uri \in Uri, NEW chal \in Challenge,
               Authorize(r, client, uri, chal)
        PROVE  Grants!GrantNext
    <2>1. (\A s \in Req : s # r => req'[s] = req[s]) /\ req'[r].login = None
      BY <1>d, <1>2 DEF Authorize, Idle
    <2>2. \A c \in Code : Requested(c)' => Requested(c)
      BY <1>g, <2>1 DEF Requested, Holds
    <2> QED
      BY <1>2, <2>2, LosingStep DEF Authorize, Refreshable, Token
  <1>3. ASSUME NEW r \in Req, AuthorizeCode(r) PROVE Grants!GrantNext
    <2>0. PICK c \in Code :
            /\ drawnCodes' = c /\ c = drawnCodes + 1
            /\ codes' = [d \in Code |->
                 IF d = c THEN [client |-> req[r].client, uri |-> req[r].uri,
                                chal |-> req[r].chal, expires |-> req[r].at + CodeTtl]
                 ELSE IF codes[d] # None /\ codes[d].expires > req[r].at
                      THEN codes[d] ELSE None]
      BY <1>3 DEF AuthorizeCode, InsertCode
    <2>k. codes'[c] # None
      <3>1. codes'[c] = [client |-> req[r].client, uri |-> req[r].uri,
                         chal |-> req[r].chal, expires |-> req[r].at + CodeTtl]
        BY <2>0
      <3>2. req[r].client \in Client /\ req[r].uri \in Uri /\ req[r].chal \in Challenge
        BY <1>f, <1>3 DEF AuthorizeCode, Carries, CarriesOne
      <3>3. req[r].at + CodeTtl \in Nat
        <4>1. req[r].at \in Nat
          BY <1>d DEF Requests, Time
        <4> QED
          BY <4>1, StoreConstants
      <3>4. codes'[c] \in CodeEntry
        BY <3>1, <3>2, <3>3 DEF CodeEntry
      <3> QED
        BY <3>4, StoreConstants
    <2>1. /\ c \in Code /\ drawnCodes' = c /\ c = drawnCodes + 1 /\ codes'[c] # None
          /\ \A d \in Code : d # c => codes'[d] = codes[d] \/ codes'[d] = None
      BY <2>0, <2>k
    <2> DEFINE lost == {d \in Code : codes[d] # None /\ codes'[d] = None}
    <2>2. /\ \A s \in Req : s # r => req'[s] = req[s]
          /\ req'[r].login = None /\ req[r].login = None
      BY <1>d, <1>f, <1>3, EndEffect DEF AuthorizeCode, Carries, CarriesOne
    <2>3. \A d \in Code : Requested(d)' <=> Requested(d)
      BY <1>g, <2>2 DEF Requested, Holds
    <2>4. \A d \in Code : Refreshable(d)' <=> Refreshable(d)
      BY <1>3 DEF AuthorizeCode, Refreshable, Token
    <2>5. codes[c] = None /\ ~Requested(c) /\ ~Refreshable(c) /\ ~(c <= drawnCodes)
      BY <1>a, <1>f, <2>1 DEF Undrawn, Requested, Refreshable, Token
    <2>6. GrantOf(c) = "unborn" /\ GrantOf(c)' = "code"
      BY <2>1, <2>5 DEF GrantOf
    <2>7. \A d \in lost : GrantOf(d) = "code" /\ GrantOf(d)' = "over"
      <3> SUFFICES ASSUME NEW d \in lost PROVE GrantOf(d) = "code" /\ GrantOf(d)' = "over"
        OBVIOUS
      <3>1. d \in Code /\ codes[d] # None /\ codes'[d] = None
        OBVIOUS
      <3>2. ~Requested(d) /\ ~Refreshable(d) /\ d <= drawnCodes
        BY <3>1, Whereabouts
      <3>3. d <= drawnCodes'
        BY <1>a, <1>g, <2>1, <3>1, <3>2
      <3> QED
        BY <2>3, <2>4, <3>1, <3>2, <3>3 DEF GrantOf
    <2>8. ASSUME NEW d \in Code, d \notin lost, d # c PROVE GrantOf(d)' = GrantOf(d)
      <3>1. codes'[d] = None <=> codes[d] = None
        BY <2>1, <2>8
      <3>2. d <= drawnCodes' <=> d <= drawnCodes
        BY <1>a, <1>g, <2>1, <2>8
      <3> QED
        BY <2>3, <2>4, <3>1, <3>2 DEF GrantOf
    <2>9. c \notin lost /\ lost \in SUBSET Code
      BY <2>1
    <2> HIDE DEF lost
    <2>10. GrantMap' = [d \in Code |-> IF d = c THEN "code" ELSE IF d \in lost THEN "over"
                                       ELSE GrantMap[d]]
      BY <2>6, <2>7, <2>8 DEF GrantMap
    <2>11. GrantMap[c] = "unborn" /\ \A d \in lost : GrantMap[d] = "code"
      BY <2>1, <2>6, <2>7, <2>9 DEF GrantMap
    <2> QED
      BY <2>1, <2>9, <2>10, <2>11 DEF Grants!GrantNext, Grants!Issue
  <1>4. ASSUME NEW r \in Req, NEW c \in Code, NEW uri \in Uri, NEW verifier \in Verifier,
               Redeem(r, c, uri, verifier)
        PROVE  Grants!GrantNext
    <2>u. UNCHANGED <<refresh, origin, drawnCodes>> /\ codes[c] # None
      BY <1>4 DEF Redeem
    <2>c. codes'[c] = None /\ \A d \in Code : d # c => codes'[d] = codes[d]
      BY <1>a, <1>4 DEF Redeem, TakeCode
    <2>t. \A d \in Code : Refreshable(d)' <=> Refreshable(d)
      BY <2>u DEF Refreshable, Token
    <2>1. CASE Redeemable(codes[c], uri, verifier)
      <3>1. (\A s \in Req : s # r => req'[s] = req[s]) /\ req'[r].login = c
        BY <1>d, <1>4, <2>1, DrawPairEffect DEF Redeem
      <3>2. req[r].login = None
        BY <1>f, <1>4 DEF Redeem, Carries, CarriesOne
      <3>3. \A d \in Code : d # c => (Requested(d)' <=> Requested(d))
        BY <1>g, <3>1, <3>2 DEF Requested, Holds
      <3>4. Requested(c)'
        BY <3>1 DEF Requested, Holds
      <3>5. \A d \in Code : d # c => GrantOf(d)' = GrantOf(d)
        BY <2>u, <2>c, <2>t, <3>3 DEF GrantOf
      <3>6. GrantOf(c) = "code" /\ GrantOf(c)' = "request"
        BY <2>u, <2>c, <3>4 DEF GrantOf
      <3> QED
        BY <3>5, <3>6, HandedOn
    <2>2. CASE ~Redeemable(codes[c], uri, verifier)
      <3>1. \A d \in Code : Requested(d)' <=> Requested(d)
        BY <1>4, <2>2 DEF Redeem, Requested, Holds
      <3> QED
        BY <2>u, <2>c, <2>t, <3>1, LosingStep
    <2> QED
      BY <2>1, <2>2
  <1>5. ASSUME NEW r \in Req, NEW p \in Pair, Refresh(r, p) PROVE Grants!GrantNext
    <2>0. PICK c : c = origin[p]
      OBVIOUS
    <2>u. UNCHANGED <<codes, origin, drawnCodes>>
      BY <1>5 DEF Refresh, TakeRefresh
    <2>n. req[r].login = None
      BY <1>f, <1>5 DEF Refresh, Carries, CarriesOne
    <2>t. \A q \in Pair : refresh'[q] # 0 => refresh[q] # 0
      BY <1>b, <1>5 DEF Refresh, TakeRefresh
    <2>l. \A d \in Code : Refreshable(d)' => Refreshable(d)
      BY <2>u, <2>t DEF Refreshable, Token
    <2>1. CASE UNCHANGED req
      <3>1. \A d \in Code : Requested(d)' <=> Requested(d)
        BY <2>1 DEF Requested, Holds
      <3> QED
        BY <2>u, <2>l, <3>1, LosingStep
    <2>2. CASE ~UNCHANGED req
      <3>1. /\ c \in Code /\ refresh[p] # 0
            /\ refresh' = [refresh EXCEPT ![p] = 0]
            /\ req' = [req EXCEPT ![r] =
                         [Idle EXCEPT !.pc = "spent", !.login = c, !.at = refresh[p]]]
        BY <1>c, <1>5, <2>0, <2>2 DEF Refresh, TakeRefresh
      <3>2. (\A s \in Req : s # r => req'[s] = req[s]) /\ req'[r].login = c
        BY <1>d, <3>1 DEF Idle
      <3>3. refresh'[p] = 0 /\ \A q \in Pair : q # p => refresh'[q] = refresh[q]
        BY <1>b, <3>1
      <3>4. \A d \in Code : d # c => (Requested(d)' <=> Requested(d))
        BY <1>g, <2>n, <3>2 DEF Requested, Holds
      <3>5. \A d \in Code : d # c => (Refreshable(d)' <=> Refreshable(d))
        BY <2>0, <2>u, <3>3 DEF Refreshable, Token
      <3>6. Requested(c)' /\ Refreshable(c) /\ codes[c] = None
        BY <1>f, <2>0, <3>1, <3>2 DEF Requested, Refreshable, Holds, Token, OneHolder
      <3>7. GrantOf(c) = "token"
        BY <3>1, <3>6, Whereabouts DEF GrantOf
      <3>8. GrantOf(c)' = "request"
        BY <2>u, <3>6 DEF GrantOf
      <3>9. \A d \in Code : d # c => GrantOf(d)' = GrantOf(d)
        BY <2>u, <3>4, <3>5 DEF GrantOf
      <3> QED
        BY <3>1, <3>7, <3>8, <3>9, HandedOn
    <2> QED
      BY <2>1, <2>2
  <1>6. ASSUME NEW r \in Req, RefreshIssue(r) PROVE Grants!GrantNext
    <2>1. /\ \A s \in Req : s # r => req'[s] = req[s]
          /\ req'[r].login \in {req[r].login, None}
      BY <1>d, <1>6, DrawPairEffect, EndEffect DEF RefreshIssue
    <2>2. \A c \in Code : Requested(c)' => Requested(c)
      BY <1>g, <2>1 DEF Requested, Holds
    <2> QED
      BY <1>6, <2>2, LosingStep DEF RefreshIssue, Refreshable, Token
  <1>7. ASSUME NEW r \in Req, Commit(r) PROVE Grants!GrantNext
    <2>0. PICK p, c : p = req[r].pair /\ c = req[r].login
      OBVIOUS
    <2>u. UNCHANGED <<codes, drawnCodes>>
      BY <1>7 DEF Commit
    <2>e. (\A s \in Req : s # r => req'[s] = req[s]) /\ req'[r].login = None
      BY <1>d, <1>7, EndEffect DEF Commit
    <2>p. p \in Pair /\ refresh[p] = 0 /\ c \in Code
      BY <1>f, <1>7, <2>0 DEF Commit, Carries, CarriesOne
    <2>r. \A d \in Code : Requested(d)' => Requested(d)
      BY <1>g, <2>e DEF Requested, Holds
    <2>1. CASE UNCHANGED tables
      BY <2>u, <2>r, <2>1, LosingStep DEF Refreshable, Token
    <2>2. CASE ~UNCHANGED tables
      <3>1. /\ refresh' = [refresh EXCEPT ![p] = req[r].at + RefreshTtl]
            /\ origin' = [origin EXCEPT ![p] = c]
        BY <1>7, <2>0, <2>2 DEF Commit, InsertPair
      <3>n. req[r].at + RefreshTtl # 0
        <4>1. req[r].at \in Nat
          BY <1>d DEF Requests, Time
        <4> QED
          BY <4>1, StoreConstants
      <3>2. /\ refresh'[p] # 0 /\ origin'[p] = c
            /\ \A q \in Pair : q # p => refresh'[q] = refresh[q] /\ origin'[q] = origin[q]
        BY <1>b, <1>c, <2>p, <3>1, <3>n
      <3>3. Holds(r, c)
        BY <2>0 DEF Holds
      <3>4. \A s \in Req : s # r => ~Holds(s, c)
        BY <1>f, <2>p, <3>3 DEF OneHolder
      <3>5. Requested(c) /\ codes[c] = None
        BY <1>f, <2>p, <3>3 DEF OneHolder, Requested
      <3>6. ~Requested(c)'
        BY <1>g, <2>p, <2>e, <3>4 DEF Requested, Holds
      <3>7. Refreshable(c)'
        BY <2>p, <3>2 DEF Refreshable, Token
      <3>8. \A d \in Code : d # c => (Requested(d)' <=> Requested(d))
        BY <1>g, <2>0, <2>e DEF Requested, Holds
      <3>9. \A d \in Code : d # c => (Refreshable(d)' <=> Refreshable(d))
        BY <2>p, <3>2 DEF Refreshable, Token
      <3>10. GrantOf(c) = "request" /\ GrantOf(c)' = "token"
        BY <2>u, <3>5, <3>6, <3>7 DEF GrantOf
      <3>11. \A d \in Code : d # c => GrantOf(d)' = GrantOf(d)
        BY <2>u, <3>8, <3>9 DEF GrantOf
      <3> QED
        BY <2>p, <3>10, <3>11, HandedOn
    <2> QED
      BY <2>1, <2>2
  <1>8. ASSUME NEW r \in Req, HangUp(r) PROVE Grants!GrantNext
    <2>1. (\A s \in Req : s # r => req'[s] = req[s]) /\ req'[r].login = None
      BY <1>d, <1>8, EndEffect DEF HangUp
    <2>2. \A c \in Code : Requested(c)' => Requested(c)
      BY <1>g, <2>1 DEF Requested, Holds
    <2> QED
      BY <1>8, <2>2, LosingStep DEF HangUp, Refreshable, Token
  <1>9. ASSUME NEW p \in Pair, Validate(p) PROVE Grants!GrantNext
    BY <1>9, LosingStep DEF Validate, DropDead, Requested, Refreshable, Holds, Token
  <1>10. ASSUME Sweep PROVE Grants!GrantNext
    <2>1. UNCHANGED <<codes, drawnCodes, req, origin>>
      BY <1>10 DEF Sweep, SweepStart, SweepFirst, SweepSecond, SweepAccess, SweepRefresh
    <2>2. \A p \in Pair : refresh'[p] # 0 => refresh[p] # 0
      BY <1>10, SweepSpares
    <2> QED
      BY <2>1, <2>2, LosingStep DEF Requested, Refreshable, Holds, Token
  <1>11. ASSUME DieAndRestart PROVE Grants!GrantNext
    <2>1. \A c \in Code : codes'[c] = None /\ ~Requested(c)'
      BY <1>g, <1>11 DEF DieAndRestart, Requested, Holds, Idle
    <2> QED
      BY <1>11, <2>1, LosingStep DEF DieAndRestart, Refreshable, Token
  <1>12. ASSUME Tick PROVE Grants!GrantNext
    BY <1>12, LosingStep DEF Tick, Requested, Refreshable, Holds, Token
  <1> QED
    BY <1>1, <1>2, <1>3, <1>4, <1>5, <1>6, <1>7, <1>8, <1>9, <1>10, <1>11, <1>12 DEF Next

(* The store and its requests keep the promise of OAuthGrant.              *)
THEOREM LoginsAreGrants == Spec => ImplementsGrant
  <1>1. UNCHANGED vars => UNCHANGED GrantMap
    BY DEF vars, storeVars, tables, ghosts, GrantMap, GrantOf, Requested, Refreshable, Holds,
           Token
  <1>2. Inv /\ [Next]_vars => [Grants!GrantNext]_GrantMap
    BY <1>1, GrantStep
  <1> QED
    BY <1>2, GrantInitially, Invariance, PTL DEF Spec, ImplementsGrant, Grants!GrantSpec

(* What follows for one login: once its code or its refresh token is used  *)
(* up, swept, or lost with a failure, no request, code or token of it is   *)
(* good for anything again.                                                *)
OverIsOver == \A c \in Code : GrantOf(c) = "over" => GrantOf(c)' = "over"

(* A login that is lost stays lost (oauth/store.rs: a code is taken out of *)
(* the map and a token deleted from its table before anything is issued    *)
(* for it), whatever requests repeat and whatever fails.                   *)
THEOREM LostLoginsStayLost == Spec => [][OverIsOver]_vars
  <1>1. ASSUME Grants!GrantNext PROVE OverIsOver
    <2>1. ASSUME NEW c \in Code, GrantMap[c] = "over" PROVE GrantMap'[c] = "over"
      BY <1>1, <2>1 DEF Grants!GrantNext, Grants!Spend, Grants!Mint, Grants!Lose, Grants!Issue,
            Grants!Pass
    <2>2. \A c \in Code : GrantMap[c] = GrantOf(c) /\ GrantMap'[c] = GrantOf(c)'
      BY DEF GrantMap
    <2> QED
      BY <2>1, <2>2 DEF OverIsOver
  <1>2. Inv /\ [Next]_vars => [OverIsOver]_vars
    BY <1>1, GrantStep
  <1> QED
    BY <1>2, Invariance, PTL DEF Spec
-----------------------------------------------------------------------------
(* Where a login comes from *)

Genuine(c) ==
  /\ proof[c].entry.uri = proof[c].uri /\ proof[c].entry.chal = proof[c].verifier
  /\ proof[c].at <= proof[c].entry.expires
  /\ Bound(proof[c].entry.client, proof[c].uri)

(* A code stands for a bound URI, and whatever descends from a code for a  *)
(* login that presented it in time with its URI and its verifier.          *)
Descent ==
  /\ \A c \in Code : codes[c] # None => Bound(codes[c].client, codes[c].uri)
  /\ \A r \in Req : req[r].pc = "code" => Bound(req[r].client, req[r].uri)
  /\ \A r \in Req : req[r].pc \in {"spent", "commit"} => Genuine(req[r].login)
  /\ \A p \in Pair : origin[p] # None => Genuine(origin[p])

LEMMA DescentInit == Init => Descent
  BY DEF Init, StoreInit, Descent, Idle

LEMMA DescentStep == Inv /\ Descent /\ [Next]_vars => Descent'
  <1> SUFFICES ASSUME Inv, Descent, [Next]_vars PROVE Descent'
    OBVIOUS
  <1>a. /\ codes \in [Code -> CodeEntry \cup {None}] /\ req \in [Req -> Requests]
        /\ origin \in [Pair -> Code \cup {None}] /\ drawnCodes \in 0..MaxCodes
        /\ proof \in [Code -> [entry : CodeEntry, uri : Uri, verifier : Verifier, at : Time] \cup {None}]
        /\ clock \in Nat
    BY DEF Inv, TypeOK, StoreTypeOK, Time
  <1>b. Carries
    BY DEF Inv
  <1> USE DEF tables, storeVars, ghosts, At
  <1>c. ASSUME clients \subseteq clients', UNCHANGED proof
        PROVE  \A c : Genuine(c) => Genuine(c)'
    BY <1>c DEF Genuine, Bound
  <1>d. ASSUME clients \subseteq clients', UNCHANGED proof,
               \A c \in Code : codes'[c] \in {codes[c], None},
               \A r \in Req : req'[r] = req[r] \/ req'[r] = Idle,
               UNCHANGED origin
        PROVE  Descent'
    BY <1>c, <1>d DEF Descent, Idle, Bound
  <1>1. ASSUME NEW client \in Client, NEW uris \in SUBSET Uri, Register(client, uris)
        PROVE  Descent'
    BY <1>d, <1>1 DEF Register, RegisterClient, Fault
  <1>2. ASSUME NEW r \in Req, NEW client \in Client, NEW uri \in Uri, NEW chal \in Challenge,
               Authorize(r, client, uri, chal)
        PROVE  Descent'
    <2>1. /\ req'[r].pc = "code" /\ req'[r].client = client /\ req'[r].uri = uri
          /\ \A s \in Req : s # r => req'[s] = req[s]
      BY <1>a, <1>2 DEF Authorize, Idle
    <2> QED
      BY <1>c, <1>2, <2>1 DEF Authorize, Descent, Bound
  <1>3. ASSUME NEW r \in Req, AuthorizeCode(r) PROVE Descent'
    <2>1. /\ \A s \in Req : req'[s] = req[s] \/ req'[s] = Idle
          /\ UNCHANGED <<clients, origin, proof>>
      BY <1>a, <1>3 DEF AuthorizeCode, End
    <2>2. ASSUME NEW c \in Code, codes'[c] # None
          PROVE  (Bound(codes[c].client, codes[c].uri))'
      <3>1. CASE c = drawnCodes + 1
        <4>1. codes'[c].client = req[r].client /\ codes'[c].uri = req[r].uri
          BY <1>3, <3>1 DEF AuthorizeCode, InsertCode
        <4>2. Bound(req[r].client, req[r].uri)
          BY <1>3 DEF AuthorizeCode, Descent
        <4> QED
          BY <2>1, <4>1, <4>2 DEF Bound
      <3>2. CASE c # drawnCodes + 1
        <4>1. codes'[c] = codes[c]
          BY <1>3, <2>2, <3>2 DEF AuthorizeCode, InsertCode
        <4> QED
          BY <2>1, <2>2, <4>1 DEF Descent, Bound
      <3> QED
        BY <3>1, <3>2
    <2> QED
      BY <1>c, <2>1, <2>2 DEF Descent, Idle, Bound
  <1>4. ASSUME NEW r \in Req, NEW c \in Code, NEW uri \in Uri, NEW verifier \in Verifier,
               Redeem(r, c, uri, verifier)
        PROVE  Descent'
    <2>1. /\ codes[c] # None /\ UNCHANGED <<clients, origin>>
          /\ \A d \in Code : codes'[d] \in {codes[d], None}
      BY <1>a, <1>4 DEF Redeem, TakeCode
    <2>2. CASE Redeemable(codes[c], uri, verifier)
      <3>1. /\ proof' = [proof EXCEPT ![c] = [entry |-> codes[c], uri |-> uri,
                                              verifier |-> verifier, at |-> clock]]
            /\ DrawPair(r, c)
        BY <1>4, <2>2 DEF Redeem
      <3>2. /\ proof'[c].entry.uri = uri /\ proof'[c].entry.chal = verifier
            /\ proof'[c].entry.client = codes[c].client
            /\ proof'[c].uri = uri /\ proof'[c].verifier = verifier
            /\ proof'[c].at <= proof'[c].entry.expires
        BY <1>a, <2>1, <2>2, <3>1 DEF Redeemable, CodeEntry
      <3>3. Bound(codes[c].client, uri)
        BY <2>1, <2>2 DEF Redeemable, Descent
      <3>4. Genuine(c)'
        BY <2>1, <3>2, <3>3 DEF Genuine, Bound
      <3>5. ASSUME NEW d \in Code, Genuine(d) PROVE Genuine(d)'
        <4>1. CASE d # c
          BY <1>a, <2>1, <3>1, <3>5, <4>1 DEF Genuine, Bound
        <4> QED
          BY <3>4, <4>1
      <3>6. /\ \A s \in Req : s # r => req'[s] = req[s]
            /\ req'[r].pc = "commit" /\ req'[r].login = c
        BY <1>a, <3>1, DrawPairEffect
      <3>7. \A s \in Req : req'[s].pc \in {"spent", "commit"} => (Genuine(req[s].login))'
        <4>1. ASSUME NEW s \in Req, s # r, req[s].pc \in {"spent", "commit"}
              PROVE  (Genuine(req[s].login))'
          <5>1. req[s].login \in Code /\ Genuine(req[s].login)
            BY <1>b, <4>1 DEF Carries, CarriesOne, Descent
          <5>2. PICK d \in Code : d = req[s].login
            BY <5>1
          <5> QED
            BY <3>5, <3>6, <4>1, <5>1, <5>2 DEF Genuine
        <4> QED
          BY <3>4, <3>6, <4>1 DEF Genuine
      <3>8. \A p \in Pair : origin'[p] # None => (Genuine(origin[p]))'
        <4>1. ASSUME NEW p \in Pair, origin[p] # None PROVE (Genuine(origin[p]))'
          <5>1. PICK d \in Code : d = origin[p]
            BY <1>a, <4>1
          <5> QED
            BY <2>1, <3>5, <4>1, <5>1 DEF Genuine, Descent
        <4> QED
          BY <2>1, <4>1
      <3>9. \A s \in Req : req'[s].pc = "code" => (Bound(req[s].client, req[s].uri))'
        BY <2>1, <3>6 DEF Descent, Bound
      <3>10. \A d \in Code : codes'[d] # None => (Bound(codes[d].client, codes[d].uri))'
        BY <2>1 DEF Descent, Bound
      <3> QED
        BY <3>7, <3>8, <3>9, <3>10 DEF Descent
    <2>3. CASE ~Redeemable(codes[c], uri, verifier)
      BY <1>d, <1>4, <2>1, <2>3 DEF Redeem
    <2> QED
      BY <2>2, <2>3
  <1>5. ASSUME NEW r \in Req, NEW p \in Pair, Refresh(r, p) PROVE Descent'
    <2>1. origin[p] # None /\ UNCHANGED <<clients, codes, origin, proof>>
      BY <1>5 DEF Refresh, TakeRefresh, Fault
    <2>2. \/ UNCHANGED req
          \/ req' = [req EXCEPT ![r] =
               [Idle EXCEPT !.pc = "spent", !.login = origin[p], !.at = refresh[p]]]
      BY <1>5 DEF Refresh
    <2>3. CASE UNCHANGED req
      BY <1>d, <2>1, <2>3
    <2>4. CASE req' = [req EXCEPT ![r] =
                 [Idle EXCEPT !.pc = "spent", !.login = origin[p], !.at = refresh[p]]]
      <3>1. /\ \A s \in Req : s # r => req'[s] = req[s]
            /\ req'[r].pc = "spent" /\ req'[r].login = origin[p]
        BY <1>a, <2>4 DEF Idle
      <3> QED
        BY <1>c, <2>1, <3>1 DEF Descent, Bound, Genuine
    <2> QED
      BY <2>2, <2>3, <2>4
  <1>6. ASSUME NEW r \in Req, RefreshIssue(r) PROVE Descent'
    <2>1. UNCHANGED <<clients, codes, origin, proof>> /\ Genuine(req[r].login)
      BY <1>6 DEF RefreshIssue, Descent
    <2>2. CASE Live(req[r].at)
      <3>1. /\ \A s \in Req : s # r => req'[s] = req[s]
            /\ req'[r].pc = "commit" /\ req'[r].login = req[r].login
        <4>1. PICK login : login = req[r].login /\ DrawPair(r, login)
          BY <1>6, <2>2 DEF RefreshIssue
        <4> QED
          BY <1>a, <4>1, DrawPairEffect
      <3> QED
        <4>1. /\ \A d : Genuine(d) => Genuine(d)'
              /\ \A k, u : Bound(k, u) => Bound(k, u)'
          BY <2>1 DEF Genuine, Bound
        <4>2. \A s \in Req : req'[s].pc \in {"spent", "commit"} => (Genuine(req[s].login))'
          BY <2>1, <3>1, <4>1 DEF Descent
        <4>3. \A s \in Req : req'[s].pc = "code" => (Bound(req[s].client, req[s].uri))'
          BY <3>1, <4>1 DEF Descent
        <4>4. \A d \in Code : codes'[d] # None => (Bound(codes[d].client, codes[d].uri))'
          BY <2>1, <4>1 DEF Descent
        <4>5. \A p \in Pair : origin'[p] # None => (Genuine(origin[p]))'
          BY <2>1, <4>1 DEF Descent
        <4> QED
          BY <4>2, <4>3, <4>4, <4>5 DEF Descent
    <2>3. CASE ~Live(req[r].at)
      BY <1>a, <1>d, <1>6, <2>1, <2>3 DEF RefreshIssue, End
    <2> QED
      BY <2>2, <2>3
  <1>7. ASSUME NEW r \in Req, Commit(r) PROVE Descent'
    <2>1. /\ UNCHANGED <<clients, codes, proof>> /\ Genuine(req[r].login)
          /\ \A s \in Req : req'[s] = req[s] \/ req'[s] = Idle
      BY <1>a, <1>7 DEF Commit, InsertPair, Fault, End, Descent
    <2>2. \A p \in Pair : origin'[p] \in {origin[p], req[r].login}
      BY <1>a, <1>7 DEF Commit, InsertPair, Fault
    <2>3. \A p \in Pair : origin'[p] # None => (Genuine(origin[p]))'
      BY <2>1, <2>2 DEF Descent, Genuine, Bound
    <2>4. \A c \in Code : codes'[c] # None => (Bound(codes[c].client, codes[c].uri))'
      BY <2>1 DEF Descent, Bound
    <2>5. \A s \in Req : req'[s].pc = "code" => (Bound(req[s].client, req[s].uri))'
      BY <2>1 DEF Descent, Bound, Idle
    <2>6. \A s \in Req : req'[s].pc \in {"spent", "commit"} => (Genuine(req[s].login))'
      <3>1. \A d : Genuine(d) => Genuine(d)'
        BY <2>1 DEF Genuine, Bound
      <3>2. \A s \in Req : req'[s].pc \in {"spent", "commit"} =>
              req[s].pc \in {"spent", "commit"} /\ req'[s].login = req[s].login
        BY <2>1 DEF Idle
      <3> QED
        BY <3>1, <3>2 DEF Descent
    <2> QED
      BY <2>3, <2>4, <2>5, <2>6 DEF Descent
  <1>8. ASSUME NEW p \in Pair, Validate(p) PROVE Descent'
    BY <1>d, <1>8 DEF Validate, DropDead
  <1>9. ASSUME NEW r \in Req, HangUp(r) PROVE Descent'
    BY <1>a, <1>d, <1>9 DEF HangUp, End
  <1>10. CASE Sweep
    BY <1>d, <1>10 DEF Sweep, SweepStart, SweepFirst, SweepSecond, SweepAccess, SweepRefresh, Fault
  <1>11. CASE DieAndRestart
    BY <1>d, <1>11 DEF DieAndRestart
  <1>12. CASE Tick \/ UNCHANGED vars
    BY <1>d, <1>12 DEF Tick, vars
  <1> QED
    BY <1>1, <1>2, <1>3, <1>4, <1>5, <1>6, <1>7, <1>8, <1>9, <1>10, <1>11, <1>12 DEF Next

(* Every pair goes back to a login at a registered URI, presented in time  *)
(* and with its verifier, through any chain of refreshes, failures and     *)
(* crashes.                                                                *)
THEOREM TokensAreEarned == Spec => []TokensTraceToLogin
  <1>1. Inv /\ Descent => TokensTraceToLogin
    BY DEF Inv, Timely, Descent, Genuine, TokensTraceToLogin
  <1> QED
    BY <1>1, Invariance, DescentInit, DescentStep, PTL DEF Spec

=============================================================================
