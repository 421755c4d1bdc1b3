------------------------------- MODULE OAuthGrant -------------------------------
(***************************************************************************)
(* What one login is worth: a single grant that moves from the code to the *)
(* request that redeems it, to a refresh token, to the request that spends *)
(* that, and so on.  It is never in two places, and once it is lost (an    *)
(* error, a crash, an expiry) the human has to log in again.               *)
(***************************************************************************)
CONSTANT Login

VARIABLE grant

Places == {"unborn", "code", "request", "token", "over"}

GrantInit == grant = [c \in Login |-> "unborn"]

Pass(cs, from, to) ==
  /\ \A c \in cs : grant[c] \in from
  /\ grant' = [c \in Login |-> IF c \in cs THEN to ELSE grant[c]]

Spend(c) == Pass({c}, {"code", "token"}, "request")
Mint(c) == Pass({c}, {"request"}, "token")

(* A restart, a sweep or an error may end several grants in one step, and  *)
(* a new login ends those whose codes have expired.                        *)
Lose(cs) == Pass(cs, Places \ {"unborn"}, "over")

Issue(c, lost) ==
  /\ grant[c] = "unborn"
  /\ \A d \in lost : grant[d] = "code"
  /\ grant' = [d \in Login |-> IF d = c THEN "code" ELSE IF d \in lost THEN "over" ELSE grant[d]]

GrantNext ==
  \/ \E c \in Login : Spend(c) \/ Mint(c) \/ \E lost \in SUBSET Login : Issue(c, lost)
  \/ \E cs \in SUBSET Login : Lose(cs)

GrantSpec == GrantInit /\ [][GrantNext]_grant

=============================================================================
