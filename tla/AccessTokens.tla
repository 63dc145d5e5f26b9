----------------------------- MODULE AccessTokens -----------------------------
(***************************************************************************)
(* Access tokens and the three clocks that judge them: the auther stamps a *)
(* token when it mints it, the device decides by its own clock whether to  *)
(* use it or to refresh it, and the skeeper accepts it by its own.         *)
(*                                                                         *)
(* The claims of a token are whole seconds, the expiry the auther answers  *)
(* beside it, which is the one the device keeps, is not.                   *)
(***************************************************************************)
EXTENDS Naturals

CONSTANTS
  Second,             \* clock ticks in a second
  Margin,             \* how long before its expiry a device refreshes a token: one minute
  Lifetime,           \* access_token_lifetime
  RefreshLifetime,    \* refresh_token_lifetime
  Skews,              \* how far the clocks of the machines may be ahead of the time
  MaxTime             \* bound: the last instant looked at

Machines == {"device", "auther", "skeeper"}

ASSUME TimeAssumption ==
  /\ {Second, Margin, Lifetime, RefreshLifetime} \subseteq Nat \ {0}
  /\ Lifetime >= Margin
  /\ MaxTime \in Nat
  /\ Skews \subseteq [Machines -> Nat]

VARIABLES now, skew

ClocksInit == now = 0 /\ skew \in Skews

Tick ==
  /\ now < MaxTime
  /\ now' = now + 1
  /\ UNCHANGED skew

Clock(machine) == now + skew[machine]

(* jwt.NewNumericDate *)
NumericDate(t) == t - (t % Second)

(* iat and exp are the claims; expires and refreshExpires go beside the tokens. *)
NewTokenPair ==
  [iat |-> NumericDate(Clock("auther")),
   exp |-> NumericDate(Clock("auther") + Lifetime),
   expires |-> Clock("auther") + Lifetime,
   refreshExpires |-> Clock("auther") + RefreshLifetime]

TokenPair == [iat : Nat, exp : Nat, expires : Nat, refreshExpires : Nat]

(* Mutant of NearExpiry: used until it expires. *)
NearExpiryNoMargin(pair) == pair.expires <= Clock("device")

NearExpiry(pair) == pair.expires <= Clock("device") + Margin

RefreshExpired(pair) == pair.refreshExpires <= Clock("device")

Exchanges(pair) == Clock("auther") < pair.refreshExpires

ValidateToken(pair) == Clock("skeeper") < pair.exp /\ pair.iat <= Clock("skeeper")
==============================================================================
