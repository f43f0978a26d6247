------------------------------- MODULE Shares -------------------------------
(***************************************************************************)
(* The two levels of shares of x/alliance (types/asset.go and              *)
(* types/validator.go).  The tokens of an asset are split among validators *)
(* in proportion to their validator shares, and the tokens of a validator  *)
(* among its delegations in proportion to their delegation shares.         *)
(*                                                                         *)
(* An asset is [tokens, shares], for TotalTokens and TotalValidatorShares. *)
(* A position is what a validator holds of one asset: [held, issued], for  *)
(* its ValidatorShares and its TotalDelegatorShares of that denomination.  *)
(***************************************************************************)
EXTENDS Dec

CONSTANT Epsilon   \* sdk.NewDecWithPrec(1, 6), as a Dec

ASSUME EpsilonAssumption == Epsilon \in Nat

\* Panics when totalShares is positive and totalTokens is zero.
ConvertNewTokenToShares(totalTokens, totalShares, newTokens) ==
    IF totalShares = 0 THEN FromInt(newTokens)
    ELSE MulInt(Quo(totalShares, totalTokens), newTokens)

ConvertNewShareToDecToken(totalTokens, totalShares, shares) ==
    IF totalShares = 0 THEN totalTokens
    ELSE Mul(Quo(shares, totalShares), totalTokens)

TotalTokensWithAsset(position, asset) ==
    ConvertNewShareToDecToken(FromInt(asset.tokens), asset.shares, position.held)

GetValidatorShares(asset, amt) ==
    ConvertNewTokenToShares(FromInt(asset.tokens), asset.shares, amt)

\* Mutation: shares are always issued at par.
GetDelegationSharesFromTokens_AtPar(position, asset, amt) == FromInt(amt)

\* A validator with less than one delegation share in all issues at par again.
GetDelegationSharesFromTokens(position, asset, amt) ==
    IF TruncateInt(position.issued) = 0 THEN FromInt(amt)
    ELSE ConvertNewTokenToShares(TotalTokensWithAsset(position, asset),
                                 position.issued, amt)

\* When GetDelegationSharesFromTokens divides by zero, and when some conversion of a
\* message does.  The panic discards the message.
Worthless(position, asset) ==
    TruncateInt(position.issued) # 0 /\ TotalTokensWithAsset(position, asset) = 0

DividesByZero(position, asset) ==
    Worthless(position, asset) \/ (asset.shares # 0 /\ asset.tokens = 0)

\* Mutation: tokens are rounded up.
GetDelegationTokensWithShares_RoundUp(shares, position, asset) ==
    TruncateInt(ConvertNewShareToDecToken(TotalTokensWithAsset(position, asset),
                                          position.issued, shares) + Scale - 1)

\* The tokens that shares of the validator's delegations are worth; GetDelegationTokens
\* is the same for all shares of one delegation.
GetDelegationTokensWithShares(shares, position, asset) ==
    TruncateInt(ConvertNewShareToDecToken(TotalTokensWithAsset(position, asset),
                                          position.issued, shares) + Epsilon)

\* SubtractDecCoinsWithRounding takes b > a for a rounding error if they are less than
\* one apart, and panics otherwise.
CanSubtract(a, b) == b < a + Scale

\* Mutation: no allowance for rounding.
SubtractWithRounding_Exact(a, b) == a - b

SubtractWithRounding(a, b) == IF b > a THEN 0 ELSE a - b

AddShares(position, issued, held) ==
    [held |-> position.held + held, issued |-> position.issued + issued]

\* NewDecCoinFromDec panics when an amount is negative.
CanReduceShares(position, issued, held) ==
    /\ issued \in Nat /\ CanSubtract(position.issued, issued)
    /\ held \in Nat /\ CanSubtract(position.held, held)

ReduceShares(position, issued, held) ==
    [held |-> SubtractWithRounding(position.held, held),
     issued |-> SubtractWithRounding(position.issued, issued)]

-----------------------------------------------------------------------------
(* ValidateDelegatedAmount: how many of own shares stand for wanted shares. *)

WithinMargin(own, wanted) == own - wanted < Epsilon /\ wanted - own < Epsilon

\* Mutation: a rounding error in wanted counts against the delegator.
EnoughShares_NoMargin(own, wanted) == own >= wanted

\* Otherwise ErrInsufficientShares.
EnoughShares(own, wanted) ==
    WithinMargin(own, wanted) \/ own >= FromInt(TruncateInt(wanted))

SharesToUpdate(own, wanted) ==
    IF WithinMargin(own, wanted) \/ wanted > own THEN own ELSE wanted
=============================================================================
