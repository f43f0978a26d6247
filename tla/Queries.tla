------------------------------ MODULE Queries -------------------------------
(***************************************************************************)
(* The query server of x/alliance (keeper/grpc_query.go) over the ledger   *)
(* of module Delegations: what the chain tells about itself.  A query has  *)
(* no effect, so each is a function of the state.  Pages are left out: a   *)
(* query here returns what all its pages do, and an error in one of them   *)
(* is an error of the whole.                                               *)
(***************************************************************************)
EXTENDS Delegations

\* ErrUnknownAsset, and no answer.
UnknownAsset == [found |-> FALSE]

DelegationResponse(key) == [key |-> key, shares |-> dels[key], balance |-> TokensOf(key)]

\* The loop over the delegations under a prefix: one of an unknown asset ends it.
DelegationResponses(keys) ==
    IF keys \subseteq LiveDels
    THEN [found |-> TRUE, delegations |-> {DelegationResponse(key) : key \in keys}]
    ELSE UnknownAsset

AllAlliancesDelegations == DelegationResponses(DOMAIN dels)

AlliancesDelegation(d) == DelegationResponses({key \in DOMAIN dels : key.del = d})

AlliancesDelegationByValidator(d, v) ==
    DelegationResponses({key \in DOMAIN dels : key.del = d /\ key.val = v})

\* A single delegation: one that does not exist has no shares and no balance.
AllianceDelegation(d, v, n) ==
    LET key == DelKey(d, v, n)
    IN  IF n \notin DOMAIN assets THEN UnknownAsset
        ELSE [found |-> TRUE,
              delegation |-> IF key \in DOMAIN dels THEN DelegationResponse(key)
                             ELSE [key |-> key, shares |-> 0, balance |-> 0]]

\* TotalStaked of AllianceValidator: the tokens of each listed asset the validator holds.
AllianceValidator(v) ==
    [n \in {n \in DOMAIN assets : positions[v][n].held # 0} |->
        TotalTokensWithAsset(positions[v][n], assets[n])]

-----------------------------------------------------------------------------
Empty(keys) == {key \in keys : dels[key] = 0}

\* DeleteAlliance asks only for the tokens of an asset (proposal.go:69), and a slash leaves
\* delegations of no shares behind (slash.go:109).  Such a delegation may outlive its asset,
\* and then every query that lists it fails; for fractions below one, no other query does:
\* a delegation with shares never loses its asset.  Validators that x/staking has removed,
\* for which a query fails too (grpc_query.go:47-50), are not in the module.
QueriesAnswer ==
    /\ AllAlliancesDelegations.found \/ Empty(DOMAIN dels) # {}
    /\ \A d \in Delegators :
          LET ofDelegator == {key \in DOMAIN dels : key.del = d}
          IN  /\ AlliancesDelegation(d).found \/ Empty(ofDelegator) # {}
              /\ \A v \in Validators :
                    \/ AlliancesDelegationByValidator(d, v).found
                    \/ Empty({key \in ofDelegator : key.val = v}) # {}

TotalStaked(v, n) ==
    LET staked == AllianceValidator(v) IN IF n \in DOMAIN staked THEN staked[n] ELSE 0

Balances(v, n) ==
    SumFunction([d \in Delegators |-> AllianceDelegation(d, v, n).delegation.balance])

\* The queries tell one story in spite of every rounding, slash and cut: what validators
\* report to hold of an asset is what the asset has, and what delegations report at a
\* validator is what the validator reports, but for a fraction of a token each.
ReportsAddUp ==
    \A n \in DOMAIN assets :
        /\ LET all == SumFunction([v \in Validators |-> TotalStaked(v, n)])
           IN  FromInt(assets[n].tokens) \in all - Epsilon .. all + Epsilon
        /\ \A v \in Validators :
              LET held == Cardinality({key \in DOMAIN dels : key.val = v /\ key.denom = n})
              IN  /\ FromInt(Balances(v, n)) =< TotalStaked(v, n) + Epsilon
                  /\ held > 0 =>
                        TruncateInt(TotalStaked(v, n)) - Balances(v, n) < held
=============================================================================
