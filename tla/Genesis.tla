------------------------------- MODULE Genesis -------------------------------
(***************************************************************************)
(* Export and restart: ExportGenesis is called on a committed state, and   *)
(* InitGenesis of keeper/genesis.go rebuilds the unbonding stores of the   *)
(* new chain from what was exported.  Assets, validators, delegations and  *)
(* bank balances are copied as they are; the queues and indexes are not    *)
(* exported but made again, redelegations from the records alone.          *)
(***************************************************************************)
EXTENDS Unbonding, SequencesExt

VARIABLES
    committed,  \* no step of the current block has been taken
    imported    \* history: keys of the records that an InitGenesis has made

genesisVars == <<vars, committed, imported>>

\* The queue entry that InitGenesis makes of a record, which names only the first source
\* of the redelegations merged into it.
ExportedEntry(key) ==
    [del |-> key.del, src |-> redels[key].src, dst |-> key.dst,
     denom |-> key.denom, amt |-> redels[key].amt]

\* addRedelegation, which queues the redelegation, and queueRedelegation once more.
ImportRedelegation(queue, key) ==
    Enqueue(Enqueue(queue, key.ct, ExportedEntry(key)), key.ct, ExportedEntry(key))

\* Records are imported in the order of their keys, which is any order here.
ImportRedelegations ==
    /\ \E order \in SetToSeqs(DOMAIN redels) :
          redelQueue' = FoldLeft(ImportRedelegation, NoEntry, order)
    /\ redelIndex' = {RedelIndexKey(ExportedEntry(key), key.ct) : key \in DOMAIN redels}
    /\ UNCHANGED redels

\* Mutation: the index is rebuilt from the first entry of each bucket.
ImportUndelegations_FirstEntry ==
    /\ undelIndex' = {UndelIndexKey(undelQueue[key][1], key) : key \in DOMAIN undelQueue}
    /\ UNCHANGED undelQueue

\* Buckets are copied, and the index is rebuilt from their entries.
ImportUndelegations ==
    /\ undelIndex' = {UndelIndexKey(p[1], p[2]) : p \in PendingUndels}
    /\ UNCHANGED undelQueue

Restart ==
    /\ committed
    /\ ImportRedelegations
    /\ ImportUndelegations
    /\ imported' = DOMAIN redels
    /\ UNCHANGED <<now, phase, totalTokens, bankVars, committed>>

GenesisInit == Init /\ committed = TRUE /\ imported = {}

\* A step of the running chain; only the end of a block moves time.
Run ==
    /\ Next
    /\ committed' = (now' # now)
    /\ imported' = imported \cap DOMAIN redels'

GenesisNext == Run \/ Restart

GenesisSpec == GenesisInit /\ [][GenesisNext]_genesisVars

\* Restarts are as rare as they like; blocks go on.
GenesisFairSpec == GenesisSpec /\ WF_genesisVars(NextBlock /\ Run)

-----------------------------------------------------------------------------
\* The queue agrees with the records it will delete when they are due: it holds their
\* balance once, or twice if they were imported, since InitGenesis calls queueRedelegation
\* after addRedelegation has (genesis.go:37-38).  Deleting a record twice is harmless.
ImportedBalance ==
    \A key \in DOMAIN redels :
        QueuedFor(key) = IF key \in imported THEN 2 * redels[key].amt ELSE redels[key].amt
=============================================================================
