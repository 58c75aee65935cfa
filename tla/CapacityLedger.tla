--------------------------- MODULE CapacityLedger ---------------------------
(***************************************************************************)
(* What internal/state promises, without counters, phases or cached flags: *)
(* a spawn holds one slot of its repository from its admission until it is *)
(* released; a spawn whose cleanup failed owes its slot instead, and while *)
(* anybody owes one, nobody is admitted.  State implements this.           *)
(***************************************************************************)
EXTENDS Naturals, FiniteSets

CONSTANTS Repos, SpawnIDs, RepoCap, GlobalCap

VARIABLES
    slot,   \* spawn id -> [repo, is: "held" or "owed"], partial
    closed  \* the scope has stopped admitting for good

vars == <<slot, closed>>

Owing == {id \in DOMAIN slot : slot[id].is = "owed"}
SlotsOf(repo) == {id \in DOMAIN slot : slot[id].repo = repo}

\* The slots with id holding, or owing, one of repo's.
With(id, repo, is) ==
    [i \in DOMAIN slot \cup {id} |->
        IF i = id THEN [repo |-> repo, is |-> is] ELSE slot[i]]

Without(id) == [i \in DOMAIN slot \ {id} |-> slot[i]]

Admit(id, repo) ==
    /\ ~closed
    /\ Owing = {}
    /\ id \notin DOMAIN slot
    /\ Cardinality(SlotsOf(repo)) < RepoCap[repo]
    /\ Cardinality(DOMAIN slot) < GlobalCap
    /\ slot' = With(id, repo, "held")
    /\ UNCHANGED closed

Release(id) ==
    /\ id \in DOMAIN slot \ Owing
    /\ slot' = Without(id)
    /\ UNCHANGED closed

\* Cleanup failed: the holder's slot, or that of a spawn found without one.
Default(id, repo) ==
    /\ id \in DOMAIN slot => id \in SlotsOf(repo) \ Owing
    /\ slot' = With(id, repo, "owed")
    /\ UNCHANGED closed

Settle(id) ==
    /\ id \in Owing
    /\ slot' = Without(id)
    /\ UNCHANGED closed

Close == closed' = TRUE /\ UNCHANGED slot

Init == slot = [id \in {} |-> [repo |-> id, is |-> "held"]] /\ closed = FALSE

Next ==
    \/ \E id \in SpawnIDs, repo \in Repos : Admit(id, repo) \/ Default(id, repo)
    \/ \E id \in SpawnIDs : Release(id) \/ Settle(id)
    \/ Close

Spec == Init /\ [][Next]_vars

=============================================================================
