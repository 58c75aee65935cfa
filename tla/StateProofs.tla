---------------------------- MODULE StateProofs ----------------------------
(***************************************************************************)
(* The ledger's invariants for every scope, every set of spawn identifiers *)
(* and every capacity, under any order of calls.                           *)
(*                                                                         *)
(* Three helpers change the reservation map: Charge adds a reservation,    *)
(* MovePhase changes its phase, releaseReservationLocked removes it.  One  *)
(* lemma for each says how the map's sets change and that the counters     *)
(* follow; the invariants of the operations rest on these three lemmas.    *)
(***************************************************************************)
EXTENDS State, FiniteSetTheorems, TLAPS

\* The part of the type invariant that the three helpers can disturb, and the
\* finiteness of the capacity units that GlobalInFlight counts.
MapOK ==
    /\ DOMAIN reservations \subseteq SpawnIDs
    /\ IsFiniteSet(DOMAIN reservations)
    /\ reservations \in [DOMAIN reservations -> SpawnState]
    /\ perRepo \in [Repos -> [Counters -> Nat]]
    /\ IsFiniteSet(UnitsOf(perRepo))

\* The inductive invariant.
IInv == TypeOK /\ MapOK /\ LedgerExact /\ DebtExact /\ AdmittedWithinCaps

\* The sets the counters count are finite, so their sizes are numbers.
LEMMA SetsFinite ==
    ASSUME MapOK
    PROVE  /\ \A r : /\ IsFiniteSet(Of(r))
                     /\ Cardinality(Of(r)) \in Nat
                     /\ IsFiniteSet(Of(r) \cap Active)
                     /\ Cardinality(Of(r) \cap Active) \in Nat
                     /\ Cardinality(Of(r) \cap Active) <= Cardinality(Of(r))
           /\ \A r, p : /\ IsFiniteSet(InPhase(r, p))
                        /\ Cardinality(InPhase(r, p)) \in Nat
           /\ IsFiniteSet(Debt) /\ Cardinality(Debt) \in Nat
           /\ IsFiniteSet(Active) /\ Cardinality(Active) \in Nat
           /\ Cardinality(Active) <= Cardinality(DOMAIN reservations)
           /\ Cardinality(DOMAIN reservations) \in Nat
           /\ GlobalInFlight \in Nat
<1> DEFINE D == DOMAIN reservations
<1>1. IsFiniteSet(D)
  BY DEF MapOK
<1>2. ASSUME NEW T \in SUBSET D
      PROVE  IsFiniteSet(T) /\ Cardinality(T) \in Nat /\ Cardinality(T) <= Cardinality(D)
  BY <1>1, FS_Subset, FS_CardinalityType
<1>3. /\ \A r : Of(r) \in SUBSET D
      /\ \A r : Of(r) \cap Active \in SUBSET D
      /\ \A r, p : InPhase(r, p) \in SUBSET D
      /\ Debt \in SUBSET D
      /\ Active \in SUBSET D
  BY DEF Of, InPhase, Debt, Active
<1>4. \A r : Cardinality(Of(r) \cap Active) <= Cardinality(Of(r))
  <2> TAKE r
  <2>1. IsFiniteSet(Of(r))
    BY <1>2, <1>3
  <2>2. Of(r) \cap Active \in SUBSET Of(r)
    OBVIOUS
  <2> QED
    BY <2>1, <2>2, FS_Subset
<1>5. GlobalInFlight \in Nat
  BY FS_CardinalityType DEF MapOK, GlobalInFlight
<1>6. Cardinality(D) \in Nat
  BY <1>1, FS_CardinalityType
<1> QED
  BY <1>2, <1>3, <1>4, <1>5, <1>6

\* Taking an element out of a finite set takes exactly one away.
LEMMA RemoveOne ==
    ASSUME NEW S, IsFiniteSet(S), NEW x \in S
    PROVE  /\ Cardinality(S) \in Nat
           /\ Cardinality(S) > 0
           /\ IsFiniteSet(S \ {x})
           /\ Cardinality(S \ {x}) = Cardinality(S) - 1
<1>1. Cardinality(S) \in Nat
  BY FS_CardinalityType
<1>2. Cardinality(S) # 0
  BY FS_EmptySet
<1>3. IsFiniteSet(S \ {x}) /\ Cardinality(S \ {x}) = Cardinality(S) - 1
  BY FS_RemoveElement
<1> QED
  BY <1>1, <1>2, <1>3

\* Counters that differ by one unit of one repository give sets of capacity
\* units that differ by that unit.
LEMMA OneMoreUnit ==
    ASSUME NEW f \in [Repos -> [Counters -> Nat]],
           NEW g \in [Repos -> [Counters -> Nat]],
           NEW repo \in Repos,
           g[repo]["InFlight"] = f[repo]["InFlight"] + 1,
           \A r \in Repos \ {repo} : g[r]["InFlight"] = f[r]["InFlight"]
    PROVE  /\ UnitsOf(g) = UnitsOf(f) \cup {<<repo, g[repo]["InFlight"]>>}
           /\ <<repo, g[repo]["InFlight"]>> \notin UnitsOf(f)
<1>1. ASSUME NEW h \in [Repos -> [Counters -> Nat]], NEW u
      PROVE  u \in UnitsOf(h) <=>
             \E r \in Repos : \E k \in 1 .. h[r]["InFlight"] : u = <<r, k>>
  BY DEF UnitsOf
<1>2. \A r \in Repos : f[r]["InFlight"] \in Nat /\ g[r]["InFlight"] \in Nat
  BY DEF Counters
<1>3. \A r \in Repos \ {repo} : 1 .. g[r]["InFlight"] = 1 .. f[r]["InFlight"]
  OBVIOUS
<1>4. \A n, k \in Nat : k \in 1 .. (n + 1) /\ k # n + 1 => k \in 1 .. n
  OBVIOUS
<1>5. g[repo]["InFlight"] \notin 1 .. f[repo]["InFlight"]
  BY <1>2
<1>6. ASSUME NEW u
      PROVE  u \in UnitsOf(g) <=> u \in UnitsOf(f) \/ u = <<repo, g[repo]["InFlight"]>>
  <2>1. ASSUME u \in UnitsOf(g), u # <<repo, g[repo]["InFlight"]>>
        PROVE  u \in UnitsOf(f)
    <3>1. PICK r \in Repos, k \in Nat : k \in 1 .. g[r]["InFlight"] /\ u = <<r, k>>
      BY <1>1, <2>1
    <3>2. k \in 1 .. f[r]["InFlight"]
      BY <3>1, <2>1, <1>2, <1>3, <1>4
    <3> QED
      BY <3>1, <3>2, <1>1
  <2>2. ASSUME u \in UnitsOf(f)
        PROVE  u \in UnitsOf(g)
    <3>1. PICK r \in Repos, k \in Nat : k \in 1 .. f[r]["InFlight"] /\ u = <<r, k>>
      BY <1>1, <2>2
    <3>2. k \in 1 .. g[r]["InFlight"]
      BY <3>1, <1>2
    <3> QED
      BY <3>1, <3>2, <1>1
  <2>3. <<repo, g[repo]["InFlight"]>> \in UnitsOf(g)
    <3>1. g[repo]["InFlight"] \in 1 .. g[repo]["InFlight"]
      BY <1>2
    <3> QED
      BY <3>1, <1>1
  <2> QED
    BY <2>1, <2>2, <2>3
<1>7. <<repo, g[repo]["InFlight"]>> \notin UnitsOf(f)
  BY <1>1, <1>5
<1> QED
  BY <1>6, <1>7

\* A new reservation adds its id to the sets of its repository and phase, and
\* the counters with it.
LEMMA ChargeEffect ==
    ASSUME MapOK, LedgerExact,
           NEW id \in SpawnIDs, NEW repo \in Repos, NEW p \in Phases,
           id \notin DOMAIN reservations,
           Charge(id, repo, p)
    PROVE  /\ MapOK'
           /\ LedgerExact'
           /\ Debt' = IF p = "teardown_blocked" THEN Debt \cup {id} ELSE Debt
           /\ Active' = IF p = "teardown_blocked" THEN Active ELSE Active \cup {id}
           /\ \A r : Of(r)' = IF r = repo THEN Of(r) \cup {id} ELSE Of(r)
<1> DEFINE D == DOMAIN reservations
<1>1. /\ DOMAIN reservations' = D \cup {id}
      /\ reservations'[id] = [repo |-> repo, phase |-> p, jit |-> FALSE]
      /\ \A i \in D : reservations'[i] = reservations[i]
  BY DEF Charge
<1>2. /\ \A r : Of(r)' = IF r = repo THEN Of(r) \cup {id} ELSE Of(r)
      /\ \A r, q : InPhase(r, q)' = IF r = repo /\ q = p THEN InPhase(r, q) \cup {id}
                                                         ELSE InPhase(r, q)
      /\ Debt' = IF p = "teardown_blocked" THEN Debt \cup {id} ELSE Debt
      /\ Active' = IF p = "teardown_blocked" THEN Active ELSE Active \cup {id}
  BY <1>1 DEF Of, InPhase, Debt, Active
<1>3. /\ perRepo' \in [Repos -> [Counters -> Nat]]
      /\ \A r \in Repos \ {repo} : perRepo'[r] = perRepo[r]
      /\ perRepo'[repo]["InFlight"] = perRepo[repo]["InFlight"] + 1
      /\ perRepo'[repo][p] = perRepo[repo][p] + 1
      /\ \A q \in Phases \ {p} : perRepo'[repo][q] = perRepo[repo][q]
  BY DEF Charge, MapOK, Counters, Phases
<1>4. /\ UnitsOf(perRepo') = UnitsOf(perRepo) \cup {<<repo, perRepo'[repo]["InFlight"]>>}
      /\ <<repo, perRepo'[repo]["InFlight"]>> \notin UnitsOf(perRepo)
  BY <1>3, OneMoreUnit DEF MapOK
<1>5. IsFiniteSet(UnitsOf(perRepo')) /\ GlobalInFlight' = GlobalInFlight + 1
  BY <1>4, FS_AddElement DEF MapOK, GlobalInFlight
<1>6. IsFiniteSet(D \cup {id}) /\ Cardinality(D \cup {id}) = Cardinality(D) + 1
  BY FS_AddElement DEF MapOK
<1>7. reservations' \in [D \cup {id} -> SpawnState]
  BY DEF Charge, MapOK, SpawnState
<1>8. MapOK'
  BY <1>1, <1>3, <1>5, <1>6, <1>7 DEF MapOK
<1>9. ASSUME NEW r \in Repos
      PROVE  /\ perRepo'[r]["InFlight"] = Cardinality(Of(r)')
             /\ \A q \in Phases : perRepo'[r][q] = Cardinality(InPhase(r, q)')
  <2>1. /\ perRepo[r]["InFlight"] = Cardinality(Of(r))
        /\ \A q \in Phases : perRepo[r][q] = Cardinality(InPhase(r, q))
    BY DEF LedgerExact
  <2>2. CASE r # repo
    BY <2>1, <2>2, <1>2, <1>3
  <2>3. CASE r = repo
    <3>1. id \notin Of(r) /\ \A q : id \notin InPhase(r, q)
      BY DEF Of, InPhase
    <3>2. Cardinality(Of(r) \cup {id}) = Cardinality(Of(r)) + 1
      BY <3>1, SetsFinite, FS_AddElement
    <3>3. Cardinality(InPhase(r, p) \cup {id}) = Cardinality(InPhase(r, p)) + 1
      BY <3>1, SetsFinite, FS_AddElement
    <3> QED
      BY <2>1, <2>3, <3>2, <3>3, <1>2, <1>3
  <2> QED
    BY <2>2, <2>3
<1>10. LedgerExact'
  BY <1>9, <1>1, <1>5, <1>6 DEF LedgerExact
<1> QED
  BY <1>2, <1>8, <1>10

\* A phase change moves the id between two sets of its repository; the unit it
\* takes along is there, so the clamp at zero is not met.
LEMMA MoveEffect ==
    ASSUME MapOK, LedgerExact,
           NEW id \in DOMAIN reservations, NEW q \in Phases,
           reservations[id].phase # q, reservations[id].phase # "teardown_blocked",
           MovePhase(id, q)
    PROVE  /\ MapOK'
           /\ LedgerExact'
           /\ Debt' = IF q = "teardown_blocked" THEN Debt \cup {id} ELSE Debt
           /\ Active' = IF q = "teardown_blocked" THEN Active \ {id} ELSE Active
           /\ \A r : Of(r)' = Of(r)
           /\ id \notin Debt
<1>1. PICK p \in Phases, repo \in Repos :
          reservations[id].phase = p /\ reservations[id].repo = repo
  BY DEF MapOK, SpawnState
<1>2. /\ DOMAIN reservations' = DOMAIN reservations
      /\ \A i \in DOMAIN reservations \ {id} : reservations'[i] = reservations[i]
      /\ reservations' \in [DOMAIN reservations -> SpawnState]
  BY DEF MovePhase, MapOK, SpawnState
<1>3. reservations'[id].repo = repo /\ reservations'[id].phase = q
  BY <1>1 DEF MovePhase, MapOK, SpawnState
<1>4. /\ \A r : Of(r)' = Of(r)
      /\ \A r, x : InPhase(r, x)' =
            IF r = repo /\ x = p THEN InPhase(r, x) \ {id}
            ELSE IF r = repo /\ x = q THEN InPhase(r, x) \cup {id}
            ELSE InPhase(r, x)
      /\ Debt' = IF q = "teardown_blocked" THEN Debt \cup {id} ELSE Debt
      /\ Active' = IF q = "teardown_blocked" THEN Active \ {id} ELSE Active
      /\ id \notin Debt
  BY <1>1, <1>2, <1>3 DEF Of, InPhase, Debt, Active
<1>5. /\ perRepo' \in [Repos -> [Counters -> Nat]]
      /\ \A r \in Repos \ {repo} : perRepo'[r] = perRepo[r]
      /\ perRepo'[repo]["InFlight"] = perRepo[repo]["InFlight"]
      /\ perRepo'[repo][p] = Dec(perRepo[repo][p])
      /\ perRepo'[repo][q] = perRepo[repo][q] + 1
      /\ \A x \in Phases \ {p, q} : perRepo'[repo][x] = perRepo[repo][x]
  BY <1>1 DEF MovePhase, MapOK, Counters, Phases, Dec
<1>6. UnitsOf(perRepo') = UnitsOf(perRepo)
  <2>1. \A r \in Repos : perRepo'[r]["InFlight"] = perRepo[r]["InFlight"]
    BY <1>5
  <2> QED
    BY <2>1 DEF UnitsOf
<1>7. MapOK'
  BY <1>2, <1>5, <1>6 DEF MapOK
<1>8. ASSUME NEW r \in Repos
      PROVE  /\ perRepo'[r]["InFlight"] = Cardinality(Of(r)')
             /\ \A x \in Phases : perRepo'[r][x] = Cardinality(InPhase(r, x)')
  <2>1. /\ perRepo[r]["InFlight"] = Cardinality(Of(r))
        /\ \A x \in Phases : perRepo[r][x] = Cardinality(InPhase(r, x))
    BY DEF LedgerExact
  <2>2. CASE r # repo
    BY <2>1, <2>2, <1>4, <1>5
  <2>3. CASE r = repo
    <3>1. id \in InPhase(r, p) /\ id \notin InPhase(r, q)
      BY <1>1, <2>3 DEF Of, InPhase
    <3>2. Cardinality(InPhase(r, q) \cup {id}) = Cardinality(InPhase(r, q)) + 1
      BY <3>1, SetsFinite, FS_AddElement
    <3>3. /\ Cardinality(InPhase(r, p) \ {id}) = Cardinality(InPhase(r, p)) - 1
          /\ Cardinality(InPhase(r, p)) > 0
      BY <3>1, SetsFinite, RemoveOne
    <3>4. perRepo'[r][p] = Cardinality(InPhase(r, p)')
      BY <1>1, <1>4, <1>5, <2>1, <2>3, <3>3 DEF Dec
    <3>5. perRepo'[r][q] = Cardinality(InPhase(r, q)')
      BY <1>1, <1>4, <1>5, <2>1, <2>3, <3>2
    <3> QED
      BY <2>1, <2>3, <3>4, <3>5, <1>4, <1>5
  <2> QED
    BY <2>2, <2>3
<1>9. LedgerExact'
  BY <1>8, <1>2, <1>6 DEF LedgerExact, GlobalInFlight
<1> QED
  BY <1>4, <1>7, <1>9

\* A release removes the id from every set and gives back exactly one unit.
LEMMA ReleaseEffect ==
    ASSUME MapOK, LedgerExact,
           NEW id \in DOMAIN reservations,
           releaseReservationLocked(id)
    PROVE  /\ MapOK'
           /\ LedgerExact'
           /\ Debt' = Debt \ {id}
           /\ Active' = Active \ {id}
           /\ \A r : Of(r)' = Of(r) \ {id}
<1> DEFINE D == DOMAIN reservations
<1>1. PICK p \in Phases, repo \in Repos :
          reservations[id].phase = p /\ reservations[id].repo = repo
  BY DEF MapOK, SpawnState
<1>2. /\ DOMAIN reservations' = D \ {id}
      /\ \A i \in D \ {id} : reservations'[i] = reservations[i]
      /\ reservations' \in [D \ {id} -> SpawnState]
  BY DEF releaseReservationLocked, MapOK
<1>3. /\ \A r : Of(r)' = Of(r) \ {id}
      /\ \A r, x : InPhase(r, x)' = InPhase(r, x) \ {id}
      /\ Debt' = Debt \ {id}
      /\ Active' = Active \ {id}
  BY <1>2 DEF Of, InPhase, Debt, Active
<1>4. /\ perRepo' \in [Repos -> [Counters -> Nat]]
      /\ \A r \in Repos \ {repo} : perRepo'[r] = perRepo[r]
      /\ perRepo'[repo]["InFlight"] = Dec(perRepo[repo]["InFlight"])
      /\ perRepo'[repo][p] = Dec(perRepo[repo][p])
      /\ \A x \in Phases \ {p} : perRepo'[repo][x] = perRepo[repo][x]
  BY <1>1 DEF releaseReservationLocked, MapOK, Counters, Phases, Dec
<1>5. /\ perRepo[repo]["InFlight"] = Cardinality(Of(repo))
      /\ perRepo[repo][p] = Cardinality(InPhase(repo, p))
  BY <1>1 DEF LedgerExact
<1>6. /\ Cardinality(Of(repo) \ {id}) = Cardinality(Of(repo)) - 1
      /\ Cardinality(Of(repo)) > 0
      /\ Cardinality(InPhase(repo, p) \ {id}) = Cardinality(InPhase(repo, p)) - 1
      /\ Cardinality(InPhase(repo, p)) > 0
  <2>1. id \in Of(repo) /\ id \in InPhase(repo, p)
    BY <1>1 DEF Of, InPhase
  <2>2. IsFiniteSet(Of(repo)) /\ IsFiniteSet(InPhase(repo, p))
    BY SetsFinite
  <2> QED
    BY <2>1, <2>2, RemoveOne
<1>7. /\ perRepo'[repo]["InFlight"] = perRepo[repo]["InFlight"] - 1
      /\ perRepo'[repo][p] = perRepo[repo][p] - 1
  BY <1>4, <1>5, <1>6 DEF Dec
<1>8. /\ UnitsOf(perRepo) = UnitsOf(perRepo') \cup {<<repo, perRepo[repo]["InFlight"]>>}
      /\ <<repo, perRepo[repo]["InFlight"]>> \notin UnitsOf(perRepo')
  <2>1. /\ perRepo[repo]["InFlight"] = perRepo'[repo]["InFlight"] + 1
        /\ perRepo \in [Repos -> [Counters -> Nat]]
    BY <1>1, <1>7 DEF MapOK, Counters
  <2>2. \A r \in Repos \ {repo} : perRepo[r]["InFlight"] = perRepo'[r]["InFlight"]
    BY <1>4
  <2>3. perRepo' \in [Repos -> [Counters -> Nat]]
    BY <1>4
  <2> QED
    BY <2>1, <2>2, <2>3, OneMoreUnit
<1>9. IsFiniteSet(UnitsOf(perRepo')) /\ GlobalInFlight' = GlobalInFlight - 1
  <2>1. UnitsOf(perRepo') = UnitsOf(perRepo) \ {<<repo, perRepo[repo]["InFlight"]>>}
    BY <1>8
  <2>2. <<repo, perRepo[repo]["InFlight"]>> \in UnitsOf(perRepo)
    BY <1>8
  <2>3. IsFiniteSet(UnitsOf(perRepo))
    BY DEF MapOK
  <2>4. /\ IsFiniteSet(UnitsOf(perRepo) \ {<<repo, perRepo[repo]["InFlight"]>>})
        /\ Cardinality(UnitsOf(perRepo) \ {<<repo, perRepo[repo]["InFlight"]>>})
             = Cardinality(UnitsOf(perRepo)) - 1
    BY <2>2, <2>3, RemoveOne
  <2> QED
    BY <2>1, <2>4 DEF GlobalInFlight
<1>10. IsFiniteSet(D \ {id}) /\ Cardinality(D \ {id}) = Cardinality(D) - 1
  BY RemoveOne DEF MapOK
<1>11. MapOK'
  BY <1>2, <1>4, <1>9, <1>10 DEF MapOK
<1>12. ASSUME NEW r \in Repos
       PROVE  /\ perRepo'[r]["InFlight"] = Cardinality(Of(r)')
              /\ \A x \in Phases : perRepo'[r][x] = Cardinality(InPhase(r, x)')
  <2>1. /\ perRepo[r]["InFlight"] = Cardinality(Of(r))
        /\ \A x \in Phases : perRepo[r][x] = Cardinality(InPhase(r, x))
    BY DEF LedgerExact
  <2>2. CASE r # repo
    <3>1. id \notin Of(r) /\ \A x : id \notin InPhase(r, x)
      BY <1>1, <2>2 DEF Of, InPhase
    <3>2. Of(r)' = Of(r) /\ \A x : InPhase(r, x)' = InPhase(r, x)
      BY <3>1, <1>3
    <3> QED
      BY <2>1, <2>2, <3>2, <1>4
  <2>3. CASE r = repo
    <3>1. \A x \in Phases \ {p} : InPhase(r, x)' = InPhase(r, x)
      BY <1>1, <1>3 DEF InPhase
    <3> QED
      BY <2>1, <2>3, <3>1, <1>3, <1>4, <1>5, <1>6, <1>7
  <2> QED
    BY <2>2, <2>3
<1>13. LedgerExact'
  BY <1>12, <1>2, <1>9, <1>10 DEF LedgerExact
<1> QED
  BY <1>3, <1>11, <1>13

\* A step that admits nobody keeps the admitted spawns within the caps.
LEMMA NoAdmission ==
    ASSUME MapOK, AdmittedWithinCaps, MapOK',
           Active' \subseteq Active,
           \A r : Of(r)' \cap Active' \subseteq Of(r) \cap Active
    PROVE  AdmittedWithinCaps'
<1>1. /\ IsFiniteSet(Active) /\ Cardinality(Active) \in Nat
      /\ \A r : /\ IsFiniteSet(Of(r) \cap Active)
                /\ Cardinality(Of(r) \cap Active) \in Nat
  BY SetsFinite
<1>2. Cardinality(Active') <= Cardinality(Active) /\ Cardinality(Active') \in Nat
  BY <1>1, FS_Subset, FS_CardinalityType
<1>3. ASSUME NEW r \in Repos
      PROVE  Cardinality(Of(r)' \cap Active') <= RepoCap[r]
  <2>1. Of(r)' \cap Active' \in SUBSET (Of(r) \cap Active)
    OBVIOUS
  <2>2. /\ Cardinality(Of(r)' \cap Active') <= Cardinality(Of(r) \cap Active)
        /\ Cardinality(Of(r)' \cap Active') \in Nat
    BY <1>1, <2>1, FS_Subset, FS_CardinalityType
  <2>3. Cardinality(Of(r) \cap Active) <= RepoCap[r] /\ RepoCap[r] \in Nat
    BY CapAssumption DEF AdmittedWithinCaps
  <2> QED
    BY <1>1, <2>2, <2>3
<1>4. Cardinality(Active') <= GlobalCap
  BY <1>1, <1>2, CapAssumption DEF AdmittedWithinCaps
<1> QED
  BY <1>3, <1>4 DEF AdmittedWithinCaps

\* An empty ledger satisfies the invariant: nothing is counted, nothing is owed.
LEMMA InitIInv == StateInit => IInv
<1> SUFFICES ASSUME StateInit
             PROVE  IInv
  OBVIOUS
<1>1. DOMAIN reservations = {}
  BY DEF StateInit
<1>2. UnitsOf(perRepo) = {}
  <2>1. \A r \in Repos : perRepo[r]["InFlight"] = 0
    BY DEF StateInit, Counters
  <2>2. \A r \in Repos : 1 .. perRepo[r]["InFlight"] = {}
    BY <2>1
  <2> QED
    BY <2>2 DEF UnitsOf
<1>3. perRepo \in [Repos -> [Counters -> Nat]]
  BY DEF StateInit
<1>4. reservations \in [DOMAIN reservations -> SpawnState]
  BY <1>1 DEF StateInit
<1>5. TypeOK /\ MapOK
  BY <1>1, <1>2, <1>3, <1>4, FS_EmptySet DEF StateInit, TypeOK, MapOK, Totals
<1>6. /\ \A r : Of(r) = {} /\ Of(r) \cap Active = {}
      /\ \A r, p : InPhase(r, p) = {}
      /\ Debt = {} /\ Active = {}
  BY <1>1 DEF Of, InPhase, Debt, Active
<1>7. LedgerExact
  BY <1>1, <1>2, <1>6, FS_EmptySet
     DEF LedgerExact, StateInit, GlobalInFlight, Counters, Phases
<1>8. DebtExact
  BY <1>6, FS_EmptySet DEF DebtExact, StateInit, Totals
<1>9. AdmittedWithinCaps
  BY <1>6, FS_EmptySet, CapAssumption DEF AdmittedWithinCaps
<1> QED
  BY <1>5, <1>7, <1>8, <1>9 DEF IInv

\* Admission: the only step that makes Active grow.
LEMMA TryReserveIInv ==
    ASSUME IInv, NEW id \in SpawnIDs, NEW repo \in Repos, TryReserve(id, repo)
    PROVE  IInv'
<1>1. MapOK /\ LedgerExact /\ id \notin DOMAIN reservations /\ Charge(id, repo, "pending")
  BY DEF IInv, TryReserve, CanReserve
<1>2. /\ MapOK'
      /\ LedgerExact'
      /\ Debt' = Debt
      /\ Active' = Active \cup {id}
      /\ \A r : Of(r)' = IF r = repo THEN Of(r) \cup {id} ELSE Of(r)
  <2>1. "pending" \in Phases /\ "pending" # "teardown_blocked"
    BY DEF Phases
  <2> QED
    BY <1>1, <2>1, ChargeEffect
<1>3. TypeOK'
  BY <1>2 DEF IInv, TypeOK, MapOK, TryReserve
<1>4. DebtExact'
  BY <1>2 DEF IInv, DebtExact, TryReserve
<1>5. id \notin Active /\ \A r : id \notin Of(r)
  BY <1>1 DEF Active, Of
<1>6. Cardinality(Active') <= GlobalCap
  <2>1. Cardinality(Active') = Cardinality(Active) + 1
    BY <1>1, <1>2, <1>5, SetsFinite, FS_AddElement
  <2>2. Cardinality(DOMAIN reservations) < GlobalCap
    BY DEF IInv, LedgerExact, TryReserve, CanReserve
  <2>3. /\ Cardinality(Active) <= Cardinality(DOMAIN reservations)
        /\ Cardinality(Active) \in Nat
        /\ Cardinality(DOMAIN reservations) \in Nat
    BY <1>1, SetsFinite
  <2> QED
    BY <2>1, <2>2, <2>3, CapAssumption
<1>7. ASSUME NEW r \in Repos
      PROVE  Cardinality(Of(r)' \cap Active') <= RepoCap[r]
  <2>1. CASE r = repo
    <3> DEFINE A == Of(r) \cap Active
    <3>1. Of(r)' \cap Active' = A \cup {id}
      BY <1>2, <2>1
    <3>2. IsFiniteSet(A) /\ id \notin A
      BY <1>1, <1>5, SetsFinite
    <3> HIDE DEF A
    <3>3. Cardinality(Of(r)' \cap Active') = Cardinality(A) + 1
      BY <3>1, <3>2, FS_AddElement
    <3>4. Cardinality(Of(r)) < RepoCap[r]
      BY <2>1 DEF IInv, LedgerExact, TryReserve, CanReserve, InFlight
    <3>5. /\ Cardinality(A) <= Cardinality(Of(r))
          /\ Cardinality(A) \in Nat /\ Cardinality(Of(r)) \in Nat
      BY <1>1, SetsFinite DEF A
    <3> QED
      BY <3>3, <3>4, <3>5, CapAssumption
  <2>2. CASE r # repo
    <3>1. Of(r)' \cap Active' = Of(r) \cap Active
      BY <1>2, <1>5, <2>2
    <3> QED
      BY <3>1 DEF IInv, AdmittedWithinCaps
  <2> QED
    BY <2>1, <2>2
<1>8. AdmittedWithinCaps'
  BY <1>6, <1>7 DEF AdmittedWithinCaps
<1> QED
  BY <1>2, <1>3, <1>4, <1>8 DEF IInv

\* MarkOnline and MarkAssigned: the spawn stays admitted.
LEMMA PhaseIInv ==
    ASSUME IInv, NEW id \in SpawnIDs, MarkOnline(id) \/ MarkAssigned(id)
    PROVE  IInv'
<1>1. PICK q \in {"online", "assigned"} :
          /\ id \in DOMAIN reservations
          /\ reservations[id].phase # q
          /\ reservations[id].phase # "teardown_blocked"
          /\ MovePhase(id, q)
  BY DEF MarkOnline, MarkAssigned
<1>2. q \in Phases /\ q # "teardown_blocked"
  BY DEF Phases
<1>3. /\ MapOK' /\ LedgerExact'
      /\ Debt' = Debt /\ Active' = Active
      /\ \A r : Of(r)' = Of(r)
  BY <1>1, <1>2, MoveEffect DEF IInv
<1>4. /\ draining' = draining
      /\ teardownBlocked' = teardownBlocked
      /\ totals' \in [Totals -> Nat]
      /\ totals'["teardownFailures"] = totals["teardownFailures"]
      /\ totals'["teardownReconciled"] = totals["teardownReconciled"]
  BY DEF MarkOnline, MarkAssigned, IInv, TypeOK, Totals
<1>5. TypeOK'
  BY <1>3, <1>4 DEF IInv, TypeOK, MapOK
<1>6. DebtExact'
  BY <1>3, <1>4 DEF IInv, DebtExact
<1>7. AdmittedWithinCaps'
  BY <1>3 DEF IInv, AdmittedWithinCaps
<1> QED
  BY <1>3, <1>5, <1>6, <1>7 DEF IInv

\* MarkTeardownBlocked: one more debt, counted once, and the barrier goes up.
LEMMA BlockIInv ==
    ASSUME IInv, NEW id \in SpawnIDs, NEW repo \in Repos,
           MarkTeardownBlocked(id, repo)
    PROVE  IInv'
<1> DEFINE p == "teardown_blocked"
<1>1. p \in Phases
  BY DEF Phases
<1>2. /\ MapOK' /\ LedgerExact'
      /\ Debt' = Debt \cup {id}
      /\ id \notin Debt
      /\ Active' \subseteq Active
      /\ \A r : Of(r)' \cap Active' \subseteq Of(r) \cap Active
  <2>1. CASE id \notin DOMAIN reservations /\ Charge(id, repo, p)
    <3>1. /\ MapOK' /\ LedgerExact'
          /\ Debt' = Debt \cup {id} /\ Active' = Active
          /\ \A r : Of(r)' = IF r = repo THEN Of(r) \cup {id} ELSE Of(r)
      BY <1>1, <2>1, ChargeEffect DEF IInv
    <3>2. id \notin Active /\ id \notin Debt
      BY <2>1 DEF Active, Debt
    <3> QED
      BY <3>1, <3>2
  <2>2. CASE /\ id \in DOMAIN reservations
             /\ reservations[id].phase # p
             /\ MovePhase(id, p)
    <3>1. /\ MapOK' /\ LedgerExact'
          /\ Debt' = Debt \cup {id} /\ Active' = Active \ {id}
          /\ \A r : Of(r)' = Of(r)
          /\ id \notin Debt
      BY <1>1, <2>2, MoveEffect DEF IInv
    <3> QED
      BY <3>1
  <2> QED
    BY <2>1, <2>2 DEF MarkTeardownBlocked
<1>3. /\ draining' = draining
      /\ teardownBlocked' = TRUE
      /\ totals' \in [Totals -> Nat]
      /\ totals'["teardownFailures"] = totals["teardownFailures"] + 1
      /\ totals'["teardownReconciled"] = totals["teardownReconciled"]
  BY DEF MarkTeardownBlocked, Bump, IInv, TypeOK, Totals
<1>4. TypeOK'
  BY <1>2, <1>3 DEF IInv, TypeOK, MapOK
<1>5. DebtExact'
  <2>1. Cardinality(Debt') = Cardinality(Debt) + 1 /\ Cardinality(Debt) \in Nat
    BY <1>2, SetsFinite, FS_AddElement DEF IInv
  <2>2. totals["teardownReconciled"] \in Nat
    BY DEF IInv, TypeOK, Totals
  <2>3. Debt' # {}
    BY <1>2
  <2> QED
    BY <1>3, <2>1, <2>2, <2>3 DEF IInv, DebtExact
<1>6. AdmittedWithinCaps'
  BY <1>2, NoAdmission DEF IInv
<1> QED
  BY <1>2, <1>4, <1>5, <1>6 DEF IInv

\* ReleaseReservation and ResolveTeardown: debt goes only with its own count.
LEMMA ReleaseIInv ==
    ASSUME IInv, NEW id \in SpawnIDs, ReleaseReservation(id) \/ ResolveTeardown(id)
    PROVE  IInv'
<1>1. id \in DOMAIN reservations /\ releaseReservationLocked(id)
  BY DEF ReleaseReservation, ResolveTeardown
<1>2. /\ MapOK' /\ LedgerExact'
      /\ Debt' = Debt \ {id} /\ Active' = Active \ {id}
      /\ \A r : Of(r)' = Of(r) \ {id}
  BY <1>1, ReleaseEffect DEF IInv
<1>3. AdmittedWithinCaps'
  <2>1. Active' \subseteq Active /\ \A r : Of(r)' \cap Active' \subseteq Of(r) \cap Active
    BY <1>2
  <2> QED
    BY <1>2, <2>1, NoAdmission DEF IInv
<1>4. TypeOK' /\ DebtExact'
  <2>1. CASE ReleaseReservation(id)
    <3>1. Debt' = Debt
      BY <1>2, <2>1 DEF ReleaseReservation, Debt
    <3> QED
      BY <1>2, <2>1, <3>1 DEF IInv, TypeOK, MapOK, DebtExact, ReleaseReservation
  <2>2. CASE ResolveTeardown(id)
    <3>1. id \in Debt
      BY <2>2 DEF ResolveTeardown, Debt
    <3>2. /\ Cardinality(Debt') = Cardinality(Debt) - 1
          /\ Cardinality(Debt) \in Nat
      BY <1>2, <3>1, SetsFinite, RemoveOne DEF IInv
    <3>3. /\ draining' = draining
          /\ totals' \in [Totals -> Nat]
          /\ totals'["teardownFailures"] = totals["teardownFailures"]
          /\ totals'["teardownReconciled"] = totals["teardownReconciled"] + 1
      BY <2>2 DEF ResolveTeardown, Bump, IInv, TypeOK, Totals
    <3>4. teardownBlocked' \in BOOLEAN /\ (teardownBlocked' <=> Debt' # {})
      BY <1>2, <2>2 DEF ResolveTeardown, Debt
    <3>5. totals["teardownReconciled"] \in Nat
      BY DEF IInv, TypeOK, Totals
    <3>6. TypeOK'
      BY <1>2, <3>3, <3>4 DEF IInv, TypeOK, MapOK
    <3>7. DebtExact'
      BY <3>2, <3>3, <3>4, <3>5 DEF IInv, DebtExact
    <3> QED
      BY <3>6, <3>7
  <2> QED
    BY <2>1, <2>2
<1> QED
  BY <1>2, <1>3, <1>4 DEF IInv

\* RecordJIT and SetDraining leave what is counted alone.
LEMMA OtherIInv ==
    ASSUME IInv,
           \/ \E id \in SpawnIDs : RecordJIT(id)
           \/ SetDraining
           \/ UNCHANGED stateVars
    PROVE  IInv'
<1> DEFINE
      SamePhases ==
          /\ DOMAIN reservations' = DOMAIN reservations
          /\ reservations' \in [DOMAIN reservations -> SpawnState]
          /\ \A i \in DOMAIN reservations :
                /\ reservations'[i].repo = reservations[i].repo
                /\ reservations'[i].phase = reservations[i].phase
      SameCounts ==
          /\ perRepo' = perRepo
          /\ teardownBlocked' = teardownBlocked
          /\ draining' \in BOOLEAN
          /\ totals' \in [Totals -> Nat]
          /\ totals'["teardownFailures"] = totals["teardownFailures"]
          /\ totals'["teardownReconciled"] = totals["teardownReconciled"]
<1>1. SamePhases
  <2>1. ASSUME NEW id \in SpawnIDs, RecordJIT(id)
        PROVE  SamePhases
    BY <2>1 DEF IInv, TypeOK, RecordJIT, SpawnState
  <2>2. CASE reservations' = reservations
    BY <2>2 DEF IInv, TypeOK
  <2> QED
    BY <2>1, <2>2 DEF SetDraining, stateVars
<1>2. SameCounts
  BY DEF IInv, TypeOK, RecordJIT, SetDraining, stateVars
<1>3. /\ \A r : Of(r)' = Of(r)
      /\ \A r, p : InPhase(r, p)' = InPhase(r, p)
      /\ Debt' = Debt
      /\ Active' = Active
  BY <1>1 DEF Of, InPhase, Debt, Active
<1>4. TypeOK' /\ MapOK'
  BY <1>1, <1>2 DEF IInv, TypeOK, MapOK
<1>5. LedgerExact'
  BY <1>1, <1>2, <1>3 DEF IInv, LedgerExact, GlobalInFlight
<1>6. DebtExact'
  BY <1>2, <1>3 DEF IInv, DebtExact
<1>7. AdmittedWithinCaps'
  BY <1>3 DEF IInv, AdmittedWithinCaps
<1> QED
  BY <1>4, <1>5, <1>6, <1>7 DEF IInv

\* Every call preserves the inductive invariant.
LEMMA NextIInv == IInv /\ [StateNext]_stateVars => IInv'
<1> SUFFICES ASSUME IInv, [StateNext]_stateVars
             PROVE  IInv'
  OBVIOUS
<1>1. ASSUME NEW id \in SpawnIDs, NEW repo \in Repos, Operation(id, repo)
      PROVE  IInv'
  BY <1>1, TryReserveIInv, PhaseIInv, BlockIInv, ReleaseIInv, OtherIInv DEF Operation
<1>2. CASE SetDraining \/ UNCHANGED stateVars
  BY <1>2, OtherIInv
<1> QED
  BY <1>1, <1>2 DEF StateNext

\* Whatever the callers do, the invariant holds: the counters, the barrier, the
\* totals and the caps of state.go together.
THEOREM InductiveInvariant == StateSpec => []IInv
BY InitIInv, NextIInv, PTL DEF StateSpec

\* state.go is type correct: in particular no counter goes below zero.
THEOREM TypeCorrect == StateSpec => []TypeOK
<1>1. IInv => TypeOK
  BY DEF IInv
<1> QED
  BY <1>1, InductiveInvariant, PTL

\* The counters admission reads always agree with the reservation map.
THEOREM CountersExact == StateSpec => []LedgerExact
<1>1. IInv => LedgerExact
  BY DEF IInv
<1> QED
  BY <1>1, InductiveInvariant, PTL

\* The cached barrier and the teardown totals always agree with the debt.
THEOREM BarrierExact == StateSpec => []DebtExact
<1>1. IInv => DebtExact
  BY DEF IInv
<1> QED
  BY <1>1, InductiveInvariant, PTL

\* Admitted spawns never exceed a repository's or the scope's capacity.
THEOREM CapsHold == StateSpec => []AdmittedWithinCaps
<1>1. IInv => AdmittedWithinCaps
  BY DEF IInv
<1> QED
  BY <1>1, InductiveInvariant, PTL

\* No call admits a spawn while some cleanup is owed.
THEOREM DebtFreezes == StateSpec => DebtFreezesAdmission
<1>1. IInv /\ [StateNext]_stateVars => [FrozenStep]_stateVars
  <2> SUFFICES ASSUME IInv, StateNext, Debt # {},
                      NEW id \in DOMAIN reservations' \ DOMAIN reservations
               PROVE  reservations'[id].phase = "teardown_blocked"
    BY DEF FrozenStep
  <2>1. teardownBlocked
    BY DEF IInv, DebtExact
  <2>2. PICK i \in SpawnIDs, repo \in Repos : MarkTeardownBlocked(i, repo)
    <3>1. ASSUME NEW i \in SpawnIDs, NEW repo \in Repos, Operation(i, repo)
          PROVE  MarkTeardownBlocked(i, repo)
      <4>1. ~TryReserve(i, repo)
        BY <2>1 DEF TryReserve, CanReserve, SchedulingBlocked
      <4>2. \/ MarkTeardownBlocked(i, repo)
            \/ DOMAIN reservations' \subseteq DOMAIN reservations
        BY <3>1, <4>1
           DEF Operation, RecordJIT, MarkOnline, MarkAssigned, MovePhase,
               ResolveTeardown, ReleaseReservation, releaseReservationLocked
      <4> QED
        BY <4>2
    <3>2. ~SetDraining
      BY DEF SetDraining
    <3> QED
      BY <3>1, <3>2 DEF StateNext
  <2> QED
    BY <2>2 DEF MarkTeardownBlocked, Charge, MovePhase
<1> QED
  BY <1>1, InductiveInvariant, PTL DEF StateSpec, DebtFreezesAdmission

-----------------------------------------------------------------------------
(* Refinement.  The abstract slot of a spawn is what the mapping of State  *)
(* makes of its reservation.                                               *)

Slot == [id \in DOMAIN reservations |->
            [repo |-> reservations[id].repo,
             is |-> IF id \in Debt THEN "owed" ELSE "held"]]

\* The abstract sets are the concrete ones.
LEMMA SlotFacts ==
    /\ DOMAIN Slot = DOMAIN reservations
    /\ Abstract!Owing = Debt
    /\ \A repo : Abstract!SlotsOf(repo) = Of(repo)
BY DEF Slot, Abstract!Owing, Abstract!SlotsOf, Of, Debt

\* The cardinality of the abstract module is the cardinality of this one.
LEMMA SameCardinality == \A S : Abstract!Cardinality(S) = Cardinality(S)
BY DEF Abstract!Cardinality, Cardinality

\* TryReserve decides by counters; the abstract Admit by the slots themselves.
LEMMA RefineTryReserve ==
    ASSUME IInv, NEW id \in SpawnIDs, NEW repo \in Repos, TryReserve(id, repo)
    PROVE  Abstract!Admit(id, repo)
<1>1. ~draining /\ Debt = {} /\ id \notin DOMAIN reservations /\ draining' = draining
  BY DEF TryReserve, CanReserve, SchedulingBlocked, IInv, DebtExact
<1>2. /\ Cardinality(Of(repo)) < RepoCap[repo]
      /\ Cardinality(DOMAIN reservations) < GlobalCap
  BY DEF TryReserve, CanReserve, InFlight, IInv, LedgerExact
<1>3. /\ DOMAIN reservations' = DOMAIN reservations \cup {id}
      /\ reservations'[id].repo = repo
      /\ \A i \in DOMAIN reservations : reservations'[i] = reservations[i]
  BY <1>1 DEF TryReserve, Charge
<1>4. Debt' = {}
  <2>1. reservations'[id].phase = "pending"
    BY DEF TryReserve, Charge
  <2> QED
    BY <1>1, <1>3, <2>1 DEF Debt
<1>5. Slot' = Abstract!With(id, repo, "held")
  BY <1>1, <1>3, <1>4 DEF Slot, Abstract!With
<1> QED
  BY <1>1, <1>2, <1>5, SlotFacts, SameCardinality DEF Abstract!Admit, Slot

\* Known or adopted, the spawn ends up owing the slot of its own repository.
LEMMA RefineBlock ==
    ASSUME IInv, NEW id \in SpawnIDs, NEW repo \in Repos,
           MarkTeardownBlocked(id, repo)
    PROVE  \E r \in Repos : Abstract!Default(id, r)
<1>1. PICK r \in Repos :
          /\ DOMAIN reservations' = DOMAIN reservations \cup {id}
          /\ reservations'[id].repo = r
          /\ \A i \in DOMAIN reservations \ {id} : reservations'[i] = reservations[i]
          /\ Debt' = Debt \cup {id}
          /\ id \in DOMAIN reservations => id \in Of(r) \ Debt
  <2>1. "teardown_blocked" \in Phases
    BY DEF Phases
  <2>2. CASE id \notin DOMAIN reservations /\ Charge(id, repo, "teardown_blocked")
    <3>1. Debt' = Debt \cup {id}
      BY <2>1, <2>2, ChargeEffect DEF IInv
    <3>2. /\ DOMAIN reservations' = DOMAIN reservations \cup {id}
          /\ reservations'[id].repo = repo
          /\ \A i \in DOMAIN reservations : reservations'[i] = reservations[i]
      BY <2>2 DEF Charge
    <3> QED
      BY <2>2, <3>1, <3>2
  <2>3. CASE /\ id \in DOMAIN reservations
             /\ reservations[id].phase # "teardown_blocked"
             /\ MovePhase(id, "teardown_blocked")
    <3>1. Debt' = Debt \cup {id} /\ id \notin Debt
      BY <2>1, <2>3, MoveEffect DEF IInv
    <3>2. /\ DOMAIN reservations' = DOMAIN reservations
          /\ reservations'[id].repo = reservations[id].repo
          /\ reservations[id].repo \in Repos
          /\ \A i \in DOMAIN reservations \ {id} : reservations'[i] = reservations[i]
      BY <2>3 DEF MovePhase, IInv, MapOK, SpawnState
    <3> QED
      BY <2>3, <3>1, <3>2 DEF Of
  <2> QED
    BY <2>2, <2>3 DEF MarkTeardownBlocked
<1>2. draining' = draining
  BY DEF MarkTeardownBlocked
<1>3. Slot' = Abstract!With(id, r, "owed")
  BY <1>1 DEF Slot, Abstract!With
<1> QED
  BY <1>1, <1>2, <1>3, SlotFacts DEF Abstract!Default, Slot

\* A released reservation was held and is given up; a resolved one was owed and
\* is settled.
LEMMA RefineRelease ==
    ASSUME IInv, NEW id \in SpawnIDs, ReleaseReservation(id) \/ ResolveTeardown(id)
    PROVE  Abstract!Release(id) \/ Abstract!Settle(id)
<1>1. /\ id \in DOMAIN reservations
      /\ releaseReservationLocked(id)
      /\ draining' = draining
  BY DEF ReleaseReservation, ResolveTeardown
<1>2. /\ DOMAIN reservations' = DOMAIN reservations \ {id}
      /\ \A i \in DOMAIN reservations \ {id} : reservations'[i] = reservations[i]
  BY <1>1 DEF releaseReservationLocked
<1>3. Debt' = Debt \ {id}
  BY <1>1, ReleaseEffect DEF IInv
<1>4. Slot' = Abstract!Without(id)
  BY <1>2, <1>3 DEF Slot, Abstract!Without
<1>5. \/ id \in DOMAIN reservations \ Debt
      \/ id \in Debt
  BY <1>1
<1> QED
  BY <1>1, <1>4, <1>5, SlotFacts DEF Abstract!Release, Abstract!Settle, Slot

\* Phase changes short of debt, and the JIT identity are invisible.
LEMMA RefineStutter ==
    ASSUME IInv,
           \/ \E id \in SpawnIDs : MarkOnline(id) \/ MarkAssigned(id) \/ RecordJIT(id)
           \/ UNCHANGED stateVars
    PROVE  UNCHANGED Abstract!vars
<1> DEFINE
      SameSlots ==
          /\ DOMAIN reservations' = DOMAIN reservations
          /\ \A i \in DOMAIN reservations :
                /\ reservations'[i].repo = reservations[i].repo
                /\ reservations'[i].phase = "teardown_blocked" <=>
                       reservations[i].phase = "teardown_blocked"
          /\ draining' = draining
<1>1. SameSlots
  <2>1. ASSUME NEW id \in SpawnIDs, MarkOnline(id)
        PROVE  SameSlots
    BY <2>1 DEF MarkOnline, MovePhase, IInv, MapOK, SpawnState
  <2>2. ASSUME NEW id \in SpawnIDs, MarkAssigned(id)
        PROVE  SameSlots
    BY <2>2 DEF MarkAssigned, MovePhase, IInv, MapOK, SpawnState
  <2>3. ASSUME NEW id \in SpawnIDs, RecordJIT(id)
        PROVE  SameSlots
    BY <2>3 DEF RecordJIT, IInv, MapOK, SpawnState
  <2>4. CASE UNCHANGED <<reservations, draining>>
    BY <2>4
  <2> QED
    BY <2>1, <2>2, <2>3, <2>4 DEF stateVars
<1>2. Debt' = Debt
  BY <1>1 DEF Debt
<1>3. Slot' = Slot
  BY <1>1, <1>2 DEF Slot
<1> QED
  BY <1>1, <1>3 DEF Abstract!vars, Slot

\* state.go implements the abstract ledger: whatever its counters and cached
\* flag decide, a slot is held, owed and given back as the abstract one allows.
THEOREM Refinement == StateSpec => ImplementsCapacityLedger
<1>1. StateInit => Abstract!Init
  BY DEF StateInit, Abstract!Init, Debt
<1>2. IInv /\ [StateNext]_stateVars => [Abstract!Next]_(Abstract!vars)
  <2> SUFFICES ASSUME IInv, [StateNext]_stateVars
               PROVE  Abstract!Next \/ UNCHANGED Abstract!vars
    OBVIOUS
  <2>1. ASSUME NEW id \in SpawnIDs, NEW repo \in Repos, Operation(id, repo)
        PROVE  Abstract!Next \/ UNCHANGED Abstract!vars
    <3>1. CASE TryReserve(id, repo)
      BY <3>1, RefineTryReserve DEF Abstract!Next
    <3>2. CASE MarkTeardownBlocked(id, repo)
      BY <3>2, RefineBlock DEF Abstract!Next
    <3>3. CASE ReleaseReservation(id) \/ ResolveTeardown(id)
      BY <3>3, RefineRelease DEF Abstract!Next
    <3>4. CASE MarkOnline(id) \/ MarkAssigned(id) \/ RecordJIT(id)
      BY <3>4, RefineStutter
    <3> QED
      BY <2>1, <3>1, <3>2, <3>3, <3>4 DEF Operation
  <2>2. CASE UNCHANGED stateVars
    BY <2>2, RefineStutter
  <2>3. CASE SetDraining
    <3>1. Slot' = Slot /\ draining' = TRUE
      BY <2>3 DEF SetDraining, Slot, Debt
    <3> QED
      BY <3>1 DEF Abstract!Next, Abstract!Close, Slot
  <2> QED
    BY <2>1, <2>2, <2>3 DEF StateNext
<1> QED
  BY <1>1, <1>2, InductiveInvariant, PTL
     DEF StateSpec, ImplementsCapacityLedger, Abstract!Spec

=============================================================================
