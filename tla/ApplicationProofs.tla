------------------------- MODULE ApplicationProofs -------------------------
(***************************************************************************)
(* The two applications, for every chain state and every block: the export *)
(* of an SDK chain's genesis, whose reference counts, heights and active   *)
(* set are followed through the stages of the export; and the key-value    *)
(* store, whose state is followed through executed blocks and replays and  *)
(* which implements a ledger.                                              *)
(***************************************************************************)
EXTENDS GenesisExport, KVNode, FiniteSetTheorems, SequenceTheorems, WellFoundedInduction,
        TLAPS

(***************************************************************************)
(* Induction, with the numbers that have the property as a set.            *)
(***************************************************************************)

\* A set of numbers that has 0, and with a number the next one, has all of them.
LEMMA InductionOnNat ==
  ASSUME NEW U, 0 \in U, \A n \in Nat : n \in U => n + 1 \in U
  PROVE  \A n \in Nat : n \in U
<1> SUFFICES ASSUME NEW k \in Nat, k \notin U
             PROVE  FALSE
  OBVIOUS
<1> DEFINE T == {n \in Nat : n \notin U}
           R == OpToRel(<, Nat)
<1>1. IsWellFoundedOn(R, Nat)
  BY NatLessThanWellFounded
<1>2. T \subseteq Nat /\ T # {}
  OBVIOUS
<1>3. \A i, j \in Nat : <<i, j>> \in R <=> i < j
  BY DEF OpToRel
<1> HIDE DEF T, R
<1>4. PICK m \in T : \A n \in T : ~ (<<n, m>> \in R)
  BY <1>1, <1>2, WFMin
<1>5. m \in Nat /\ m \notin U /\ m # 0 /\ m - 1 \in Nat
  BY <1>4 DEF T
<1>6. m - 1 \in T
  <2>1. m - 1 \notin U
    BY <1>5
  <2> QED
    BY <1>5, <2>1 DEF T
<1>7. <<m - 1, m>> \in R
  <2>1. m - 1 < m
    BY <1>5
  <2> QED
    BY <1>3, <1>5, <2>1, Zenon
<1> QED
  BY <1>4, <1>6, <1>7, Zenon

\* A set of numbers below n has a greatest element.
LEMMA LastExists ==
  ASSUME NEW n \in Nat, NEW S, S \subseteq 1..n, S # {}
  PROVE  \E i \in S : \A j \in S : j <= i
<1> DEFINE U == {k \in Nat : \E i \in S : k <= i}
<1> SUFFICES ASSUME \A i \in S : \E j \in S : ~(j <= i)
             PROVE  FALSE
  OBVIOUS
<1>1. 0 \in U
  <2>1. PICK i \in S : TRUE
    OBVIOUS
  <2>2. i \in Nat /\ 0 <= i
    OBVIOUS
  <2> QED
    BY <2>2
<1>2. \A k \in Nat : k \in U => k + 1 \in U
  <2> SUFFICES ASSUME NEW k \in Nat, NEW i \in S, k <= i
               PROVE  \E j \in S : k + 1 <= j
    OBVIOUS
  <2>1. PICK j \in S : ~(j <= i)
    OBVIOUS
  <2>2. i \in Nat /\ j \in Nat
    OBVIOUS
  <2> QED
    BY <2>1, <2>2
<1>3. n + 1 \in U
  <2>1. n + 1 \in Nat
    OBVIOUS
  <2> HIDE DEF U
  <2> QED
    BY <1>1, <1>2, <2>1, InductionOnNat
<1> QED
  BY <1>3

\* A set of numbers has a least element.
LEMMA FirstExists ==
  ASSUME NEW S, S \subseteq Nat, S # {}
  PROVE  \E i \in S : \A j \in S : i <= j
<1> DEFINE U == {k \in Nat : \A i \in S : k <= i}
<1> SUFFICES ASSUME \A i \in S : \E j \in S : ~(i <= j)
             PROVE  FALSE
  OBVIOUS
<1>1. 0 \in U
  OBVIOUS
<1>2. \A k \in Nat : k \in U => k + 1 \in U
  <2> SUFFICES ASSUME NEW k \in Nat, \A i \in S : k <= i, NEW i \in S
               PROVE  k + 1 <= i
    OBVIOUS
  <2>1. PICK j \in S : ~(i <= j)
    OBVIOUS
  <2>2. i \in Nat /\ j \in Nat /\ k <= j
    OBVIOUS
  <2> QED
    BY <2>1, <2>2
<1>3. \A k \in Nat : k \in U
  <2> HIDE DEF U
  <2> QED
    BY <1>1, <1>2, InductionOnNat
<1>4. PICK i \in S : TRUE
  OBVIOUS
<1>5. i + 1 \in U /\ i \in Nat
  BY <1>3
<1> QED
  BY <1>5

-----------------------------------------------------------------------------
(***************************************************************************)
(* GenesisExport: the historical rewards and their references.             *)
(***************************************************************************)

\* The export has been given up.
Aborted == {"failed", "exited", "panicked"}

\* The delegations and validators whose references are counted at this stage.
Counted ==
  CASE stage = "validators" -> {}
    [] stage = "delegations" -> Delegations \ todo
    [] OTHER -> Delegations

Settled == Validators \ (IF stage = "validators" THEN todo ELSE {})

\* How many periods there can have been: every delegation ends one at most, in each of
\* the two loops over them.
PeriodBound ==
  CASE stage = "rewards" -> 2 + Cardinality(Delegations \ todo)
    [] stage = "delegations" -> 1 + Cardinality(Delegations \ todo)
    [] stage \in {"opening", "built", "opened", "addresses", "commission"} -> 2
    [] OTHER -> 2 + Cardinality(Delegations)

\* The elements that a loop runs through.
LoopOver ==
  CASE stage \in {"commission", "validators", "jailing"} -> Validators
    [] stage \in {"rewards", "delegations"} -> Delegations
    [] stage = "redelegations" -> Redelegations
    [] stage = "unbondings" -> Unbondings
    [] OTHER -> todo

CountInv ==
  stage \notin Aborted =>
    /\ todo \subseteq LoopOver
    /\ \A v \in Settled, p \in Periods : refs[v][p] = References(v, p, Counted)
    /\ \A d \in Counted : start[d].period < period[ValidatorOf[d]]
    /\ stage = "validators" =>
         /\ \A v \in todo : refs[v] = NoReferences
         /\ \A v \in Settled : period[v] = 1
    /\ \A v \in Validators : period[v] <= PeriodBound

\* The periods that the model keeps counts for are all there are.
PeriodsSuffice == \A v \in Validators : period[v] \in Periods

\* There are finitely many delegations, and the periods are counted by them.
LEMMA ConstantsFinite ==
  /\ IsFiniteSet(Delegations) /\ Cardinality(Delegations) \in Nat
  /\ Periods = 0..(Cardinality(Delegations) + 2)
  /\ \A D \in SUBSET Delegations :
       /\ IsFiniteSet(D) /\ Cardinality(D) \in Nat
       /\ Cardinality(D) <= Cardinality(Delegations)
  BY ChainStateIsFinite, FS_CardinalityType, FS_Subset DEF Periods

\* The delegations of D that refer to period p of v.
At(v, p, D) == {d \in Of(v) \cap D : start[d].period = p}

\* References are delegations that can be counted, and one of the validator's own.
LEMMA AtIsFinite ==
  ASSUME NEW v, NEW p, NEW D \in SUBSET Delegations
  PROVE  /\ IsFiniteSet(At(v, p, D)) /\ Cardinality(At(v, p, D)) \in Nat
         /\ References(v, p, D) = Cardinality(At(v, p, D)) + (IF p = period[v] - 1 THEN 1 ELSE 0)
<1>1. At(v, p, D) \in SUBSET Delegations
  BY DEF At
<1> QED
  BY <1>1, ConstantsFinite DEF References, At

\* The end of v's period takes the validator's reference from one period to the next.
LEMMA EndPeriodCounts ==
  ASSUME ExportTypeOK, NEW v \in Validators, NEW D \in SUBSET Delegations,
         period[v] \in Periods,
         \A p \in Periods : refs[v][p] = References(v, p, D),
         \A d \in D : start[d].period < period[ValidatorOf[d]]
  PROVE  /\ EndPeriod(refs[v], v) \in [Periods -> Nat]
         /\ \A p \in Periods :
              EndPeriod(refs[v], v)[p] =
                Cardinality(At(v, p, D)) + (IF p = period[v] THEN 1 ELSE 0)
<1>1. /\ period[v] \in Nat \ {0} /\ period[v] - 1 \in Periods
      /\ refs[v] \in [Periods -> Nat] /\ \A p \in Periods : p \in Nat
  BY ConstantsFinite DEF ExportTypeOK
<1>2. At(v, period[v], D) = {} /\ Cardinality(At(v, period[v], D)) = 0
  <2>1. At(v, period[v], D) = {}
    BY <1>1 DEF At, Of, ExportTypeOK
  <2> QED
    BY <2>1, FS_EmptySet
<1>3. \A p \in Periods :
        /\ Cardinality(At(v, p, D)) \in Nat
        /\ refs[v][p] = Cardinality(At(v, p, D)) + (IF p = period[v] - 1 THEN 1 ELSE 0)
  BY AtIsFinite
<1>4. ASSUME NEW p \in Periods
      PROVE  EndPeriod(refs[v], v)[p] =
               Cardinality(At(v, p, D)) + (IF p = period[v] THEN 1 ELSE 0)
  <2>1. EndPeriod(refs[v], v)[p] =
          IF p = period[v] THEN 1 ELSE IF p = period[v] - 1 THEN refs[v][p] - 1 ELSE refs[v][p]
    BY <1>1 DEF EndPeriod
  <2> QED
    BY <1>1, <1>2, <1>3, <2>1
<1>5. EndPeriod(refs[v], v) = [p \in Periods |-> EndPeriod(refs[v], v)[p]]
  BY <1>1 DEF EndPeriod
<1> QED
  BY <1>3, <1>4, <1>5

\* Counting with one delegation more or less.
LEMMA AtWithout ==
  ASSUME NEW v, NEW p, NEW D \in SUBSET Delegations, NEW d \in D, ValidatorOf[d] = v
  PROVE  Cardinality(At(v, p, D)) =
           Cardinality(At(v, p, D \ {d})) + (IF start[d].period = p THEN 1 ELSE 0)
<1>1. At(v, p, D \ {d}) = At(v, p, D) \ {d}
  BY DEF At
<1>2. d \in At(v, p, D) <=> start[d].period = p
  BY DEF At, Of
<1>3. IsFiniteSet(At(v, p, D)) /\ Cardinality(At(v, p, D)) \in Nat
  BY AtIsFinite
<1>4. Cardinality(At(v, p, D) \ {d}) =
        IF d \in At(v, p, D) THEN Cardinality(At(v, p, D)) - 1 ELSE Cardinality(At(v, p, D))
  BY <1>3, FS_RemoveElement
<1>5. Cardinality(At(v, p, D \ {d})) = Cardinality(At(v, p, D) \ {d})
  BY <1>1, Zenon
<1> QED
  BY <1>2, <1>3, <1>4, <1>5

\* The references are those of the delegations in D and of the validators' own.
CountsOf(D) ==
  /\ \A w \in Validators, p \in Periods : refs[w][p] = References(w, p, D)
  /\ \A e \in D : start[e].period < period[ValidatorOf[e]]

\* r has the references of d's validator when its period has ended, d's left out.
EndedWithout(r, d, D) ==
  /\ r \in [Periods -> Nat]
  /\ period[ValidatorOf[d]] \in Periods
  /\ \A p \in Periods :
       r[p] = Cardinality(At(ValidatorOf[d], p, D \ {d}))
                + (IF p = period[ValidatorOf[d]] THEN 1 ELSE 0)

PeriodTypes ==
  /\ refs \in [Validators -> [Periods -> Nat]]
  /\ period \in [Validators -> Nat \ {0}]
  /\ start \in [Delegations -> [period : Nat, height : Heights]]

\* A delegation that starts again where its validator's period has ended is counted
\* there, and every other count is as it was.
LEMMA StartAgainCounts ==
  ASSUME ExportTypeOK, NEW D, D \subseteq Delegations, CountsOf(D),
         NEW d \in Delegations, NEW r, EndedWithout(r, d, D),
         StartAgain(d, r, ValidatorOf[d])
  PROVE  PeriodTypes' /\ CountsOf(D \cup {d})'
<1> DEFINE v == ValidatorOf[d]
<1>0. /\ \A w \in Validators, p \in Periods : refs[w][p] = References(w, p, D)
      /\ \A e \in D : start[e].period < period[ValidatorOf[e]]
      /\ r \in [Periods -> Nat] /\ period[v] \in Periods
      /\ \A p \in Periods : r[p] = Cardinality(At(v, p, D \ {d}))
                                     + (IF p = period[v] THEN 1 ELSE 0)
  BY DEF CountsOf, EndedWithout
<1> DEFINE q == period[v]
           New(w, p) == {e \in Of(w) \cap (D \cup {d}) : start'[e].period = p}
<1>1. /\ v \in Validators /\ q \in Nat \ {0} /\ \A p \in Periods : p \in Nat
      /\ period' = [period EXCEPT ![v] = q + 1]
      /\ start' = [start EXCEPT ![d] = [period |-> q, height |-> ctxHeight]]
      /\ refs' = [refs EXCEPT ![v] = [r EXCEPT ![q] = r[q] + 1]]
  <2>1. v \in Validators /\ q \in Nat \ {0} /\ \A p \in Periods : p \in Nat
    BY <1>0, ConstantsFinite, DelegationsHaveValidators DEF ExportTypeOK
  <2> QED
    BY <1>0, <2>1 DEF StartAgain
<1>2. [r EXCEPT ![q] = r[q] + 1] \in [Periods -> Nat]
  BY <1>0, <1>1
<1>3. /\ refs' \in [Validators -> [Periods -> Nat]]
      /\ period' \in [Validators -> Nat \ {0}]
      /\ start' \in [Delegations -> [period : Nat, height : Heights]]
  BY <1>1, <1>2 DEF ExportTypeOK
<1>4. ASSUME NEW w \in Validators, NEW p \in Periods, w # v
      PROVE  refs'[w][p] = Cardinality(New(w, p)) + (IF p = period'[w] - 1 THEN 1 ELSE 0)
  <2>1. New(w, p) = At(w, p, D)
    BY <1>1, <1>4 DEF At, Of, ExportTypeOK
  <2>2. refs'[w] = refs[w] /\ period'[w] = period[w]
    BY <1>1, <1>4 DEF ExportTypeOK
  <2>3. refs[w][p] = Cardinality(At(w, p, D)) + (IF p = period[w] - 1 THEN 1 ELSE 0)
    BY <1>0, AtIsFinite
  <2> QED
    BY <2>1, <2>2, <2>3
<1>5. ASSUME NEW p \in Periods
      PROVE  refs'[v][p] = Cardinality(New(v, p)) + (IF p = period'[v] - 1 THEN 1 ELSE 0)
  <2>1. period'[v] - 1 = q /\ start'[d].period = q
        /\ \A e \in D \ {d} : start'[e] = start[e]
    BY <1>1 DEF ExportTypeOK
  <2>2. New(v, p) = IF p = q THEN At(v, p, D \ {d}) \cup {d} ELSE At(v, p, D \ {d})
    BY <2>1 DEF At, Of
  <2>3. d \notin At(v, p, D \ {d})
    BY DEF At
  <2>4. IsFiniteSet(At(v, p, D \ {d})) /\ Cardinality(At(v, p, D \ {d})) \in Nat
    BY AtIsFinite
  <2>5. Cardinality(New(v, p)) = Cardinality(At(v, p, D \ {d})) + (IF p = q THEN 1 ELSE 0)
    <3>1. Cardinality(At(v, p, D \ {d}) \cup {d}) = Cardinality(At(v, p, D \ {d})) + 1
      BY <2>3, <2>4, FS_AddElement
    <3> HIDE DEF New
    <3> QED
      BY <2>2, <2>4, <3>1
  <2>6. refs'[v][p] = r[p] + (IF p = q THEN 1 ELSE 0)
    BY <1>0, <1>1 DEF ExportTypeOK
  <2> QED
    BY <1>0, <2>1, <2>4, <2>5, <2>6
<1>6. ASSUME NEW e \in D \cup {d}
      PROVE  start'[e].period < period'[ValidatorOf[e]]
  <2>1. CASE e = d
    BY <1>0, <1>1, <2>1 DEF ExportTypeOK
  <2>2. CASE e # d
    <3>1. /\ start'[e] = start[e] /\ start[e].period \in Nat
          /\ start[e].period < period[ValidatorOf[e]]
      BY <1>0, <1>1, <2>2 DEF ExportTypeOK
    <3>2. /\ ValidatorOf[e] \in Validators /\ period[ValidatorOf[e]] \in Nat
          /\ period'[ValidatorOf[e]] = period[ValidatorOf[e]]
             \/ period'[ValidatorOf[e]] = period[ValidatorOf[e]] + 1
      BY <1>1, DelegationsHaveValidators DEF ExportTypeOK
    <3> QED
      BY <3>1, <3>2
  <2> QED
    BY <2>1, <2>2
<1>7. \A w \in Validators, p \in Periods :
        refs'[w][p] = Cardinality(New(w, p)) + (IF p = period'[w] - 1 THEN 1 ELSE 0)
  <2> HIDE DEF New
  <2> QED
    BY <1>4, <1>5
<1>8. \A w \in Validators, p \in Periods : refs'[w][p] = References(w, p, D \cup {d})'
  BY <1>7 DEF References
<1> QED
  BY <1>3, <1>6, <1>8 DEF CountsOf, PeriodTypes

\* While the export goes on there are no more periods than are kept count of.
LEMMA PeriodBoundType ==
  CountInv /\ ExportTypeOK /\ stage \notin Aborted => PeriodsSuffice
<1> SUFFICES ASSUME CountInv, ExportTypeOK, stage \notin Aborted, NEW v \in Validators
             PROVE  period[v] \in Periods
  BY DEF PeriodsSuffice
<1>1. Delegations \ todo \in SUBSET Delegations
  OBVIOUS
<1>2. PeriodBound <= 2 + Cardinality(Delegations) /\ PeriodBound \in Nat
  BY <1>1, ConstantsFinite DEF PeriodBound
<1> QED
  BY <1>2, ConstantsFinite DEF CountInv, ExportTypeOK

\* A step that leaves counts, periods and delegations alone.
LEMMA CountsStay ==
  ASSUME ExportTypeOK, CountInv, UNCHANGED <<refs, period, start>>,
         stage' \notin Aborted =>
           /\ stage \notin Aborted
           /\ todo' \subseteq LoopOver'
           /\ Counted' = Counted /\ Settled' = Settled
           /\ stage' = "validators" => stage = "validators" /\ todo' = todo
           /\ \A v \in Validators : period[v] <= PeriodBound => period[v] <= PeriodBound'
  PROVE  CountInv'
<1> SUFFICES ASSUME stage' \notin Aborted
             PROVE  (/\ todo \subseteq LoopOver
                     /\ \A v \in Settled, p \in Periods : refs[v][p] = References(v, p, Counted)
                     /\ \A d \in Counted : start[d].period < period[ValidatorOf[d]]
                     /\ stage = "validators" =>
                          /\ \A v \in todo : refs[v] = NoReferences
                          /\ \A v \in Settled : period[v] = 1
                     /\ \A v \in Validators : period[v] <= PeriodBound)'
  BY DEF CountInv
<1>1. \A v, p : References(v, p, Counted)' = References(v, p, Counted)
  BY DEF References
<1> QED
  BY <1>1 DEF CountInv

\* The steps that open an export, end it, or go from one loop to the next.
LEMMA StagesKeepCounts ==
  ASSUME ExportTypeOK, CountInv,
         \/ NewMiniApp \/ Open \/ Fail \/ Begin \/ WriteGenesis
         \/ AddressesAreValid \/ BadAddress \/ LoopEnds \/ DelegationsReinitialised
         \/ CloseFails \/ UpdateValidators \/ UpdateFails \/ StoreFails \/ Over
         \/ UNCHANGED exportVars
  PROVE  CountInv' /\ UNCHANGED <<refs, period, start>>
<1>1. UNCHANGED <<refs, period, start>>
  BY DEF NewMiniApp, Open, Fail, Begin, WriteGenesis, AddressesAreValid, BadAddress,
     LoopEnds, DelegationsReinitialised, CloseFails, UpdateValidators, UpdateFails,
     StoreFails, Over, Go, exportVars, periods
<1>2. /\ Delegations \ Delegations = {} /\ Delegations \ {} = Delegations
      /\ Validators \ {} = Validators /\ Cardinality({}) = 0
      /\ Cardinality(Delegations) \in Nat
      /\ \A v \in Validators : period[v] \in Nat
  BY FS_EmptySet, ConstantsFinite DEF ExportTypeOK
<1> USE <1>1, <1>2, CountsStay DEF LoopOver, Counted, Settled, PeriodBound, Aborted
<1>3. CASE NewMiniApp \/ Open \/ Fail \/ WriteGenesis \/ BadAddress
  BY <1>3 DEF NewMiniApp, Open, Fail, WriteGenesis, BadAddress, Go
<1>4. CASE UpdateValidators \/ UpdateFails \/ StoreFails
  BY <1>4 DEF UpdateValidators, UpdateFails, StoreFails, Go
<1>5. CASE Over \/ UNCHANGED exportVars
  <2>1. stage' = stage /\ todo' = todo
    BY <1>5 DEF Over, exportVars
  <2>2. Counted' = Counted /\ Settled' = Settled /\ LoopOver' = LoopOver
        /\ PeriodBound' = PeriodBound
    BY <2>1
  <2>3. todo' \subseteq LoopOver' \/ stage \in Aborted
    BY <2>1, <2>2 DEF CountInv
  <2> QED
    BY <2>1, <2>2, <2>3
<1>6. CASE Begin
  BY <1>6 DEF Begin
<1>7. CASE AddressesAreValid
  BY <1>7 DEF AddressesAreValid, NextLoop
<1>8. CASE LoopEnds
  <2>1. CASE NextLoop("validators", "delegations", Delegations)
    <3>1. \A v \in Validators : period[v] <= 1
      BY <2>1 DEF CountInv, NextLoop
    <3> QED
      BY <2>1, <3>1 DEF NextLoop
  <2>2. CASE ~NextLoop("validators", "delegations", Delegations)
    BY <1>8, <2>2 DEF LoopEnds, NextLoop
  <2> QED
    BY <2>1, <2>2
<1>9. CASE DelegationsReinitialised \/ CloseFails
  BY <1>9 DEF DelegationsReinitialised, CloseFails, NextLoop
<1> QED
  BY <1>3, <1>4, <1>5, <1>6, <1>7, <1>8, <1>9

\* The turns of the loops that have nothing to do with rewards.
LEMMA TurnsKeepCounts ==
  ASSUME ExportTypeOK, CountInv,
         \/ \E v \in Validators : WithdrawCommission(v) \/ ResetValidator(v)
         \/ \E r \in Redelegations : ResetCreation("redelegations", r)
         \/ \E u \in Unbondings : ResetCreation("unbondings", u)
  PROVE  CountInv' /\ UNCHANGED <<refs, period, start>>
<1>1. UNCHANGED <<refs, period, start>>
  BY DEF WithdrawCommission, ResetValidator, ResetCreation, periods
<1>2. /\ stage' = stage /\ todo' \subseteq todo
      /\ stage \in {"commission", "jailing", "redelegations", "unbondings"}
  BY DEF WithdrawCommission, ResetValidator, ResetCreation, Turn
<1>3. Counted' = Counted /\ Settled' = Settled
  BY <1>2 DEF Counted, Settled
<1>4. PeriodBound' = PeriodBound
  BY <1>2 DEF PeriodBound
<1>5. todo' \subseteq LoopOver'
  BY <1>2 DEF LoopOver, CountInv, Aborted
<1>6. stage \notin Aborted /\ stage # "validators"
  BY <1>2 DEF Aborted
<1>7. /\ stage \notin Aborted /\ (stage' = "validators" => stage = "validators" /\ todo' = todo)
      /\ \A v \in Validators : period[v] <= PeriodBound => period[v] <= PeriodBound'
  BY <1>2, <1>4, <1>6
<1>8. CountInv'
  BY <1>1, <1>3, <1>5, <1>7, CountsStay
<1> QED
  BY <1>1, <1>8

\* A turn of a loop over the delegations.
LEMMA OneMoreDelegation ==
  ASSUME NEW d \in Delegations, NEW T, d \in T
  PROVE  /\ Delegations \ (T \ {d}) = (Delegations \ T) \cup {d}
         /\ Cardinality(Delegations \ (T \ {d})) = Cardinality(Delegations \ T) + 1
         /\ Cardinality(Delegations \ T) \in Nat
<1>1. Delegations \ (T \ {d}) = (Delegations \ T) \cup {d}
  OBVIOUS
<1>2. IsFiniteSet(Delegations \ T) /\ Cardinality(Delegations \ T) \in Nat
  <2>1. Delegations \ T \in SUBSET Delegations
    OBVIOUS
  <2> QED
    BY <2>1, ConstantsFinite
<1>3. Cardinality((Delegations \ T) \cup {d}) = Cardinality(Delegations \ T) + 1
  <2>1. d \notin Delegations \ T
    OBVIOUS
  <2> QED
    BY <1>2, <2>1, FS_AddElement
<1>4. Cardinality(Delegations \ (T \ {d})) = Cardinality((Delegations \ T) \cup {d})
  BY <1>1, Zenon
<1> QED
  BY <1>1, <1>2, <1>3, <1>4

\* Rewards are withdrawn: the delegation gives its reference back and starts again.
LEMMA WithdrawRewardsCounts ==
  ASSUME ExportTypeOK, CountInv, NEW d \in Delegations, WithdrawRewards(d)
  PROVE  CountInv' /\ PeriodTypes'
<1> DEFINE v == ValidatorOf[d]
           ended == EndPeriod(refs[v], v)
           r == [ended EXCEPT ![start[d].period] = @ - 1]
<1>1. /\ stage = "rewards" /\ stage' = "rewards" /\ d \in todo /\ todo' = todo \ {d}
      /\ StartAgain(d, r, v) /\ v \in Validators
  BY DelegationsHaveValidators DEF WithdrawRewards, Turn
<1>2. /\ Counted = Delegations /\ Counted' = Delegations
      /\ Settled = Validators /\ Settled' = Validators
      /\ LoopOver = Delegations /\ LoopOver' = Delegations /\ stage \notin Aborted
      /\ PeriodBound = 2 + Cardinality(Delegations \ todo)
      /\ PeriodBound' = 2 + Cardinality(Delegations \ todo')
  BY <1>1 DEF Counted, Settled, LoopOver, PeriodBound, Aborted
<1>3. /\ todo \subseteq Delegations
      /\ \A w \in Validators, p \in Periods : refs[w][p] = References(w, p, Delegations)
      /\ \A e \in Delegations : start[e].period < period[ValidatorOf[e]]
      /\ \A w \in Validators : period[w] <= 2 + Cardinality(Delegations \ todo)
      /\ period[v] \in Periods
  BY <1>1, <1>2, PeriodBoundType DEF CountInv, PeriodsSuffice
<1>4. /\ ended \in [Periods -> Nat]
      /\ \A p \in Periods : ended[p] = Cardinality(At(v, p, Delegations))
                                         + (IF p = period[v] THEN 1 ELSE 0)
  BY <1>1, <1>3, EndPeriodCounts
<1>5. \A p \in Periods :
        /\ Cardinality(At(v, p, Delegations)) =
             Cardinality(At(v, p, Delegations \ {d})) + (IF start[d].period = p THEN 1 ELSE 0)
        /\ Cardinality(At(v, p, Delegations \ {d})) \in Nat
  BY AtWithout, AtIsFinite
<1>6. /\ start[d].period \in Periods /\ start[d].period # period[v]
      /\ \A p \in Periods : p \in Nat
  BY <1>1, <1>3, ConstantsFinite DEF ExportTypeOK
<1>7. /\ r \in [Periods -> Nat]
      /\ \A p \in Periods : r[p] = Cardinality(At(v, p, Delegations \ {d}))
                                     + (IF p = period[v] THEN 1 ELSE 0)
  <2> HIDE DEF ended
  <2>1. \A p \in Periods : r[p] = IF p = start[d].period THEN ended[p] - 1 ELSE ended[p]
    BY <1>4, <1>6
  <2>2. ASSUME NEW p \in Periods
        PROVE  r[p] = Cardinality(At(v, p, Delegations \ {d}))
                        + (IF p = period[v] THEN 1 ELSE 0)
    <3> DEFINE a == Cardinality(At(v, p, Delegations))
               b == Cardinality(At(v, p, Delegations \ {d}))
    <3>1. /\ r[p] = IF p = start[d].period THEN ended[p] - 1 ELSE ended[p]
          /\ ended[p] = a + (IF p = period[v] THEN 1 ELSE 0)
          /\ a = b + (IF start[d].period = p THEN 1 ELSE 0)
          /\ b \in Nat
      BY <1>4, <1>5, <2>1
    <3> HIDE DEF a, b, r
    <3>2. r[p] = b + (IF p = period[v] THEN 1 ELSE 0)
      <4>1. CASE p = start[d].period
        BY <1>6, <3>1, <4>1
      <4>2. CASE p # start[d].period
        BY <3>1, <4>2
      <4> QED
        BY <4>1, <4>2
    <3> QED
      BY <3>2 DEF b
  <2>3. \A p \in Periods : r[p] \in Nat
    BY <1>5, <2>2
  <2>4. r = [p \in Periods |-> r[p]]
    BY <1>4
  <2> QED
    BY <2>2, <2>3, <2>4
<1> HIDE DEF r
<1>8. PeriodTypes' /\ CountsOf(Delegations \cup {d})'
  <2>1. CountsOf(Delegations)
    BY <1>3 DEF CountsOf
  <2>2. EndedWithout(r, d, Delegations)
    BY <1>3, <1>7 DEF EndedWithout
  <2> QED
    BY <1>1, <2>1, <2>2, StartAgainCounts
<1>9. CountsOf(Delegations)'
  <2>1. Delegations \cup {d} = Delegations
    OBVIOUS
  <2> QED
    BY <1>8, <2>1
<1>10. /\ \A w \in Settled', p \in Periods : refs'[w][p] = References(w, p, Counted)'
       /\ \A e \in Counted' : start'[e].period < period'[ValidatorOf[e]]
  BY <1>2, <1>9 DEF CountsOf
<1>11. \A w \in Validators : period'[w] <= PeriodBound'
  <2>1. Cardinality(Delegations \ todo') = Cardinality(Delegations \ todo) + 1
        /\ Cardinality(Delegations \ todo) \in Nat
    BY <1>1, OneMoreDelegation
  <2>2. \A w \in Validators :
          period[w] \in Nat /\ (period'[w] = period[w] \/ period'[w] = period[w] + 1)
    BY <1>1 DEF StartAgain, ExportTypeOK
  <2>3. PeriodBound' = PeriodBound + 1 /\ PeriodBound \in Nat
    BY <1>2, <2>1
  <2>4. \A w \in Validators : period[w] <= PeriodBound
    BY <1>2, <1>3
  <2> QED
    BY <2>2, <2>3, <2>4
<1> QED
  BY <1>1, <1>2, <1>3, <1>8, <1>10, <1>11 DEF CountInv

\* A delegation is initialised again: it starts where its validator's period ends.
LEMMA ReinitDelegationCounts ==
  ASSUME ExportTypeOK, CountInv, NEW d \in Delegations, ReinitDelegation(d)
  PROVE  CountInv' /\ PeriodTypes'
<1> SUFFICES ASSUME NEW T, T = todo
             PROVE  CountInv' /\ PeriodTypes'
  OBVIOUS
<1> DEFINE v == ValidatorOf[d]
           D == Delegations \ T
           r == EndPeriod(refs[v], v)
<1>1. /\ stage = "delegations" /\ stage' = "delegations" /\ d \in todo /\ todo' = todo \ {d}
      /\ StartAgain(d, r, v) /\ v \in Validators
  BY DelegationsHaveValidators DEF ReinitDelegation, Turn
<1>2. /\ Counted = D /\ Counted' = Delegations \ todo'
      /\ Settled = Validators /\ Settled' = Validators
      /\ LoopOver = Delegations /\ LoopOver' = Delegations /\ stage \notin Aborted
      /\ PeriodBound = 1 + Cardinality(D)
      /\ PeriodBound' = 1 + Cardinality(Delegations \ todo')
  BY <1>1 DEF Counted, Settled, LoopOver, PeriodBound, Aborted
<1>3. /\ todo \subseteq Delegations
      /\ \A w \in Validators, p \in Periods : refs[w][p] = References(w, p, D)
      /\ \A e \in D : start[e].period < period[ValidatorOf[e]]
      /\ \A w \in Validators : period[w] <= 1 + Cardinality(D)
      /\ period[v] \in Periods
  BY <1>1, <1>2, PeriodBoundType DEF CountInv, PeriodsSuffice
<1>4. D \in SUBSET Delegations /\ D \ {d} = D /\ D \cup {d} = Delegations \ todo'
  BY <1>1
<1>5. /\ Cardinality(Delegations \ todo') = Cardinality(D) + 1
      /\ Cardinality(D) \in Nat
  BY <1>1, OneMoreDelegation
<1> HIDE DEF D
<1>6. /\ r \in [Periods -> Nat]
      /\ \A p \in Periods : r[p] = Cardinality(At(v, p, D))
                                     + (IF p = period[v] THEN 1 ELSE 0)
  BY <1>1, <1>3, <1>4, EndPeriodCounts
<1> HIDE DEF r
<1>7. EndedWithout(r, d, D)
  BY <1>3, <1>4, <1>6 DEF EndedWithout
<1>8. PeriodTypes' /\ CountsOf(D \cup {d})'
  <2>1. CountsOf(D)
    BY <1>3 DEF CountsOf
  <2> QED
    BY <1>1, <1>4, <1>7, <2>1, StartAgainCounts
<1>9. /\ \A w \in Settled', p \in Periods : refs'[w][p] = References(w, p, Counted)'
      /\ \A e \in Counted' : start'[e].period < period'[ValidatorOf[e]]
  <2>1. Counted' = D \cup {d}
    BY <1>2, <1>4
  <2> QED
    BY <1>2, <1>8, <2>1 DEF CountsOf, References
<1>10. \A w \in Validators : period'[w] <= PeriodBound'
  <2>1. \A w \in Validators :
          period[w] \in Nat /\ (period'[w] = period[w] \/ period'[w] = period[w] + 1)
    BY <1>1 DEF StartAgain, ExportTypeOK
  <2> QED
    BY <1>2, <1>3, <1>5, <2>1
<1> QED
  BY <1>1, <1>2, <1>3, <1>8, <1>9, <1>10 DEF CountInv

\* Rewards cannot be withdrawn, before or after the validator's period has been ended.
LEMMA RewardsFailCounts ==
  ASSUME ExportTypeOK, CountInv, NEW d \in Delegations, RewardsFail(d)
  PROVE  CountInv' /\ PeriodTypes'
<1> DEFINE v == ValidatorOf[d]
<1>1. /\ stage = "rewards" /\ stage' = "rewards" /\ d \in todo /\ todo' = todo \ {d}
      /\ start' = start /\ v \in Validators
  BY DelegationsHaveValidators DEF RewardsFail, Turn
<1>2. /\ Counted = Delegations /\ Counted' = Delegations
      /\ Settled = Validators /\ Settled' = Validators
      /\ LoopOver = Delegations /\ LoopOver' = Delegations /\ stage \notin Aborted
      /\ PeriodBound = 2 + Cardinality(Delegations \ todo)
      /\ PeriodBound' = 2 + Cardinality(Delegations \ todo')
  BY <1>1 DEF Counted, Settled, LoopOver, PeriodBound, Aborted
<1>3. /\ todo \subseteq Delegations /\ CountsOf(Delegations)
      /\ \A w \in Validators : period[w] <= PeriodBound
      /\ period[v] \in Periods
  BY <1>1, <1>2, PeriodBoundType DEF CountInv, CountsOf, PeriodsSuffice
<1>4. PeriodBound' = PeriodBound + 1 /\ PeriodBound \in Nat
  BY <1>1, <1>2, OneMoreDelegation
<1>5. CASE UNCHANGED <<refs, period>>
  <2>1. \A w \in Validators : period'[w] <= PeriodBound'
    BY <1>3, <1>4, <1>5 DEF ExportTypeOK
  <2>2. CountsOf(Delegations)'
    BY <1>1, <1>3, <1>5 DEF CountsOf, References
  <2>3. PeriodTypes'
    BY <1>1, <1>5 DEF PeriodTypes, ExportTypeOK
  <2> QED
    BY <1>1, <1>2, <1>3, <2>1, <2>2, <2>3 DEF CountInv, CountsOf
<1>6. CASE /\ refs' = [refs EXCEPT ![v] = EndPeriod(refs[v], v)]
           /\ period' = [period EXCEPT ![v] = period[v] + 1]
  <2>1. /\ EndPeriod(refs[v], v) \in [Periods -> Nat]
        /\ \A p \in Periods :
             EndPeriod(refs[v], v)[p] =
               Cardinality(At(v, p, Delegations)) + (IF p = period[v] THEN 1 ELSE 0)
    <3>1. Delegations \in SUBSET Delegations
      OBVIOUS
    <3> QED
      BY <1>1, <1>3, <3>1, EndPeriodCounts DEF CountsOf
  <2>2. PeriodTypes'
    BY <1>1, <1>6, <2>1 DEF PeriodTypes, ExportTypeOK
  <2>3. ASSUME NEW w \in Validators, NEW p \in Periods
        PROVE  refs'[w][p] = References(w, p, Delegations)'
    <3>1. References(w, p, Delegations)' =
            Cardinality(At(w, p, Delegations)) + (IF p = period'[w] - 1 THEN 1 ELSE 0)
      BY <1>1 DEF References, At
    <3>2. CASE w = v
      <4>1. period'[v] - 1 = period[v] /\ refs'[v] = EndPeriod(refs[v], v)
        BY <1>1, <1>6 DEF ExportTypeOK
      <4> QED
        BY <2>1, <3>1, <3>2, <4>1
    <3>3. CASE w # v
      <4>1. period'[w] = period[w] /\ refs'[w] = refs[w]
        BY <1>6, <3>3 DEF ExportTypeOK
      <4>2. refs[w][p] = References(w, p, Delegations)
        BY <1>3 DEF CountsOf
      <4> QED
        BY <3>1, <4>1, <4>2 DEF References, At
    <3> QED
      BY <3>2, <3>3
  <2>4. \A w \in Validators :
          /\ period[w] \in Nat /\ period'[w] \in Nat /\ period[w] <= period'[w]
          /\ period'[w] <= period[w] + 1
    BY <1>6 DEF ExportTypeOK
  <2>5. \A w \in Validators : period'[w] <= PeriodBound'
    BY <1>3, <1>4, <2>4
  <2>6. \A e \in Delegations : start'[e].period < period'[ValidatorOf[e]]
    <3>1. \A e \in Delegations :
            ValidatorOf[e] \in Validators /\ start[e].period \in Nat
            /\ start[e].period < period[ValidatorOf[e]]
      BY <1>3, DelegationsHaveValidators DEF CountsOf, ExportTypeOK
    <3> QED
      BY <1>1, <2>4, <3>1
  <2> QED
    BY <1>1, <1>2, <1>3, <2>2, <2>3, <2>5, <2>6 DEF CountInv
<1> QED
  BY <1>1, <1>5, <1>6 DEF RewardsFail

\* The historical rewards are deleted: nothing refers to a period any more.
LEMMA RewardsWithdrawnCounts ==
  ASSUME ExportTypeOK, CountInv, RewardsWithdrawn
  PROVE  CountInv' /\ PeriodTypes'
<1>1. /\ stage = "rewards" /\ stage' = "validators" /\ todo = {} /\ todo' = Validators
      /\ refs' = ClearedHistory /\ period' = period /\ start' = start
  BY DEF RewardsWithdrawn, NextLoop
<1>2. PeriodTypes'
  <2>1. ClearedHistory \in [Validators -> [Periods -> Nat]]
    BY DEF ClearedHistory, NoReferences
  <2> QED
    BY <1>1, <2>1 DEF PeriodTypes, ExportTypeOK
<1>3. Counted' = {} /\ Settled' = {} /\ LoopOver' = Validators /\ stage \notin Aborted
  BY <1>1 DEF Counted, Settled, LoopOver, Aborted
<1>4. PeriodBound' = PeriodBound
  <2>1. Delegations \ todo = Delegations
    BY <1>1
  <2> QED
    BY <1>1, <2>1 DEF PeriodBound
<1>5. \A v \in Validators : period'[v] <= PeriodBound'
  BY <1>1, <1>3, <1>4 DEF CountInv
<1>6. \A v \in todo' : refs'[v] = NoReferences
  BY <1>1 DEF ClearedHistory
<1> QED
  BY <1>1, <1>2, <1>3, <1>5, <1>6 DEF CountInv

\* A validator is initialised again: it refers to period 0 itself, and nobody else does.
LEMMA ReinitValidatorCounts ==
  ASSUME ExportTypeOK, CountInv, NEW v \in Validators, ReinitValidator(v)
  PROVE  CountInv' /\ PeriodTypes'
<1>1. /\ stage = "validators" /\ stage' = "validators" /\ v \in todo /\ todo' = todo \ {v}
      /\ refs' = [refs EXCEPT ![v] = [refs[v] EXCEPT ![0] = 1]]
      /\ period' = [period EXCEPT ![v] = 1] /\ start' = start
  BY DEF ReinitValidator, Turn
<1>2. PeriodTypes'
  <2>1. [refs[v] EXCEPT ![0] = 1] \in [Periods -> Nat]
    BY DEF ExportTypeOK
  <2> QED
    BY <1>1, <2>1 DEF PeriodTypes, ExportTypeOK
<1>3. /\ Counted = {} /\ Counted' = {} /\ stage \notin Aborted
      /\ Settled = Validators \ todo /\ Settled' = Validators \ todo'
      /\ LoopOver = Validators /\ LoopOver' = Validators
      /\ PeriodBound = 2 + Cardinality(Delegations) /\ PeriodBound' = PeriodBound
  BY <1>1 DEF Counted, Settled, LoopOver, PeriodBound, Aborted
<1>4. \A w \in Validators : period'[w] <= PeriodBound'
  BY <1>1, <1>3, ConstantsFinite DEF CountInv, ExportTypeOK
<1>5. \A w \in todo' : refs'[w] = NoReferences
  BY <1>1, <1>3 DEF CountInv, ExportTypeOK
<1>6. \A w \in Settled' : period'[w] = 1
  BY <1>1, <1>3 DEF CountInv, ExportTypeOK
<1>7. ASSUME NEW w \in Settled', NEW p \in Periods
      PROVE  refs'[w][p] = References(w, p, {})'
  <2>1. \A x \in Validators : References(x, p, {}) = (IF p = period[x] - 1 THEN 1 ELSE 0)
        /\ References(x, p, {})' = (IF p = period'[x] - 1 THEN 1 ELSE 0)
    <3>1. Cardinality({}) = 0
      BY FS_EmptySet
    <3>2. \A x \in Validators : {e \in Of(x) \cap {} : start[e].period = p} = {}
                                /\ {e \in Of(x) \cap {} : start'[e].period = p} = {}
      OBVIOUS
    <3> QED
      BY <3>1, <3>2 DEF References
  <2>2. w \in Validators /\ period'[w] = 1
    BY <1>3, <1>6
  <2>3. CASE w = v
    <3>1. refs[v] = NoReferences /\ p \in Nat
      BY <1>1, <1>3, ConstantsFinite DEF CountInv
    <3>2. refs'[v][p] = IF p = 0 THEN 1 ELSE 0
      BY <1>1, <3>1 DEF ExportTypeOK, NoReferences
    <3> QED
      BY <2>1, <2>2, <2>3, <3>1, <3>2
  <2>4. CASE w # v
    <3>1. w \in Settled /\ refs'[w] = refs[w] /\ period[w] = 1
      BY <1>1, <1>3, <2>2, <2>4 DEF CountInv, ExportTypeOK
    <3>2. refs[w][p] = References(w, p, {})
      BY <1>3, <3>1 DEF CountInv
    <3> QED
      BY <2>1, <2>2, <3>1, <3>2
  <2> QED
    BY <2>3, <2>4
<1> QED
  BY <1>1, <1>2, <1>3, <1>4, <1>5, <1>6, <1>7 DEF CountInv

\* The counts are right from the start.
LEMMA CountsAtFirst == ExportInit => CountInv /\ PeriodTypes
<1> SUFFICES ASSUME ExportInit
             PROVE  CountInv /\ PeriodTypes
  OBVIOUS
<1>1. /\ stage = "opening" /\ todo = {}
      /\ period = [v \in Validators |-> 2]
      /\ start = [d \in Delegations |-> [period |-> StartedAt[d], height |-> LastHeight]]
      /\ refs = [v \in Validators |-> [p \in Periods |-> References(v, p, Delegations)]]
      /\ \A d \in Delegations : ValidatorOf[d] \in Validators
      /\ \A d \in Delegations : StartedAt[d] \in {0, 1}
  BY DelegationsHaveValidators, StartedAtPeriods DEF ExportInit
<1>2. \A v, p : References(v, p, Delegations) \in Nat
  <2>1. Delegations \in SUBSET Delegations
    OBVIOUS
  <2> QED
    BY <2>1, AtIsFinite
<1>3. PeriodTypes
  BY <1>1, <1>2, HeightAndCoins DEF PeriodTypes, Heights
<1>4. CountInv
  BY <1>1 DEF CountInv, Counted, Settled, PeriodBound, LoopOver
<1> QED
  BY <1>3, <1>4

\* What is paid and what becomes of the rest comes out of a validator's rewards.
LEMMA PayTypes ==
  ASSUME ExportTypeOK, NEW v \in Validators, NEW c \in Nat, NEW dust \in Nat,
         c + dust <= outstanding[v], Pay(v, c, dust)
  PROVE  outstanding' \in [Validators -> Nat] /\ pool' \in Nat /\ paid' \in Nat
<1>1. outstanding[v] \in Nat /\ outstanding[v] - c - dust \in Nat
  BY DEF ExportTypeOK
<1> QED
  BY <1>1 DEF ExportTypeOK, Pay

\* Every step of the export keeps the types of the variables.
LEMMA ExportTypeStep ==
  ASSUME ExportTypeOK, [ExportNext]_exportVars, PeriodTypes'
  PROVE  ExportTypeOK'
<1>0. 0 \in Heights /\ LastHeight \in Heights /\ LastHeight \in Nat
      /\ LastHeight + 1 \in 0..(LastHeight + 1) /\ 0 \in 0..(LastHeight + 1)
  BY HeightAndCoins DEF Heights
<1> USE DEF ExportTypeOK, PeriodTypes
<1>1. CASE NewMiniApp \/ Open \/ Fail \/ WriteGenesis \/ BadAddress
  BY <1>1 DEF NewMiniApp, Open, Fail, WriteGenesis, BadAddress, Go, Stages, Ended,
     params, coins, staking
<1>2. CASE UpdateValidators \/ UpdateFails \/ StoreFails
  BY <1>2 DEF UpdateValidators, UpdateFails, StoreFails, Go, Stages, Ended,
     params, coins, staking
<1>3. CASE Over \/ UNCHANGED exportVars
  BY <1>3 DEF Over, exportVars, params, coins, staking
<1>4. CASE Begin
  BY <1>0, <1>4 DEF Begin, Stages, Preparing, params, coins, staking
<1>5. CASE AddressesAreValid \/ LoopEnds \/ CloseFails
  BY <1>5 DEF AddressesAreValid, LoopEnds, CloseFails, NextLoop, Stages, Preparing,
     params, coins, staking
<1>6. CASE RewardsWithdrawn \/ DelegationsReinitialised
  BY <1>0, <1>6 DEF RewardsWithdrawn, DelegationsReinitialised, NextLoop, Stages, Preparing,
     InitialHeight, params, coins, staking
<1>7. ASSUME NEW v \in Validators, WithdrawCommission(v)
      PROVE  ExportTypeOK'
  <2>1. outstanding' \in [Validators -> Nat] /\ pool' \in Nat /\ paid' \in Nat
    <3>1. PICK c \in 0..outstanding[v] : Pay(v, c, 0)
      BY <1>7 DEF WithdrawCommission
    <3>2. outstanding[v] \in Nat /\ c \in Nat /\ 0 \in Nat /\ c + 0 <= outstanding[v]
      BY <3>1
    <3> HIDE DEF ExportTypeOK
    <3> QED
      BY <3>1, <3>2, PayTypes
  <2> QED
    BY <1>7, <2>1 DEF WithdrawCommission, Turn, params, staking
<1>8. ASSUME NEW d \in Delegations, WithdrawRewards(d)
      PROVE  ExportTypeOK'
  <2>1. outstanding' \in [Validators -> Nat] /\ pool' \in Nat /\ paid' \in Nat
    <3>1. ValidatorOf[d] \in Validators /\ outstanding[ValidatorOf[d]] \in Nat
      BY DelegationsHaveValidators
    <3>2. PICK c \in 0..outstanding[ValidatorOf[d]] :
            \E dust \in 0..(outstanding[ValidatorOf[d]] - c) : Pay(ValidatorOf[d], c, dust)
      BY <1>8 DEF WithdrawRewards
    <3>3. PICK dust \in 0..(outstanding[ValidatorOf[d]] - c) : Pay(ValidatorOf[d], c, dust)
      BY <3>2
    <3>4. c \in Nat /\ dust \in Nat /\ c + dust <= outstanding[ValidatorOf[d]]
      BY <3>1, <3>2, <3>3
    <3> HIDE DEF ExportTypeOK
    <3> QED
      BY <3>1, <3>3, <3>4, PayTypes
  <2> QED
    BY <1>8, <2>1 DEF WithdrawRewards, Turn, params, staking
<1>9. ASSUME NEW d \in Delegations, RewardsFail(d) \/ ReinitDelegation(d)
      PROVE  ExportTypeOK'
  BY <1>9 DEF RewardsFail, ReinitDelegation, Turn, params, coins, staking
<1>10. ASSUME NEW v \in Validators, ReinitValidator(v)
       PROVE  ExportTypeOK'
  BY <1>10 DEF ReinitValidator, Turn, Scraps, params, staking
<1>11. ASSUME NEW v \in Validators, ResetValidator(v)
       PROVE  ExportTypeOK'
  BY <1>0, <1>11 DEF ResetValidator, Turn, params, coins
<1>12. ASSUME NEW x \in Redelegations \cup Unbondings, NEW s, ResetCreation(s, x)
       PROVE  ExportTypeOK'
  <2>1. ResetEntries(created[x]) \in Seq(Heights)
    <3>1. created[x] \in Seq(Heights)
      OBVIOUS
    <3>2. Len(created[x]) \in Nat /\ DOMAIN created[x] = 1..Len(created[x])
      BY <3>1, LenProperties
    <3> QED
      BY <1>0, <3>2, IsASeq DEF ResetEntries
  <2> QED
    BY <1>12, <2>1 DEF ResetCreation, Turn, params, coins
<1> QED
  BY <1>1, <1>2, <1>3, <1>4, <1>5, <1>6, <1>7, <1>8, <1>9, <1>10, <1>11, <1>12
  DEF ExportNext

\* The invariant of an export: types, counts, and as many periods as are kept count of.
ExportInv == ExportTypeOK /\ CountInv /\ PeriodsSuffice

\* The invariant holds at first.
LEMMA ExportInvAtFirst == ExportInit => ExportInv
<1> SUFFICES ASSUME ExportInit
             PROVE  ExportInv
  OBVIOUS
<1>1. CountInv /\ PeriodTypes
  BY CountsAtFirst
<1>2. created \in [Redelegations \cup Unbondings -> Seq(Heights)]
  BY HeightAndCoins DEF ExportInit, Heights
<1>3. /\ outstanding \in [Validators -> Nat]
      /\ unbonding \in [Validators -> Heights] /\ ctxHeight \in Heights
      /\ height \in 0..(LastHeight + 1)
  BY HeightAndCoins DEF ExportInit, Heights
<1>4. ExportTypeOK
  BY <1>1, <1>2, <1>3 DEF ExportInit, ExportTypeOK, PeriodTypes, Stages
<1>5. PeriodsSuffice
  BY ConstantsFinite DEF ExportInit, PeriodsSuffice
<1> QED
  BY <1>1, <1>4, <1>5 DEF ExportInv

\* Every step of the export keeps it.
LEMMA ExportInvStep == ExportInv /\ [ExportNext]_exportVars => ExportInv'
<1> SUFFICES ASSUME ExportTypeOK, CountInv, PeriodsSuffice, [ExportNext]_exportVars
             PROVE  ExportInv'
  BY DEF ExportInv
<1>1. CASE \/ NewMiniApp \/ Open \/ Fail \/ Begin \/ WriteGenesis
           \/ AddressesAreValid \/ BadAddress \/ LoopEnds \/ DelegationsReinitialised
           \/ CloseFails \/ UpdateValidators \/ UpdateFails \/ StoreFails \/ Over
           \/ UNCHANGED exportVars
  <2>1. CountInv' /\ UNCHANGED <<refs, period, start>>
    BY <1>1, StagesKeepCounts
  <2>2. PeriodTypes'
    BY <2>1 DEF PeriodTypes, ExportTypeOK
  <2>3. PeriodsSuffice'
    BY <2>1 DEF PeriodsSuffice
  <2> QED
    BY <2>1, <2>2, <2>3, ExportTypeStep DEF ExportInv
<1>2. CASE \/ \E v \in Validators : WithdrawCommission(v) \/ ResetValidator(v)
           \/ \E r \in Redelegations : ResetCreation("redelegations", r)
           \/ \E u \in Unbondings : ResetCreation("unbondings", u)
  <2>1. CountInv' /\ UNCHANGED <<refs, period, start>>
    BY <1>2, TurnsKeepCounts
  <2>2. PeriodTypes'
    BY <2>1 DEF PeriodTypes, ExportTypeOK
  <2>3. PeriodsSuffice'
    BY <2>1 DEF PeriodsSuffice
  <2> QED
    BY <2>1, <2>2, <2>3, ExportTypeStep DEF ExportInv
<1>3. CASE \/ RewardsWithdrawn
           \/ \E v \in Validators : ReinitValidator(v)
           \/ \E d \in Delegations : WithdrawRewards(d) \/ RewardsFail(d) \/ ReinitDelegation(d)
  <2>1. CountInv' /\ PeriodTypes'
    BY <1>3, RewardsWithdrawnCounts, ReinitValidatorCounts, WithdrawRewardsCounts,
       RewardsFailCounts, ReinitDelegationCounts
  <2>2. stage' \notin Aborted
    BY <1>3 DEF RewardsWithdrawn, NextLoop, ReinitValidator, WithdrawRewards, RewardsFail,
       ReinitDelegation, Turn, Aborted
  <2>3. ExportTypeOK'
    BY <2>1, ExportTypeStep
  <2>4. (CountInv /\ ExportTypeOK /\ stage \notin Aborted => PeriodsSuffice)'
    BY PeriodBoundType, PTL
  <2> QED
    BY <2>1, <2>2, <2>3, <2>4 DEF ExportInv
<1> QED
  BY <1>1, <1>2, <1>3 DEF ExportNext

\* It holds of every export.
THEOREM ExportInvHolds == ExportSpec => []ExportInv
<1> QED
  BY ExportInvAtFirst, ExportInvStep, PTL DEF ExportSpec

\* No reference count becomes negative, whichever withdrawals fail: the keeper, which
\* panics when one would, does not stop the export (property ExportTypeOK).
THEOREM ExportTypeCorrect == ExportSpec => []ExportTypeOK
<1>1. ExportInv => ExportTypeOK
  BY DEF ExportInv
<1> QED
  BY <1>1, ExportInvHolds, PTL

\* The periods that the model keeps counts for are all there are, for any number of
\* delegations.
THEOREM PeriodsSufficeHolds == ExportSpec => []PeriodsSuffice
<1>1. ExportInv => PeriodsSuffice
  BY DEF ExportInv
<1> QED
  BY <1>1, ExportInvHolds, PTL

\* The reference counts are those of the delegations and validators, at every stage and
\* in the genesis that is written (property ReferencesAreCounted).
THEOREM ReferencesAreCountedHolds == ExportSpec => []ReferencesAreCounted
<1>1. ExportInv => ReferencesAreCounted
  BY DEF ExportInv, CountInv, Counted, Settled, Aborted, ReferencesAreCounted, Preparing
<1> QED
  BY <1>1, ExportInvHolds, PTL

-----------------------------------------------------------------------------
(***************************************************************************)
(* Heights: what has been reset at each stage.                             *)
(***************************************************************************)

\* What the loops of an export at height zero have still to reset.
ToRestart ==
  CASE stage \in {"addresses", "commission", "rewards", "validators"} -> Delegations
    [] stage = "delegations" -> todo
    [] OTHER -> {}

ToReset ==
  CASE stage = "redelegations" -> todo \cup Unbondings
    [] stage = "unbondings" -> todo
    [] stage \in {"jailing", "updating", "writing", "exported"} -> {}
    [] OTHER -> Redelegations \cup Unbondings

ToUnbond ==
  CASE stage = "jailing" -> todo
    [] stage \in {"updating", "writing", "exported"} -> {}
    [] OTHER -> Validators

HeightsInv ==
  /\ stage \in Preparing => zero
  /\ stage \in {"opening", "built", "opened"} \cup Preparing => height = 0
  /\ stage \in {"writing", "exported"} => height = IF zero THEN 0 ELSE LastHeight + 1
  /\ stage \in {"validators", "delegations"} => ctxHeight = 0
  /\ zero /\ stage \in Preparing \cup {"writing", "exported"} =>
       /\ \A d \in Delegations \ ToRestart : start[d].height = 0
       /\ \A x \in (Redelegations \cup Unbondings) \ ToReset :
            \A i \in DOMAIN created[x] : created[x][i] = 0
       /\ \A v \in Validators \ ToUnbond : unbonding[v] = 0

\* The heights at the start of an export.
LEMMA HeightsAtFirst == ExportInit => HeightsInv
  BY DEF ExportInit, HeightsInv, Preparing

\* Every loop resets the heights it runs through and leaves the others alone.
LEMMA HeightsStep == ExportTypeOK /\ HeightsInv /\ [ExportNext]_exportVars => HeightsInv'
<1> SUFFICES ASSUME ExportTypeOK, HeightsInv, [ExportNext]_exportVars
             PROVE  HeightsInv'
  OBVIOUS
<1> USE DEF HeightsInv, ToRestart, ToReset, ToUnbond, Preparing
<1>1. CASE NewMiniApp \/ Open \/ Fail \/ WriteGenesis \/ BadAddress
  BY <1>1 DEF NewMiniApp, Open, Fail, WriteGenesis, BadAddress, Go, params, periods, staking
<1>2. CASE UpdateValidators \/ UpdateFails \/ StoreFails
  BY <1>2 DEF UpdateValidators, UpdateFails, StoreFails, Go, params, periods, staking
<1>3. CASE Over \/ UNCHANGED exportVars
  BY <1>3 DEF Over, exportVars, params, periods, staking
<1>4. CASE Begin
  BY <1>4 DEF Begin, params, periods, staking
<1>5. CASE AddressesAreValid \/ LoopEnds \/ CloseFails
  BY <1>5 DEF AddressesAreValid, LoopEnds, CloseFails, NextLoop, params, periods, staking
<1>6. CASE RewardsWithdrawn \/ DelegationsReinitialised
  BY <1>6 DEF RewardsWithdrawn, DelegationsReinitialised, NextLoop, InitialHeight, params,
     staking, periods
<1>7. ASSUME NEW v \in Validators, WithdrawCommission(v) \/ ReinitValidator(v)
      PROVE  HeightsInv'
  BY <1>7 DEF WithdrawCommission, ReinitValidator, Turn, params, periods, staking
<1>8. ASSUME NEW d \in Delegations, WithdrawRewards(d) \/ RewardsFail(d)
      PROVE  HeightsInv'
  BY <1>8 DEF WithdrawRewards, RewardsFail, Turn, params, staking
<1>9. ASSUME NEW d \in Delegations, ReinitDelegation(d)
      PROVE  HeightsInv'
  <2>1. /\ stage = "delegations" /\ stage' = stage /\ d \in todo /\ todo' = todo \ {d}
        /\ ctxHeight = 0 /\ ctxHeight' = 0 /\ height' = height
        /\ start' = [start EXCEPT ![d] =
                       [period |-> period[ValidatorOf[d]], height |-> ctxHeight]]
        /\ UNCHANGED <<zero, created, unbonding>>
    BY <1>9 DEF ReinitDelegation, Turn, StartAgain, params, staking
  <2>2. \A e \in Delegations \ todo' :
          start'[e].height = IF e = d THEN 0 ELSE start[e].height
    BY <2>1 DEF ExportTypeOK
  <2> QED
    BY <2>1, <2>2
<1>10. ASSUME NEW v \in Validators, ResetValidator(v)
       PROVE  HeightsInv'
  BY <1>10 DEF ResetValidator, Turn, params, periods, ExportTypeOK
<1>11. ASSUME NEW x \in Redelegations \cup Unbondings, NEW s \in {"redelegations", "unbondings"},
              ResetCreation(s, x)
       PROVE  HeightsInv'
  <2>1. /\ stage = s /\ stage' = stage /\ todo' = todo \ {x} /\ height' = height
        /\ created' = [created EXCEPT ![x] = ResetEntries(created[x])]
        /\ UNCHANGED <<zero, ctxHeight, start, unbonding>>
    BY <1>11 DEF ResetCreation, Turn, params, periods
  <2>2. \A i \in DOMAIN created'[x] : created'[x][i] = 0
    BY <2>1 DEF ExportTypeOK, ResetEntries
  <2>3. \A y \in Redelegations \cup Unbondings : y # x => created'[y] = created[y]
    BY <2>1 DEF ExportTypeOK
  <2> QED
    BY <2>1, <2>2, <2>3
<1> QED
  BY <1>1, <1>2, <1>3, <1>4, <1>5, <1>6, <1>7, <1>8, <1>9, <1>10, <1>11 DEF ExportNext

\* The genesis that is written has no height beyond the one its chain starts at (property
\* NoHeightFromTheFuture), whatever the loops came to first.
THEOREM NoHeightFromTheFutureHolds == ExportSpec => []NoHeightFromTheFuture
<1>1. ExportTypeOK /\ HeightsInv => NoHeightFromTheFuture
  <2> SUFFICES ASSUME ExportTypeOK, HeightsInv, stage = "exported"
               PROVE  /\ \A d \in Delegations : start[d].height <= height
                      /\ \A x \in DOMAIN created :
                           \A i \in DOMAIN created[x] : created[x][i] <= height
                      /\ \A v \in Validators : unbonding[v] <= height
    BY DEF NoHeightFromTheFuture
  <2>1. CASE zero
    BY <2>1 DEF ExportTypeOK, HeightsInv, ToRestart, ToReset, ToUnbond, Preparing
  <2>2. CASE ~zero
    <3>1. height = LastHeight + 1 /\ LastHeight \in Nat
      BY <2>2, HeightAndCoins DEF HeightsInv
    <3>2. \A h \in Heights : h <= height
      BY <3>1 DEF Heights
    <3>3. \A d \in Delegations : start[d].height \in Heights
      BY DEF ExportTypeOK
    <3>4. \A x \in DOMAIN created : \A i \in DOMAIN created[x] : created[x][i] \in Heights
      <4>1. \A x \in DOMAIN created : created[x] \in Seq(Heights)
        BY DEF ExportTypeOK
      <4> QED
        BY <4>1, ElementOfSeq, LenProperties
    <3> QED
      BY <3>2, <3>3, <3>4 DEF ExportTypeOK
  <2> QED
    BY <2>1, <2>2
<1>2. ExportInv => ExportTypeOK
  BY DEF ExportInv
<1> QED
  BY <1>1, <1>2, ExportInvHolds, HeightsAtFirst, HeightsStep, PTL DEF ExportSpec

(***************************************************************************)
(* The active set.                                                         *)
(***************************************************************************)

JailInv ==
  /\ stage \in {"jailing", "updating"} \/ (stage \in {"writing", "exported"} /\ zero /\ ~skipped) =>
       \A v \in Validators \ ToUnbond : MustBeJailed(v) => v \in jailed
  /\ stage \in {"writing", "exported"} /\ zero /\ ~skipped => bonded \cap jailed = {}

\* The active set at the start of an export.
LEMMA JailAtFirst == ExportInit => JailInv
  BY DEF ExportInit, JailInv

\* Who must be jailed is, when the loop has come to him.
LEMMA JailStep == JailInv /\ HeightsInv /\ [ExportNext]_exportVars => JailInv'
<1> SUFFICES ASSUME JailInv, HeightsInv, [ExportNext]_exportVars
             PROVE  JailInv'
  OBVIOUS
<1> USE DEF JailInv, ToUnbond, MustBeJailed
<1>1. CASE NewMiniApp \/ Open \/ Fail \/ WriteGenesis \/ BadAddress
  BY <1>1 DEF NewMiniApp, Open, Fail, WriteGenesis, BadAddress, Go, params, staking
<1>2. CASE UpdateValidators \/ UpdateFails \/ StoreFails
  BY <1>2 DEF UpdateValidators, UpdateFails, StoreFails, Go, params, staking
<1>3. CASE Over \/ UNCHANGED exportVars
  BY <1>3 DEF Over, exportVars, params, staking
<1>4. CASE Begin
  BY <1>4 DEF Begin, params, staking
<1>5. CASE AddressesAreValid \/ LoopEnds \/ CloseFails
  BY <1>5 DEF AddressesAreValid, LoopEnds, CloseFails, NextLoop, params, staking
<1>6. CASE RewardsWithdrawn \/ DelegationsReinitialised
  BY <1>6 DEF RewardsWithdrawn, DelegationsReinitialised, NextLoop, params, staking
<1>7. ASSUME NEW v \in Validators, WithdrawCommission(v) \/ ReinitValidator(v)
      PROVE  JailInv'
  BY <1>7 DEF WithdrawCommission, ReinitValidator, Turn, params, staking
<1>8. ASSUME NEW d \in Delegations, WithdrawRewards(d) \/ RewardsFail(d) \/ ReinitDelegation(d)
      PROVE  JailInv'
  BY <1>8 DEF WithdrawRewards, RewardsFail, ReinitDelegation, Turn, params, staking
<1>9. ASSUME NEW v \in Validators, ResetValidator(v)
      PROVE  JailInv'
  BY <1>9 DEF ResetValidator, Turn, params
<1>10. ASSUME NEW x, NEW s \in {"redelegations", "unbondings"}, ResetCreation(s, x)
       PROVE  JailInv'
  BY <1>10 DEF ResetCreation, Turn, params
<1> QED
  BY <1>1, <1>2, <1>3, <1>4, <1>5, <1>6, <1>7, <1>8, <1>9, <1>10 DEF ExportNext

\* With a list of allowed addresses no other validator is in the active set of the
\* genesis (property OnlyAllowedAreActive).
THEOREM OnlyAllowedAreActiveHolds == ExportSpec => []OnlyAllowedAreActive
<1>1. ExportTypeOK /\ JailInv => OnlyAllowedAreActive
  BY DEF ExportTypeOK, JailInv, OnlyAllowedAreActive, ToUnbond, MustBeJailed
<1>2. ExportInv => ExportTypeOK
  BY DEF ExportInv
<1> QED
  BY <1>1, <1>2, ExportInvHolds, HeightsAtFirst, HeightsStep, JailAtFirst, JailStep, PTL
  DEF ExportSpec

-----------------------------------------------------------------------------
(***************************************************************************)
(* Coins: sums over the validators.                                        *)
(***************************************************************************)

\* The element that a sum over s takes first.
FirstIn(s) == CHOOSE x \in s : TRUE

\* g has the sums of f over the subsets of S in D.
Sums(g, f, D) ==
  g = [s \in D |-> IF s = {} THEN 0 ELSE f[FirstIn(s)] + g[s \ {FirstIn(s)}]]

\* SumFunction is defined by recursion over the subsets of a function's domain.
LEMMA SumFunctionIs ==
  ASSUME NEW f
  PROVE  SumFunction(f) = (CHOOSE g : Sums(g, f, SUBSET DOMAIN f))[DOMAIN f]
  BY Zenon DEF SumFunction, SumFunctionOnSet, FoldFunctionOnSet, MapThenFoldSet, Sums, FirstIn

\* Such a recursion gives the sums of its subsets.
LEMMA SumValues ==
  \A g, f, D : Sums(g, f, D) =>
    \A s \in D : g[s] = IF s = {} THEN 0 ELSE f[FirstIn(s)] + g[s \ {FirstIn(s)}]
<1> SUFFICES ASSUME NEW g, NEW f, NEW D, Sums(g, f, D)
             PROVE  \A s \in D : g[s] = IF s = {} THEN 0 ELSE f[FirstIn(s)] + g[s \ {FirstIn(s)}]
  OBVIOUS
<1> DEFINE e(s) == IF s = {} THEN 0 ELSE f[FirstIn(s)] + g[s \ {FirstIn(s)}]
<1>1. g = [s \in D |-> e(s)]
  BY DEF Sums
<1> HIDE DEF e
<1>2. \A s \in D : g[s] = e(s)
  BY <1>1
<1> QED
  BY <1>2 DEF e

\* A finite set without one of its elements.
LEMMA OneLess ==
  ASSUME NEW S, IsFiniteSet(S), NEW T \in SUBSET S, T # {}
  PROVE  /\ FirstIn(T) \in T /\ IsFiniteSet(T) /\ T \ {FirstIn(T)} \in SUBSET S
         /\ Cardinality(T) \in Nat /\ Cardinality(T \ {FirstIn(T)}) \in Nat
         /\ Cardinality(T) = Cardinality(T \ {FirstIn(T)}) + 1
<1>1. FirstIn(T) \in T
  BY DEF FirstIn
<1>2. IsFiniteSet(T) /\ Cardinality(T) \in Nat /\ IsFiniteSet(T \ {FirstIn(T)})
      /\ Cardinality(T \ {FirstIn(T)}) \in Nat
  BY FS_Subset, FS_CardinalityType
<1>3. Cardinality(T \ {FirstIn(T)}) = Cardinality(T) - 1
  BY <1>1, <1>2, FS_RemoveElement
<1> QED
  BY <1>1, <1>2, <1>3

\* There is such a recursion for a finite set: its sizes one after the other.
LEMMA SumExists ==
  ASSUME NEW S, IsFiniteSet(S), NEW f
  PROVE  \E g : Sums(g, f, SUBSET S)
<1> DEFINE D(n) == {T \in SUBSET S : Cardinality(T) <= n}
           U == {n \in Nat : \E g : Sums(g, f, D(n))}
<1>1. 0 \in U
  <2> DEFINE g == [s \in D(0) |-> 0]
  <2>1. ASSUME NEW s \in D(0), s # {}
        PROVE  FALSE
    <3>1. s \in SUBSET S /\ Cardinality(s) <= 0
      OBVIOUS
    <3>2. /\ Cardinality(s) = Cardinality(s \ {FirstIn(s)}) + 1
          /\ Cardinality(s \ {FirstIn(s)}) \in Nat
      BY <2>1, <3>1, OneLess
    <3> QED
      BY <3>1, <3>2
  <2>2. Sums(g, f, D(0))
    BY <2>1 DEF Sums
  <2> QED
    BY <2>2
<1>2. ASSUME NEW n \in Nat, n \in U
      PROVE  n + 1 \in U
  <2>1. PICK g : Sums(g, f, D(n))
    BY <1>2
  <2> DEFINE h == [s \in D(n + 1) |-> IF s = {} THEN 0 ELSE f[FirstIn(s)] + g[s \ {FirstIn(s)}]]
  <2>2. \A s \in D(n) : s \in D(n + 1)
    <3>1. \A s \in SUBSET S : Cardinality(s) \in Nat
      BY FS_Subset, FS_CardinalityType
    <3> QED
      BY <3>1
  <2>3. \A s \in D(n) : h[s] = g[s]
    BY <2>1, <2>2, SumValues
  <2>4. \A s \in D(n + 1) : s # {} => s \ {FirstIn(s)} \in D(n)
    BY OneLess
  <2>5. \A s \in D(n + 1) : h[s] = IF s = {} THEN 0 ELSE f[FirstIn(s)] + h[s \ {FirstIn(s)}]
    <3> HIDE DEF D
    <3> QED
      BY <2>3, <2>4
  <2>6. Sums(h, f, D(n + 1))
    <3>1. h = [s \in D(n + 1) |-> h[s]]
      OBVIOUS
    <3> HIDE DEF h, D
    <3> QED
      BY <2>5, <3>1 DEF Sums
  <2>7. \E k : Sums(k, f, D(n + 1))
    BY <2>6
  <2>8. n + 1 \in Nat
    OBVIOUS
  <2> HIDE DEF D, h
  <2> QED
    BY <2>7, <2>8
<1>3. Cardinality(S) \in U
  <2> HIDE DEF U
  <2> QED
    BY <1>1, <1>2, InductionOnNat, FS_CardinalityType
<1>4. D(Cardinality(S)) = SUBSET S
  BY FS_Subset
<1>5. \E g : Sums(g, f, D(Cardinality(S)))
  BY <1>3
<1> QED
  BY <1>4, <1>5

\* A sum with one of its terms changed.
LEMMA SumOneChanged ==
  ASSUME NEW S, IsFiniteSet(S), NEW f \in [S -> Int], NEW v \in S, NEW e \in Int
  PROVE  /\ SumFunction(f) \in Int
         /\ SumFunction([f EXCEPT ![v] = e]) = SumFunction(f) - f[v] + e
<1> SUFFICES ASSUME NEW h, h = [f EXCEPT ![v] = e]
             PROVE  SumFunction(f) \in Int /\ SumFunction(h) = SumFunction(f) - f[v] + e
  OBVIOUS
<1>1. PICK g : Sums(g, f, SUBSET S) /\ g[S] = SumFunction(f)
  BY SumFunctionIs, SumExists
<1>2. PICK k : Sums(k, h, SUBSET S) /\ k[S] = SumFunction(h)
  BY SumFunctionIs, SumExists
<1>3. h \in [S -> Int] /\ h[v] = e /\ f[v] \in Int /\ \A x \in S : x # v => h[x] = f[x]
  OBVIOUS
<1>4. \A T \in SUBSET S :
        /\ g[T] = IF T = {} THEN 0 ELSE f[FirstIn(T)] + g[T \ {FirstIn(T)}]
        /\ k[T] = IF T = {} THEN 0 ELSE h[FirstIn(T)] + k[T \ {FirstIn(T)}]
  <2> DEFINE P == SUBSET S
  <2>1. Sums(g, f, P) /\ Sums(k, h, P)
    BY <1>1, <1>2
  <2> HIDE DEF P
  <2>2. \A T \in P :
          /\ g[T] = IF T = {} THEN 0 ELSE f[FirstIn(T)] + g[T \ {FirstIn(T)}]
          /\ k[T] = IF T = {} THEN 0 ELSE h[FirstIn(T)] + k[T \ {FirstIn(T)}]
    BY <2>1, SumValues
  <2> QED
    BY <2>2 DEF P
<1> DEFINE Good(T) == g[T] \in Int /\ k[T] = g[T] + (IF v \in T THEN e - f[v] ELSE 0)
           U == {n \in Nat : \A T \in SUBSET S : Cardinality(T) = n => Good(T)}
<1>5. 0 \in U
  <2>1. ASSUME NEW T \in SUBSET S, Cardinality(T) = 0
        PROVE  Good(T)
    <3>1. T = {}
      <4>1. IsFiniteSet(T)
        BY FS_Subset
      <4> QED
        BY <2>1, <4>1, FS_EmptySet
    <3>2. g[{}] = 0 /\ k[{}] = 0
      <4>1. {} \in SUBSET S
        OBVIOUS
      <4> QED
        BY <1>4, <4>1
    <3> QED
      BY <3>1, <3>2
  <2> QED
    BY <2>1
<1>6. ASSUME NEW n \in Nat, n \in U
      PROVE  n + 1 \in U
  <2>1. ASSUME NEW T \in SUBSET S, Cardinality(T) = n + 1
        PROVE  Good(T)
    <3> DEFINE x == FirstIn(T)
               R == T \ {FirstIn(T)}
    <3>1. T # {}
      BY <2>1, FS_EmptySet
    <3>2. x \in T /\ x \in S /\ R \in SUBSET S /\ Cardinality(R) = n
      <4>1. /\ x \in T /\ R \in SUBSET S /\ Cardinality(R) \in Nat
            /\ Cardinality(T) = Cardinality(R) + 1
        BY <3>1, OneLess
      <4> HIDE DEF x, R
      <4> QED
        BY <2>1, <4>1
    <3>3. g[R] \in Int /\ k[R] = g[R] + (IF v \in R THEN e - f[v] ELSE 0)
      BY <1>6, <3>2
    <3>4. g[T] = f[x] + g[R] /\ k[T] = h[x] + k[R]
      BY <1>4, <3>1
    <3>5. v \in R <=> v \in T /\ v # x
      OBVIOUS
    <3>6. f[x] \in Int
      BY <3>2
    <3> HIDE DEF x, R
    <3>7. CASE x = v
      BY <1>3, <3>2, <3>3, <3>4, <3>5, <3>6, <3>7
    <3>8. CASE x # v
      BY <1>3, <3>2, <3>3, <3>4, <3>5, <3>6, <3>8
    <3> QED
      BY <3>7, <3>8
  <2> HIDE DEF Good
  <2> QED
    BY <2>1
<1>7. Cardinality(S) \in U
  <2> HIDE DEF U
  <2> QED
    BY <1>5, <1>6, InductionOnNat, FS_CardinalityType
<1>8. Good(S)
  <2> HIDE DEF Good
  <2> QED
    BY <1>7
<1>9. k[S] = g[S] + (e - f[v]) /\ g[S] \in Int
  BY <1>8
<1> QED
  BY <1>1, <1>2, <1>3, <1>9

\* Coins that are paid, or that go to the community pool, are no longer outstanding.
LEMMA PayLosesNothing ==
  ASSUME ExportTypeOK, NEW v \in Validators, NEW c \in Nat, NEW dust \in Nat,
         Pay(v, c, dust)
  PROVE  SumFunction(outstanding)' + pool' + paid' = SumFunction(outstanding) + pool + paid
<1>1. /\ outstanding \in [Validators -> Int] /\ outstanding[v] \in Int
      /\ pool \in Int /\ paid \in Int
  BY DEF ExportTypeOK
<1> DEFINE e == outstanding[v] - c - dust
<1>2. outstanding' = [outstanding EXCEPT ![v] = e] /\ paid' = paid + c /\ pool' = pool + dust
  BY DEF Pay
<1>3. e \in Int
  BY <1>1
<1>4. SumFunction(outstanding) \in Int
      /\ SumFunction([outstanding EXCEPT ![v] = e]) = SumFunction(outstanding) - outstanding[v] + e
  BY <1>1, <1>3, ChainStateIsFinite, SumOneChanged
<1>5. SumFunction(outstanding') = SumFunction(outstanding) - outstanding[v] + e
  BY <1>2, <1>4
<1> QED
  BY <1>1, <1>2, <1>4, <1>5

\* Every step of the export keeps the number of coins.
LEMMA NoCoinStep ==
  ExportTypeOK /\ [ExportNext]_exportVars =>
    [SumFunction(outstanding)' + pool' + paid' = SumFunction(outstanding) + pool + paid]_exportVars
<1> SUFFICES ASSUME ExportTypeOK, ExportNext
             PROVE  SumFunction(outstanding)' + pool' + paid' = SumFunction(outstanding) + pool + paid
  OBVIOUS
<1>1. ASSUME NEW v \in Validators, WithdrawCommission(v)
      PROVE  SumFunction(outstanding)' + pool' + paid' = SumFunction(outstanding) + pool + paid
  <2>1. PICK c \in 0..outstanding[v] : Pay(v, c, 0)
    BY <1>1 DEF WithdrawCommission
  <2>2. c \in Nat
    BY DEF ExportTypeOK
  <2> QED
    BY <2>1, <2>2, PayLosesNothing
<1>2. ASSUME NEW d \in Delegations, WithdrawRewards(d)
      PROVE  SumFunction(outstanding)' + pool' + paid' = SumFunction(outstanding) + pool + paid
  <2> DEFINE v == ValidatorOf[d]
  <2>1. v \in Validators
    BY DelegationsHaveValidators
  <2>2. PICK c \in 0..outstanding[v] : \E dust \in 0..(outstanding[v] - c) : Pay(v, c, dust)
    BY <1>2 DEF WithdrawRewards
  <2>3. PICK dust \in 0..(outstanding[v] - c) : Pay(v, c, dust)
    BY <2>2
  <2>4. c \in Nat /\ dust \in Nat
    BY <2>1 DEF ExportTypeOK
  <2> QED
    BY <2>1, <2>3, <2>4, PayLosesNothing
<1>3. ASSUME NEW v \in Validators, ReinitValidator(v)
      PROVE  SumFunction(outstanding)' + pool' + paid' = SumFunction(outstanding) + pool + paid
  <2>1. outstanding[v] \in Nat /\ outstanding[v] \in Int /\ outstanding \in [Validators -> Int]
        /\ pool \in Int /\ paid \in Int
    BY DEF ExportTypeOK
  <2>2. SumFunction(outstanding) \in Int
        /\ SumFunction([outstanding EXCEPT ![v] = 0]) = SumFunction(outstanding) - outstanding[v]
    <3>1. PICK e \in Int : e = 0
      OBVIOUS
    <3>2. SumFunction(outstanding) \in Int
          /\ SumFunction([outstanding EXCEPT ![v] = e]) = SumFunction(outstanding) - outstanding[v] + e
      BY <2>1, ChainStateIsFinite, SumOneChanged
    <3> QED
      BY <2>1, <3>1, <3>2
  <2>3. /\ outstanding' = [outstanding EXCEPT ![v] = 0]
        /\ pool' = pool + outstanding[v] /\ paid' = paid
    BY <1>3 DEF ReinitValidator, Scraps
  <2>4. SumFunction(outstanding') = SumFunction(outstanding) - outstanding[v]
    BY <2>1, <2>2, <2>3
  <2> QED
    BY <2>1, <2>2, <2>3, <2>4
<1>4. CASE \/ NewMiniApp \/ Open \/ Fail \/ Begin \/ WriteGenesis
           \/ AddressesAreValid \/ BadAddress \/ LoopEnds \/ RewardsWithdrawn
           \/ DelegationsReinitialised \/ CloseFails \/ UpdateValidators \/ UpdateFails
           \/ StoreFails \/ Over
           \/ \E v \in Validators : ResetValidator(v)
           \/ \E d \in Delegations : RewardsFail(d) \/ ReinitDelegation(d)
           \/ \E r \in Redelegations : ResetCreation("redelegations", r)
           \/ \E u \in Unbondings : ResetCreation("unbondings", u)
  <2>1. UNCHANGED coins
    BY <1>4 DEF NewMiniApp, Open, Fail, Begin, WriteGenesis, AddressesAreValid, BadAddress,
       LoopEnds, RewardsWithdrawn, DelegationsReinitialised, CloseFails, UpdateValidators,
       UpdateFails, StoreFails, Over, ResetValidator, RewardsFail, ReinitDelegation,
       ResetCreation, Go, exportVars
  <2> QED
    BY <2>1 DEF coins
<1> QED
  BY <1>1, <1>2, <1>3, <1>4 DEF ExportNext

\* Whatever could be withdrawn and whatever not, the distribution module's coins are
\* those it accounts for (property NoCoinIsLost), for any number of validators.
THEOREM NoCoinIsLostHolds == ExportSpec => NoCoinIsLost
<1>1. ExportInv => ExportTypeOK
  BY DEF ExportInv
<1> QED
  BY <1>1, ExportInvHolds, NoCoinStep, PTL DEF ExportSpec, NoCoinIsLost

-----------------------------------------------------------------------------
(***************************************************************************)
(* The transactions of a chain in their order.                             *)
(***************************************************************************)

\* f is the function by which FlattenSeq joins the sequences of s.
Joins(f, s) == f = [i \in 1..Len(s) |-> IF i = 1 THEN s[i] ELSE f[i - 1] \o s[i]]

\* A join at each place.
LEMMA JoinValues ==
  ASSUME NEW s, NEW f, Joins(f, s)
  PROVE  /\ f = [i \in 1..Len(s) |-> f[i]]
         /\ \A i \in 1..Len(s) : f[i] = IF i = 1 THEN s[i] ELSE f[i - 1] \o s[i]
<1> DEFINE e(i) == IF i = 1 THEN s[i] ELSE f[i - 1] \o s[i]
<1>1. f = [i \in 1..Len(s) |-> e(i)]
  BY DEF Joins
<1> HIDE DEF e
<1>2. f = [i \in 1..Len(s) |-> f[i]] /\ \A i \in 1..Len(s) : f[i] = e(i)
  BY <1>1
<1> QED
  BY <1>2 DEF e

\* A sequence of sequences is joined in one way only.
LEMMA JoinIsUnique ==
  ASSUME NEW s, Len(s) \in Nat, NEW f, Joins(f, s), NEW g, Joins(g, s)
  PROVE  f = g
<1> DEFINE U == {n \in Nat : n \in 1..Len(s) => f[n] = g[n]}
<1>1. 0 \in U
  OBVIOUS
<1>2. \A n \in Nat : n \in U => n + 1 \in U
  <2> SUFFICES ASSUME NEW n \in Nat, n \in U, n + 1 \in 1..Len(s)
               PROVE  f[n + 1] = g[n + 1]
    OBVIOUS
  <2>1. /\ f[n + 1] = IF n + 1 = 1 THEN s[n + 1] ELSE f[n + 1 - 1] \o s[n + 1]
        /\ g[n + 1] = IF n + 1 = 1 THEN s[n + 1] ELSE g[n + 1 - 1] \o s[n + 1]
    BY JoinValues
  <2>2. n + 1 - 1 = n /\ (n + 1 # 1 => n \in 1..Len(s))
    OBVIOUS
  <2> QED
    BY <2>1, <2>2
<1>3. \A n \in Nat : n \in U
  <2> HIDE DEF U
  <2> QED
    BY <1>1, <1>2, InductionOnNat
<1>4. \A n \in 1..Len(s) : f[n] = g[n]
  BY <1>3
<1>5. f = [i \in 1..Len(s) |-> f[i]] /\ g = [i \in 1..Len(s) |-> g[i]]
  BY JoinValues
<1> QED
  BY <1>4, <1>5

\* A join of s goes on to a join of s and one more.
LEMMA JoinOneMore ==
  ASSUME NEW S, NEW s \in Seq(S), NEW x \in S, NEW f, Joins(f, s)
  PROVE  LET n == Len(s) + 1
             g == [i \in 1..n |->
                     IF i < n THEN f[i] ELSE IF n = 1 THEN x ELSE f[n - 1] \o x]
         IN  Joins(g, Append(s, x))
<1> DEFINE n == Len(s) + 1
           t == Append(s, x)
           g == [i \in 1..n |-> IF i < n THEN f[i] ELSE IF n = 1 THEN x ELSE f[n - 1] \o x]
<1>1. /\ Len(t) = n /\ n \in Nat /\ n >= 1
      /\ \A i \in 1..n : i < n => t[i] = s[i]
      /\ t[n] = x
  BY AppendProperties, LenProperties
<1>2. \A i \in 1..n : i < n => f[i] = IF i = 1 THEN s[i] ELSE f[i - 1] \o s[i]
  BY <1>1, JoinValues
<1> HIDE DEF t, n
<1>3. ASSUME NEW i \in 1..n
      PROVE  g[i] = IF i = 1 THEN t[i] ELSE g[i - 1] \o t[i]
  <2>1. i \in Nat /\ i >= 1 /\ (i # 1 => i - 1 \in 1..n /\ i - 1 < n /\ g[i - 1] = f[i - 1])
    BY <1>1
  <2>2. CASE i < n
    BY <1>1, <1>2, <2>1, <2>2
  <2>3. CASE i = n
    BY <1>1, <2>1, <2>3
  <2> QED
    BY <1>1, <2>1, <2>2, <2>3
<1>4. g = [i \in 1..n |-> IF i = 1 THEN t[i] ELSE g[i - 1] \o t[i]]
  <2>1. g = [i \in 1..n |-> g[i]]
    OBVIOUS
  <2> HIDE DEF g
  <2> QED
    BY <1>3, <2>1
<1>5. Joins(g, t)
  <2> HIDE DEF g
  <2> QED
    BY <1>1, <1>4 DEF Joins
<1> QED
  BY <1>5 DEF t, n

\* The part of a sequence that has one more element.
LEMMA PrefixOneMore ==
  ASSUME NEW S, NEW s \in Seq(S), NEW n \in Nat, n + 1 <= Len(s)
  PROVE  /\ SubSeq(s, 1, n) \in Seq(S) /\ Len(SubSeq(s, 1, n)) = n /\ s[n + 1] \in S
         /\ SubSeq(s, 1, n + 1) = Append(SubSeq(s, 1, n), s[n + 1])
<1>1. Len(s) \in Nat /\ s[n + 1] \in S /\ \A i \in 1..n : s[i] \in S
  BY LenProperties, ElementOfSeq
<1>2. SubSeq(s, 1, n) \in Seq(S) /\ Len(SubSeq(s, 1, n)) = n
  BY <1>1, SubSeqProperties
<1>3. SubSeq(s, 1, n + 1) = SubSeq(s, 1, n) \o <<s[n + 1]>>
  <2>1. SubSeq(s, 1, n + 1) = SubSeq(s, 1, n + 1 - 1) \o <<s[n + 1]>>
    BY <1>1, SubSeqRecursiveSecond
  <2>2. n + 1 - 1 = n
    OBVIOUS
  <2> QED
    BY <2>1, <2>2
<1> QED
  BY <1>1, <1>2, <1>3, AppendIsConcat

\* Every sequence of sequences is joined in some way.
LEMMA JoinExists ==
  ASSUME NEW S, NEW s \in Seq(S)
  PROVE  \E f : Joins(f, s)
<1> DEFINE U == {n \in Nat : n <= Len(s) => \E f : Joins(f, SubSeq(s, 1, n))}
<1>0. Len(s) \in Nat
  BY LenProperties
<1>1. 0 \in U
  <2>1. SubSeq(s, 1, 0) = <<>>
    BY SubSeqEmpty
  <2>2. Joins(<<>>, <<>>)
    BY DEF Joins
  <2> QED
    BY <2>1, <2>2
<1>2. ASSUME NEW n \in Nat, n \in U
      PROVE  n + 1 \in U
  <2> SUFFICES ASSUME n + 1 <= Len(s)
               PROVE  \E f : Joins(f, SubSeq(s, 1, n + 1))
    OBVIOUS
  <2>1. PICK f : Joins(f, SubSeq(s, 1, n))
    BY <1>0, <1>2
  <2>2. /\ SubSeq(s, 1, n) \in Seq(S) /\ s[n + 1] \in S
        /\ SubSeq(s, 1, n + 1) = Append(SubSeq(s, 1, n), s[n + 1])
    BY <1>0, PrefixOneMore
  <2> QED
    BY <2>1, <2>2, JoinOneMore
<1>3. Len(s) \in U
  <2> HIDE DEF U
  <2> QED
    BY <1>0, <1>1, <1>2, InductionOnNat
<1>4. \E f : Joins(f, SubSeq(s, 1, Len(s)))
  BY <1>0, <1>3
<1> QED
  BY <1>4, SubSeqFull

\* FlattenSeq block by block.
LEMMA FlattenNone == FlattenSeq(<<>>) = <<>>
  BY DEF FlattenSeq

\* FlattenSeq of one more block.
LEMMA FlattenOneMore ==
  ASSUME NEW X, NEW s \in Seq(Seq(X)), NEW x \in Seq(X), FlattenSeq(s) \in Seq(X)
  PROVE  FlattenSeq(Append(s, x)) = FlattenSeq(s) \o x /\ FlattenSeq(Append(s, x)) \in Seq(X)
<1> DEFINE n == Len(s) + 1
           t == Append(s, x)
           F(r) == CHOOSE f : Joins(f, r)
<1>1. Len(t) = n /\ n \in Nat /\ n >= 1 /\ t \in Seq(Seq(X)) /\ Len(s) \in Nat
  BY AppendProperties, LenProperties
<1>2. Joins(F(s), s) /\ Joins(F(t), t)
  BY <1>1, JoinExists
<1>3. \A r : FlattenSeq(r) = IF Len(r) = 0 THEN r ELSE F(r)[Len(r)]
  BY DEF FlattenSeq, Joins
<1>4. F(t) = [i \in 1..n |-> IF i < n THEN F(s)[i] ELSE IF n = 1 THEN x ELSE F(s)[n - 1] \o x]
  <2> DEFINE f == F(s)
  <2>1. Joins(f, s)
    BY <1>2
  <2> HIDE DEF f
  <2>2. Joins([i \in 1..n |-> IF i < n THEN f[i] ELSE IF n = 1 THEN x ELSE f[n - 1] \o x], t)
    BY <2>1, JoinOneMore
  <2>3. F(t) = [i \in 1..n |-> IF i < n THEN f[i] ELSE IF n = 1 THEN x ELSE f[n - 1] \o x]
    BY <1>1, <1>2, <2>2, JoinIsUnique
  <2> QED
    BY <2>3 DEF f
<1>5. FlattenSeq(t) = F(t)[n]
  <2> HIDE DEF F, t
  <2> QED
    BY <1>1, <1>3
<1>6. F(t)[n] = IF n = 1 THEN x ELSE F(s)[n - 1] \o x
  <2> HIDE DEF F
  <2> QED
    BY <1>1, <1>4
<1>7. FlattenSeq(t) = FlattenSeq(s) \o x
  <2> HIDE DEF F
  <2>1. CASE n = 1
    <3>1. s = <<>> /\ FlattenSeq(s) = <<>>
      BY <1>1, <2>1, FlattenNone, EmptySeq
    <3> QED
      BY <1>5, <1>6, <2>1, <3>1, ConcatEmptySeq
  <2>2. CASE n # 1
    <3>1. Len(s) # 0 /\ n - 1 = Len(s) /\ FlattenSeq(s) = F(s)[Len(s)]
      BY <1>1, <1>3, <2>2
    <3> QED
      BY <1>5, <1>6, <2>2, <3>1
  <2> QED
    BY <2>1, <2>2
<1> QED
  BY <1>7, ConcatProperties

\* FlattenSeq returns a sequence of what the blocks are made of.
LEMMA FlattenType ==
  ASSUME NEW X, NEW s \in Seq(Seq(X))
  PROVE  FlattenSeq(s) \in Seq(X)
<1> DEFINE U == {n \in Nat : n <= Len(s) => FlattenSeq(SubSeq(s, 1, n)) \in Seq(X)}
<1>0. Len(s) \in Nat
  BY LenProperties
<1>1. 0 \in U
  <2>1. SubSeq(s, 1, 0) = <<>> /\ <<>> \in Seq(X)
    BY SubSeqEmpty
  <2> QED
    BY <2>1, FlattenNone
<1>2. ASSUME NEW n \in Nat, n \in U
      PROVE  n + 1 \in U
  <2> SUFFICES ASSUME n + 1 <= Len(s)
               PROVE  FlattenSeq(SubSeq(s, 1, n + 1)) \in Seq(X)
    OBVIOUS
  <2>1. FlattenSeq(SubSeq(s, 1, n)) \in Seq(X)
    BY <1>0, <1>2
  <2>2. /\ SubSeq(s, 1, n) \in Seq(Seq(X)) /\ s[n + 1] \in Seq(X)
        /\ SubSeq(s, 1, n + 1) = Append(SubSeq(s, 1, n), s[n + 1])
    BY <1>0, PrefixOneMore
  <2> QED
    BY <2>1, <2>2, FlattenOneMore
<1>3. Len(s) \in U
  <2> HIDE DEF U
  <2> QED
    BY <1>0, <1>1, <1>2, InductionOnNat
<1>4. FlattenSeq(SubSeq(s, 1, Len(s))) \in Seq(X)
  BY <1>0, <1>3
<1> QED
  BY <1>4, SubSeqFull

-----------------------------------------------------------------------------
(***************************************************************************)
(* What transactions mean: the entries they set, the last ones first.      *)
(***************************************************************************)

\* The value of a key is that of the last valid transaction that has it.
LEMMA EntriesAre ==
  ASSUME NEW X, NEW txs \in Seq(X)
  PROVE  /\ EntriesOf(txs) = [key \in DOMAIN EntriesOf(txs) |-> EntriesOf(txs)[key]]
         /\ \A key : key \in DOMAIN EntriesOf(txs) <=> Setters(txs, key) # {}
         /\ \A key : \A i \in Setters(txs, key) :
              (\A j \in Setters(txs, key) : j <= i) => EntriesOf(txs)[key] = ValueOf(txs[i])
         /\ \A key \in DOMAIN EntriesOf(txs) :
              \E i \in Setters(txs, key) : \A j \in Setters(txs, key) : j <= i
<1> DEFINE keys == {KeyOf(txs[i]) : i \in {j \in 1..Len(txs) : isValid(txs[j]) = 0}}
           last(key) == CHOOSE i \in Setters(txs, key) : \A j \in Setters(txs, key) : j <= i
<1>1. EntriesOf(txs) = [key \in keys |-> ValueOf(txs[last(key)])]
  BY DEF EntriesOf
<1>2. \A key : key \in keys <=> Setters(txs, key) # {}
  BY DEF Setters
<1>3. \A key : Setters(txs, key) \subseteq 1..Len(txs) /\ Len(txs) \in Nat
  BY LenProperties DEF Setters
<1>4. \A key \in keys : \E i \in Setters(txs, key) : \A j \in Setters(txs, key) : j <= i
  <2> HIDE DEF keys
  <2> QED
    BY <1>2, <1>3, LastExists
<1>5. ASSUME NEW key, NEW i \in Setters(txs, key), \A j \in Setters(txs, key) : j <= i
      PROVE  last(key) = i
  <2>1. last(key) \in Setters(txs, key) /\ \A j \in Setters(txs, key) : j <= last(key)
    BY <1>5
  <2>2. last(key) <= i /\ i <= last(key)
    BY <1>5, <2>1
  <2>3. last(key) \in Nat /\ i \in Nat
    BY <1>3, <2>1
  <2> HIDE DEF last
  <2> QED
    BY <2>2, <2>3
<1> HIDE DEF keys, last
<1>6. \A key : \A i \in Setters(txs, key) :
        (\A j \in Setters(txs, key) : j <= i) => EntriesOf(txs)[key] = ValueOf(txs[i])
  BY <1>1, <1>2, <1>5
<1> QED
  BY <1>1, <1>2, <1>4, <1>6

\* The entries of two sequences, one after the other: those of the second over those of
\* the first.
LEMMA EntriesOfBoth ==
  ASSUME NEW X, NEW s \in Seq(X), NEW t \in Seq(X)
  PROVE  EntriesOf(s \o t) = Overlay(EntriesOf(s), EntriesOf(t))
<1> DEFINE u == s \o t
           E(txs) == EntriesOf(txs)
<1>1. /\ u \in Seq(X) /\ Len(u) = Len(s) + Len(t) /\ Len(s) \in Nat /\ Len(t) \in Nat
      /\ \A i \in 1..Len(s) : i \in 1..Len(u) /\ u[i] = s[i]
      /\ \A i \in 1..Len(t) : i + Len(s) \in 1..Len(u) /\ u[i + Len(s)] = t[i]
      /\ \A i \in 1..Len(u) : i \in 1..Len(s) \/ i - Len(s) \in 1..Len(t)
  <2>1. /\ u \in Seq(X) /\ Len(u) = Len(s) + Len(t) /\ Len(s) \in Nat /\ Len(t) \in Nat
        /\ \A i \in 1..Len(s) + Len(t) :
             u[i] = IF i <= Len(s) THEN s[i] ELSE t[i - Len(s)]
    BY ConcatProperties, LenProperties
  <2> HIDE DEF u
  <2>2. \A i \in 1..Len(t) : i + Len(s) \in 1..Len(s) + Len(t) /\ ~(i + Len(s) <= Len(s))
                             /\ i + Len(s) - Len(s) = i
    BY <2>1
  <2> QED
    BY <2>1, <2>2
<1> HIDE DEF u
<1>2. ASSUME NEW key
      PROVE  /\ \A i \in 1..Len(s) : i \in Setters(u, key) <=> i \in Setters(s, key)
             /\ \A i \in 1..Len(t) : i + Len(s) \in Setters(u, key) <=> i \in Setters(t, key)
             /\ \A i \in Setters(u, key) :
                  i \in Setters(s, key) \/ i - Len(s) \in Setters(t, key)
             /\ Setters(s, key) \subseteq 1..Len(s) /\ Setters(t, key) \subseteq 1..Len(t)
             /\ Setters(u, key) \subseteq 1..Len(u)
  <2>1. /\ \A i \in 1..Len(s) : i \in Setters(u, key) <=> i \in Setters(s, key)
        /\ \A i \in 1..Len(t) : i + Len(s) \in Setters(u, key) <=> i \in Setters(t, key)
    BY <1>1 DEF Setters
  <2>2. /\ Setters(s, key) \subseteq 1..Len(s) /\ Setters(t, key) \subseteq 1..Len(t)
        /\ Setters(u, key) \subseteq 1..Len(u)
    BY DEF Setters
  <2>3. ASSUME NEW i \in Setters(u, key)
        PROVE  i \in Setters(s, key) \/ i - Len(s) \in Setters(t, key)
    <3>1. CASE i \in 1..Len(s)
      BY <2>1, <3>1
    <3>2. CASE i - Len(s) \in 1..Len(t)
      <4>1. i - Len(s) + Len(s) = i
        BY <1>1, <2>2
      <4> QED
        BY <2>1, <3>2, <4>1
    <3> QED
      BY <1>1, <2>2, <3>1, <3>2
  <2> QED
    BY <2>1, <2>2, <2>3
<1>3. ASSUME NEW key
      PROVE  key \in DOMAIN E(u) <=> key \in DOMAIN E(s) \/ key \in DOMAIN E(t)
  <2>1. Setters(u, key) # {} <=> Setters(s, key) # {} \/ Setters(t, key) # {}
    BY <1>1, <1>2
  <2> QED
    BY <1>1, <2>1, EntriesAre
<1>4. ASSUME NEW key \in DOMAIN E(t)
      PROVE  E(u)[key] = E(t)[key]
  <2>1. PICK i \in Setters(t, key) : \A j \in Setters(t, key) : j <= i
    BY EntriesAre
  <2>2. E(t)[key] = ValueOf(t[i])
    BY <2>1, EntriesAre
  <2>3. i + Len(s) \in Setters(u, key) /\ u[i + Len(s)] = t[i] /\ i \in 1..Len(t)
    BY <1>1, <1>2, <2>1
  <2>4. ASSUME NEW j \in Setters(u, key)
        PROVE  j <= i + Len(s)
    <3>1. CASE j \in Setters(s, key)
      BY <1>1, <1>2, <2>3, <3>1
    <3>2. CASE j - Len(s) \in Setters(t, key)
      <4>1. j - Len(s) <= i /\ j \in Int
        BY <1>1, <1>2, <2>1, <3>2
      <4> QED
        BY <1>1, <2>3, <4>1
    <3> QED
      BY <1>2, <3>1, <3>2
  <2> QED
    BY <1>1, <2>2, <2>3, <2>4, EntriesAre
<1>5. ASSUME NEW key \in DOMAIN E(s), key \notin DOMAIN E(t)
      PROVE  E(u)[key] = E(s)[key]
  <2>1. PICK i \in Setters(s, key) : \A j \in Setters(s, key) : j <= i
    BY EntriesAre
  <2>2. E(s)[key] = ValueOf(s[i])
    BY <2>1, EntriesAre
  <2>3. Setters(t, key) = {}
    BY <1>5, EntriesAre
  <2>4. i \in Setters(u, key) /\ u[i] = s[i]
    BY <1>1, <1>2, <2>1
  <2>5. \A j \in Setters(u, key) : j <= i
    BY <1>2, <2>1, <2>3
  <2> QED
    BY <1>1, <2>2, <2>4, <2>5, EntriesAre
<1>6. E(u) = [key \in DOMAIN E(u) |-> E(u)[key]]
  BY <1>1, EntriesAre
<1>7. DOMAIN E(u) = DOMAIN E(s) \cup DOMAIN E(t)
  BY <1>3
<1>8. E(u) = Overlay(E(s), E(t))
  <2> HIDE DEF E
  <2> QED
    BY <1>4, <1>5, <1>6, <1>7 DEF Overlay
<1> QED
  BY <1>8 DEF u

\* No transactions set no entries.
LEMMA EntriesOfNone == EntriesOf(<<>>) = NoEntries
<1>1. <<>> \in Seq({}) /\ \A key : Setters(<<>>, key) = {}
  BY DEF Setters
<1>2. /\ EntriesOf(<<>>) = [key \in DOMAIN EntriesOf(<<>>) |-> EntriesOf(<<>>)[key]]
      /\ DOMAIN EntriesOf(<<>>) = {}
  BY <1>1, EntriesAre
<1> QED
  BY <1>2 DEF NoEntries

\* One transaction sets its entry if it is valid, and none if it is not.
LEMMA EntriesOfOne ==
  ASSUME NEW X, NEW tx \in X
  PROVE  EntriesOf(<<tx>>) =
           IF isValid(tx) = 0 THEN [k \in {KeyOf(tx)} |-> ValueOf(tx)] ELSE NoEntries
<1>1. <<tx>> \in Seq(X) /\ Len(<<tx>>) = 1 /\ <<tx>>[1] = tx
  OBVIOUS
<1>2. \A key : Setters(<<tx>>, key) =
        IF isValid(tx) = 0 /\ KeyOf(tx) = key THEN {1} ELSE {}
  BY <1>1 DEF Setters
<1>3. /\ EntriesOf(<<tx>>) = [key \in DOMAIN EntriesOf(<<tx>>) |-> EntriesOf(<<tx>>)[key]]
      /\ DOMAIN EntriesOf(<<tx>>) = IF isValid(tx) = 0 THEN {KeyOf(tx)} ELSE {}
  BY <1>1, <1>2, EntriesAre
<1>4. ASSUME isValid(tx) = 0
      PROVE  EntriesOf(<<tx>>)[KeyOf(tx)] = ValueOf(tx)
  <2>1. Setters(<<tx>>, KeyOf(tx)) = {1}
    BY <1>2, <1>4
  <2>2. 1 \in Setters(<<tx>>, KeyOf(tx)) /\ \A j \in Setters(<<tx>>, KeyOf(tx)) : j <= 1
    BY <2>1
  <2>3. EntriesOf(<<tx>>)[KeyOf(tx)] = ValueOf(<<tx>>[1])
    BY <1>1, <2>2, EntriesAre
  <2> QED
    BY <1>1, <2>3
<1> QED
  BY <1>3, <1>4 DEF NoEntries

\* No entries change nothing.
LEMMA OverlayNone ==
  ASSUME NEW m, m = [key \in DOMAIN m |-> m[key]]
  PROVE  Overlay(m, NoEntries) = m
<1>1. DOMAIN m \cup DOMAIN NoEntries = DOMAIN m /\ \A k \in DOMAIN m : k \notin DOMAIN NoEntries
  BY DEF NoEntries
<1>2. Overlay(m, NoEntries) = [key \in DOMAIN m |-> m[key]]
  BY <1>1 DEF Overlay
<1> QED
  BY <1>2

\* The state after one more block.
LEMMA MeaningOneMore ==
  ASSUME NEW X, NEW s \in Seq(Seq(X)), NEW b \in Seq(X)
  PROVE  MeaningOf(Append(s, b)) = Overlay(MeaningOf(s), EntriesOf(b))
<1> DEFINE f == FlattenSeq(s)
<1>1. f \in Seq(X) /\ FlattenSeq(Append(s, b)) = f \o b
  BY FlattenOneMore, FlattenType
<1> HIDE DEF f
<1>2. EntriesOf(f \o b) = Overlay(EntriesOf(f), EntriesOf(b))
  BY <1>1, EntriesOfBoth
<1> QED
  BY <1>1, <1>2 DEF MeaningOf, f

-----------------------------------------------------------------------------
(***************************************************************************)
(* KVNode: blocks, crashes and replays.                                    *)
(***************************************************************************)

\* While a block is executed the open transaction has what the part executed so far sets.
BlockOpen ==
  phase \in {"executing", "executed"} =>
    /\ onGoingBlock = "open" /\ done < Len(chain) /\ req = chain[done + 1]
    /\ \A i \in 1..Len(codes) : codes[i] = isValid(req[i])
    /\ writes = EntriesOf(SubSeq(req, 1, Len(codes)))
    /\ phase = "executed" => Len(codes) = Len(req)

NodeInv == NodeTypeOK /\ BlockOpen /\ ReplayConverges

\* The keys of a chain's state stay when it gets longer.
LEMMA KeysStay ==
  ASSUME NEW X, NEW c \in Seq(Seq(X)), NEW h \in 0..Len(c), NEW g \in h..Len(c)
  PROVE  DOMAIN MeaningOf(SubSeq(c, 1, h)) \subseteq DOMAIN MeaningOf(SubSeq(c, 1, g))
<1> DEFINE Keys(n) == DOMAIN MeaningOf(SubSeq(c, 1, n))
           U == {n \in Nat : h + n <= Len(c) => Keys(h) \subseteq Keys(h + n)}
<1>0. Len(c) \in Nat
  BY LenProperties
<1>1. 0 \in U
  <2>1. h + 0 = h
    OBVIOUS
  <2> QED
    BY <2>1
<1>2. ASSUME NEW n \in Nat, n \in U
      PROVE  n + 1 \in U
  <2> SUFFICES ASSUME h + (n + 1) <= Len(c)
               PROVE  Keys(h) \subseteq Keys(h + (n + 1))
    OBVIOUS
  <2> DEFINE m == h + n
  <2>1. m \in Nat /\ m + 1 <= Len(c) /\ h + (n + 1) = m + 1
    BY <1>0
  <2>2. Keys(h) \subseteq Keys(m)
    BY <1>0, <1>2
  <2> HIDE DEF m
  <2>3. /\ SubSeq(c, 1, m) \in Seq(Seq(X)) /\ c[m + 1] \in Seq(X)
        /\ SubSeq(c, 1, m + 1) = Append(SubSeq(c, 1, m), c[m + 1])
    BY <1>0, <2>1, PrefixOneMore
  <2>4. Keys(m) \subseteq Keys(m + 1)
    <3>1. MeaningOf(SubSeq(c, 1, m + 1)) =
            Overlay(MeaningOf(SubSeq(c, 1, m)), EntriesOf(c[m + 1]))
      BY <2>3, MeaningOneMore
    <3>2. \A a, b : DOMAIN a \subseteq DOMAIN Overlay(a, b)
      BY DEF Overlay
    <3> QED
      BY <3>1, <3>2
  <2> QED
    BY <2>1, <2>2, <2>4
<1>3. g - h \in Nat /\ h + (g - h) = g
  BY <1>0
<1>4. g - h \in U
  <2> HIDE DEF U
  <2> QED
    BY <1>1, <1>2, <1>3, InductionOnNat
<1> QED
  BY <1>0, <1>3, <1>4

\* A valid transaction has a key and a value.
LEMMA KeyAndValue ==
  ASSUME NEW tx \in Seq(Char)
  PROVE  /\ isValid(tx) \in {0, 1}
         /\ isValid(tx) = 0 => KeyOf(tx) \in Seq(Char) /\ ValueOf(tx) \in Seq(Char)
<1>1. isValid(tx) \in {0, 1}
  BY DEF isValid
<1>2. ASSUME isValid(tx) = 0
      PROVE  KeyOf(tx) \in Seq(Char) /\ ValueOf(tx) \in Seq(Char)
  <2>1. Len(tx) \in Nat /\ \A i \in 1..Len(tx) : tx[i] \in Char
    BY LenProperties, ElementOfSeq
  <2>2. EqAt(tx) # {} /\ EqAt(tx) \subseteq 1..Len(tx)
    <3>1. Cardinality(EqAt(tx)) = 1 /\ Cardinality({}) = 0
      BY <1>2, FS_EmptySet DEF isValid
    <3> QED
      BY <3>1 DEF EqAt
  <2>3. FirstEq(tx) \in EqAt(tx)
    <3>1. \E i \in EqAt(tx) : \A j \in EqAt(tx) : i <= j
      <4>1. EqAt(tx) \subseteq Nat
        BY <2>2
      <4> QED
        BY <2>2, <4>1, FirstExists
    <3> QED
      BY <3>1 DEF FirstEq
  <2>4. FirstEq(tx) \in 1..Len(tx)
    BY <2>2, <2>3
  <2>5. SubSeq(tx, 1, FirstEq(tx) - 1) \in Seq(Char)
    <3>1. \A i \in 1..(FirstEq(tx) - 1) : tx[i] \in Char
      BY <2>1, <2>4
    <3> QED
      BY <2>4, <3>1, SubSeqProperties
  <2>6. SubSeq(tx, FirstEq(tx) + 1, Len(tx)) \in Seq(Char)
    <3>1. \A i \in (FirstEq(tx) + 1)..Len(tx) : tx[i] \in Char
      BY <2>1, <2>4
    <3> QED
      BY <2>1, <2>4, <3>1, SubSeqProperties
  <2> QED
    BY <2>5, <2>6 DEF KeyOf, ValueOf
<1> QED
  BY <1>1, <1>2

\* Entries over entries are entries.
LEMMA OverlayIsEntries ==
  ASSUME NEW m, NEW w, IsEntries(m), IsEntries(w)
  PROVE  IsEntries(Overlay(m, w))
  BY DEF IsEntries, Overlay

\* The chain and its states.
LEMMA ChainTypes ==
  ASSUME NodeTypeOK
  PROVE  /\ chain \in Seq(Seq(Seq(Char))) /\ Len(chain) \in Nat
         /\ \A h \in 1..Len(chain) : chain[h] \in Blocks /\ chain[h] \in Seq(Seq(Char))
         /\ done \in Nat /\ best \in Nat /\ done <= best /\ best <= Len(chain)
<1>1. chain \in Seq(Blocks) /\ done \in 0..best /\ best \in 0..Len(chain)
  BY DEF NodeTypeOK
<1>2. chain \in Seq(Seq(Seq(Char)))
  BY <1>1, BlocksOfTxs, SeqMonotonic
<1>3. Len(chain) \in Nat /\ \A h \in 1..Len(chain) : chain[h] \in Blocks
  BY <1>1, LenProperties, ElementOfSeq
<1> QED
  BY <1>1, <1>2, <1>3, BlocksOfTxs

\* The state at each height follows from the one before.
LEMMA StateOneMore ==
  ASSUME NodeTypeOK, NEW h \in Nat, h + 1 <= Len(chain)
  PROVE  StateAt(h + 1) = Overlay(StateAt(h), EntriesOf(chain[h + 1]))
<1>1. chain \in Seq(Seq(Seq(Char)))
  BY ChainTypes
<1>2. /\ SubSeq(chain, 1, h) \in Seq(Seq(Seq(Char))) /\ chain[h + 1] \in Seq(Seq(Char))
      /\ SubSeq(chain, 1, h + 1) = Append(SubSeq(chain, 1, h), chain[h + 1])
  BY <1>1, PrefixOneMore
<1> QED
  BY <1>2, MeaningOneMore DEF StateAt

\* A key that is in one state is in every later one.
LEMMA StateKeysStay ==
  ASSUME NodeTypeOK, NEW h \in Nat, NEW g \in Nat, h <= g, g <= Len(chain)
  PROVE  DOMAIN StateAt(h) \subseteq DOMAIN StateAt(g)
<1>1. chain \in Seq(Seq(Seq(Char))) /\ h \in 0..Len(chain) /\ g \in h..Len(chain)
  BY ChainTypes
<1> QED
  BY <1>1, KeysStay DEF StateAt

\* The state before the first block.
LEMMA StateAtNone == StateAt(0) = NoEntries
<1>1. SubSeq(chain, 1, 0) = <<>>
  BY SubSeqEmpty
<1> QED
  BY <1>1, FlattenNone, EntriesOfNone DEF StateAt, MeaningOf

\* Every state is a function of its keys.
LEMMA StateIsAFunction ==
  ASSUME NodeTypeOK, NEW h \in Nat, h <= Len(chain)
  PROVE  StateAt(h) = [key \in DOMAIN StateAt(h) |-> StateAt(h)[key]]
<1>1. SubSeq(chain, 1, h) \in Seq(Seq(Seq(Char)))
  <2>1. \A i \in 1..h : chain[i] \in Seq(Seq(Char))
    BY ChainTypes
  <2> QED
    BY <2>1, SubSeqProperties
<1>2. FlattenSeq(SubSeq(chain, 1, h)) \in Seq(Seq(Char))
  BY <1>1, FlattenType
<1> QED
  BY <1>2, EntriesAre DEF StateAt, MeaningOf

\* The invariant holds at first.
LEMMA NodeInvAtFirst == NodeInit => NodeInv
<1> SUFFICES ASSUME NodeInit
             PROVE  NodeInv
  OBVIOUS
<1>1. NodeTypeOK
  <2>1. <<>> \in Seq(Seq(Char)) /\ <<>> \in Seq({0, 1}) /\ <<>> \in Seq(Blocks) /\ Len(<<>>) = 0
    OBVIOUS
  <2> QED
    BY <2>1, NodeBounds DEF NodeInit, KVInit, NodeTypeOK, IsEntries, NoEntries
<1>2. ReplayConverges
  BY StateAtNone DEF NodeInit, KVInit, ReplayConverges, NoEntries
<1>3. BlockOpen
  BY DEF NodeInit, BlockOpen
<1> QED
  BY <1>1, <1>2, <1>3 DEF NodeInv

\* Blocks that are decided change no part of the chain and no state there has been.
LEMMA PrefixStays ==
  ASSUME NodeTypeOK, chain' = chain \/ \E b \in Blocks : chain' = Append(chain, b),
         NEW h \in Nat, h <= Len(chain)
  PROVE  SubSeq(chain', 1, h) = SubSeq(chain, 1, h)
<1>1. ASSUME NEW b \in Blocks, chain' = Append(chain, b)
      PROVE  SubSeq(chain', 1, h) = SubSeq(chain, 1, h)
  <2>1. chain \in Seq(Blocks) /\ Len(chain) \in Nat
    BY LenProperties DEF NodeTypeOK
  <2>2. chain' = chain \o <<b>> /\ <<b>> \in Seq(Blocks)
    BY <1>1, <2>1, AppendIsConcat
  <2>3. CASE h = 0
    BY <2>3, SubSeqEmpty
  <2>4. CASE h # 0
    <3>1. 1 \in 1..Len(chain) /\ h \in 1..Len(chain)
      BY <2>1, <2>4
    <3> QED
      BY <2>1, <2>2, <3>1, SubSeqOfConcat1
  <2> QED
    BY <2>3, <2>4
<1> QED
  BY <1>1

\* No state there has been is changed, either.
LEMMA StatesStay ==
  ASSUME NodeTypeOK, chain' = chain \/ \E b \in Blocks : chain' = Append(chain, b),
         NEW h \in Nat, h <= Len(chain)
  PROVE  StateAt(h)' = StateAt(h)
<1>1. SubSeq(chain', 1, h) = SubSeq(chain, 1, h)
  BY PrefixStays
<1> QED
  BY <1>1 DEF StateAt

\* A step that commits nothing, and goes on with the replay or starts it again.
LEMMA ReplayStays ==
  ASSUME NodeInv, UNCHANGED <<db, best>>, done' = done \/ done' = 0,
         chain' = chain \/ \E b \in Blocks : chain' = Append(chain, b)
  PROVE  ReplayConverges'
<1>1. NodeTypeOK /\ ReplayConverges
  BY DEF NodeInv
<1>2. done \in Nat /\ best \in Nat /\ done <= best /\ best <= Len(chain)
  BY <1>1, ChainTypes
<1>3. \A h \in 0..best : StateAt(h)' = StateAt(h)
  BY <1>1, <1>2, StatesStay, ChainTypes
<1>4. DOMAIN db' = DOMAIN StateAt(best)'
  BY <1>1, <1>2, <1>3 DEF ReplayConverges
<1>5. ASSUME NEW key \in DOMAIN db
      PROVE  \E h \in 0..best : key \in DOMAIN StateAt(h) /\ db[key] = StateAt(h)[key]
  BY <1>1, <1>2 DEF ReplayConverges
<1>6. CASE done' = done
  <2>1. StateAt(done)' = StateAt(done)
    BY <1>2, <1>3, <1>6
  <2> QED
    BY <1>1, <1>3, <1>4, <1>6, <2>1 DEF ReplayConverges
<1>7. CASE done' = 0
  <2>1. DOMAIN StateAt(done)' = {}
    <3>1. StateAt(done)' = StateAt(0)
      BY <1>2, <1>3, <1>7
    <3> QED
      BY <3>1, StateAtNone DEF NoEntries
  <2> QED
    BY <1>3, <1>4, <1>5, <2>1 DEF ReplayConverges
<1> QED
  BY <1>6, <1>7

\* The commit of a block, the first time or again.
LEMMA ReplayGoesOn ==
  ASSUME NodeInv, Commit
  PROVE  ReplayConverges'
<1> DEFINE d == done + 1
           b == EntriesOf(chain[d])
<1>1. NodeTypeOK /\ ReplayConverges /\ BlockOpen
  BY DEF NodeInv
<1>2. /\ done \in Nat /\ best \in Nat /\ done <= best /\ best <= Len(chain)
      /\ Len(chain) \in Nat
  BY <1>1, ChainTypes
<1>3. /\ done < Len(chain) /\ req = chain[d] /\ Len(codes) = Len(req)
      /\ writes = EntriesOf(SubSeq(req, 1, Len(codes)))
  BY <1>1 DEF Commit, BlockOpen
<1>4. d \in Nat /\ d <= Len(chain) /\ chain[d] \in Seq(Seq(Char))
  BY <1>1, <1>2, <1>3, ChainTypes
<1>5. writes = b
  BY <1>3, <1>4, SubSeqFull
<1>6. /\ db' = Overlay(db, b) /\ done' = d /\ chain' = chain
      /\ best' = IF d > best THEN d ELSE best
  BY <1>5 DEF Commit, CommitOpen
<1>7. StateAt(d) = Overlay(StateAt(done), b)
  BY <1>1, <1>2, <1>4, StateOneMore
<1>8. \A h : StateAt(h)' = StateAt(h)
  BY <1>6 DEF StateAt
<1> HIDE DEF b
<1>9. /\ DOMAIN db' = DOMAIN db \cup DOMAIN b
      /\ DOMAIN StateAt(d) = DOMAIN StateAt(done) \cup DOMAIN b
      /\ \A key \in DOMAIN db' : db'[key] = IF key \in DOMAIN b THEN b[key] ELSE db[key]
      /\ \A key \in DOMAIN StateAt(d) :
           StateAt(d)[key] = IF key \in DOMAIN b THEN b[key] ELSE StateAt(done)[key]
  BY <1>6, <1>7 DEF Overlay
<1>10. /\ DOMAIN db = DOMAIN StateAt(best)
       /\ \A key \in DOMAIN db :
            IF key \in DOMAIN StateAt(done) THEN db[key] = StateAt(done)[key]
            ELSE \E h \in 0..best : key \in DOMAIN StateAt(h) /\ db[key] = StateAt(h)[key]
  BY <1>1 DEF ReplayConverges
<1>11. DOMAIN db' = DOMAIN StateAt(best')
  <2>1. CASE d > best
    <3>1. done = best /\ best' = d
      BY <1>2, <1>6, <2>1
    <3> QED
      BY <1>9, <1>10, <3>1
  <2>2. CASE ~(d > best)
    <3>1. best' = best /\ d <= best
      BY <1>2, <1>4, <1>6, <2>2
    <3>2. DOMAIN StateAt(d) \subseteq DOMAIN StateAt(best)
      BY <1>1, <1>2, <1>4, <3>1, StateKeysStay
    <3> QED
      BY <1>9, <1>10, <3>1, <3>2
  <2> QED
    BY <2>1, <2>2
<1>12. DOMAIN StateAt(done) \subseteq DOMAIN db
  BY <1>1, <1>2, <1>10, StateKeysStay
<1>13. ASSUME NEW key \in DOMAIN db'
       PROVE  IF key \in DOMAIN StateAt(d) THEN db'[key] = StateAt(d)[key]
              ELSE \E h \in 0..best' : key \in DOMAIN StateAt(h) /\ db'[key] = StateAt(h)[key]
  <2>1. CASE key \in DOMAIN StateAt(d)
    BY <1>9, <1>10, <1>12, <2>1
  <2>2. CASE key \notin DOMAIN StateAt(d)
    <3>1. db'[key] = db[key] /\ key \in DOMAIN db /\ key \notin DOMAIN StateAt(done)
      BY <1>9, <2>2
    <3>2. 0..best \subseteq 0..best'
      BY <1>2, <1>4, <1>6
    <3> QED
      BY <1>10, <2>2, <3>1, <3>2
  <2> QED
    BY <2>1, <2>2
<1> QED
  BY <1>6, <1>8, <1>11, <1>13 DEF ReplayConverges

\* The execution of one transaction: its code, and its entry if it is valid.
LEMMA ExecTxKeeps ==
  ASSUME NodeInv, ExecTx
  PROVE  NodeTypeOK' /\ BlockOpen'
<1> DEFINE n == Len(codes)
           tx == req[n + 1]
<1>1. /\ NodeTypeOK /\ phase = "executing" /\ onGoingBlock = "open"
      /\ done < Len(chain) /\ req = chain[done + 1]
      /\ \A i \in 1..Len(codes) : codes[i] = isValid(req[i])
      /\ writes = EntriesOf(SubSeq(req, 1, n))
  BY DEF NodeInv, BlockOpen, ExecTx
<1>2. /\ req \in Seq(Seq(Char)) /\ Len(req) \in Nat /\ codes \in Seq({0, 1}) /\ n \in Nat
      /\ n < Len(req) /\ IsEntries(writes)
  BY <1>1, LenProperties DEF NodeTypeOK, ExecTx, SkipInvalid, SetEntry, MoreToExecute
<1>3. tx \in Seq(Char)
  BY <1>2, ElementOfSeq
<1>4. /\ codes' = Append(codes, isValid(tx)) /\ UNCHANGED <<db, onGoingBlock, req, cometVars>>
      /\ writes' = IF isValid(tx) = 0 THEN Overlay(writes, [k \in {KeyOf(tx)} |-> ValueOf(tx)])
                   ELSE writes
  BY DEF ExecTx, SkipInvalid, SetEntry, NextTx
<1>5. /\ isValid(tx) \in {0, 1}
      /\ isValid(tx) = 0 => IsEntries([k \in {KeyOf(tx)} |-> ValueOf(tx)])
  BY <1>3, KeyAndValue DEF IsEntries
<1>6. /\ codes' \in Seq({0, 1}) /\ Len(codes') = n + 1
      /\ \A i \in 1..n : codes'[i] = codes[i]
      /\ codes'[n + 1] = isValid(tx)
  BY <1>2, <1>4, <1>5, AppendProperties
<1>7. IsEntries(writes')
  BY <1>2, <1>4, <1>5, OverlayIsEntries
<1>8. NodeTypeOK'
  BY <1>1, <1>2, <1>4, <1>6, <1>7 DEF NodeTypeOK, cometVars
<1>9. writes' = EntriesOf(SubSeq(req, 1, n + 1))
  <2> DEFINE s == SubSeq(req, 1, n)
  <2>1. /\ s \in Seq(Seq(Char)) /\ SubSeq(req, 1, n + 1) = Append(s, tx)
        /\ Append(s, tx) = s \o <<tx>> /\ <<tx>> \in Seq(Seq(Char))
    BY <1>2, <1>3, PrefixOneMore, AppendIsConcat
  <2> HIDE DEF s, tx
  <2>2. EntriesOf(s \o <<tx>>) = Overlay(EntriesOf(s), EntriesOf(<<tx>>))
    BY <2>1, EntriesOfBoth
  <2>3. EntriesOf(<<tx>>) = IF isValid(tx) = 0 THEN [k \in {KeyOf(tx)} |-> ValueOf(tx)]
                            ELSE NoEntries
    BY <1>3, EntriesOfOne
  <2>4. EntriesOf(s) = [key \in DOMAIN EntriesOf(s) |-> EntriesOf(s)[key]]
    BY <2>1, EntriesAre
  <2>5. Overlay(EntriesOf(s), NoEntries) = EntriesOf(s)
    BY <2>4, OverlayNone
  <2>6. writes = EntriesOf(s)
    BY <1>1 DEF s
  <2> QED
    BY <1>4, <2>1, <2>2, <2>3, <2>5, <2>6
<1>10. ASSUME NEW i \in 1..(n + 1)
       PROVE  codes'[i] = isValid(req[i])
  <2>1. CASE i = n + 1
    BY <1>6, <2>1
  <2>2. CASE i # n + 1
    <3>1. i \in 1..n
      BY <1>2, <2>2
    <3>2. codes'[i] = codes[i] /\ codes[i] = isValid(req[i])
      BY <1>1, <1>6, <3>1
    <3> QED
      BY <3>2
  <2> QED
    BY <2>1, <2>2
<1> HIDE DEF n, tx
<1> QED
  BY <1>1, <1>4, <1>6, <1>8, <1>9, <1>10 DEF BlockOpen, cometVars

\* Every step keeps it.
LEMMA NodeInvStep == NodeInv /\ [NodeNext]_nodeVars => NodeInv'
<1> SUFFICES ASSUME NodeInv, [NodeNext]_nodeVars
             PROVE  NodeInv'
  OBVIOUS
<1>1. NodeTypeOK /\ BlockOpen /\ ReplayConverges
  BY DEF NodeInv
<1>2. /\ done \in Nat /\ best \in Nat /\ done <= best /\ best <= Len(chain)
      /\ Len(chain) \in Nat /\ chain \in Seq(Blocks)
  BY <1>1, ChainTypes DEF NodeTypeOK
<1>3. CASE Start
  <2>1. ReplayConverges'
    BY <1>3, ReplayStays DEF Start, kvVars, InfoHeight
  <2>2. NodeTypeOK' /\ BlockOpen'
    BY <1>1, <1>2, <1>3 DEF Start, kvVars, InfoHeight, NodeTypeOK, BlockOpen
  <2> QED
    BY <2>1, <2>2 DEF NodeInv
<1>4. CASE Decide
  <2>1. PICK b \in Blocks : chain' = Append(chain, b)
    BY <1>4 DEF Decide, PrepareProposal
  <2>2. ReplayConverges'
    BY <1>4, <2>1, ReplayStays DEF Decide, kvVars
  <2>3. chain' \in Seq(Blocks) /\ Len(chain') = Len(chain) + 1
    BY <1>2, <2>1, AppendProperties
  <2>4. NodeTypeOK' /\ BlockOpen'
    BY <1>1, <1>2, <1>4, <2>3 DEF Decide, kvVars, NodeTypeOK, BlockOpen
  <2> QED
    BY <2>2, <2>4 DEF NodeInv
<1>5. CASE FinalizeBlock
  <2>1. ReplayConverges'
    BY <1>5, ReplayStays DEF FinalizeBlock, OpenBlock
  <2>2. /\ req' = chain[done + 1] /\ codes' = <<>> /\ writes' = NoEntries
        /\ onGoingBlock' = "open" /\ db' = db /\ phase' = "executing" /\ done < Len(chain)
        /\ UNCHANGED <<chain, done, best, crashes>>
    BY <1>5 DEF FinalizeBlock, OpenBlock
  <2>3. /\ req' \in Seq(Seq(Char)) /\ Len(req') \in Nat
        /\ codes' \in Seq({0, 1}) /\ Len(codes') = 0
        /\ IsEntries(NoEntries)
    <3>1. done + 1 \in 1..Len(chain)
      BY <1>2, <2>2
    <3>2. chain[done + 1] \in Seq(Seq(Char))
      BY <1>1, <3>1, ChainTypes
    <3> QED
      BY <2>2, <3>2, LenProperties DEF IsEntries, NoEntries
  <2>4. writes' = EntriesOf(SubSeq(req', 1, Len(codes')))
    <3>1. SubSeq(req', 1, 0) = <<>>
      BY SubSeqEmpty
    <3> QED
      BY <2>2, <2>3, <3>1, EntriesOfNone
  <2>5. NodeTypeOK'
    BY <1>1, <2>2, <2>3 DEF NodeTypeOK
  <2>6. BlockOpen'
    BY <2>2, <2>3, <2>4 DEF BlockOpen
  <2> QED
    BY <2>1, <2>5, <2>6 DEF NodeInv
<1>6. CASE ExecTx
  <2>1. ReplayConverges'
    BY <1>6, ReplayStays DEF ExecTx, SkipInvalid, SetEntry, cometVars
  <2> QED
    BY <1>6, <2>1, ExecTxKeeps DEF NodeInv
<1>7. CASE ExecPanics \/ BlockExecuted \/ CometCrash \/ Stop \/ UNCHANGED nodeVars
  <2>1. UNCHANGED <<kvVars, chain, done, best>>
    BY <1>7 DEF ExecPanics, PanicOnSet, BlockExecuted, CometCrash, Stop, nodeVars, cometVars
  <2>2. ReplayConverges'
    BY <2>1, ReplayStays DEF kvVars
  <2>3. /\ phase' \in {"down", "ready", "executing", "executed"}
        /\ phase' \in {"executing", "executed"} => phase \in {"executing", "executed"}
        /\ phase' = "executed" => phase = "executed" \/ ~MoreToExecute
    BY <1>1, <1>7 DEF ExecPanics, BlockExecuted, CometCrash, Stop, nodeVars, cometVars,
       NodeTypeOK
  <2>4. crashes' \in 0..MaxCrashes
    BY <1>1, <1>7, NodeBounds DEF ExecPanics, BlockExecuted, CometCrash, Stop, nodeVars,
       cometVars, NodeTypeOK
  <2>5. NodeTypeOK'
    BY <1>1, <2>1, <2>3, <2>4 DEF NodeTypeOK, kvVars
  <2>6. Len(codes) \in Nat /\ Len(req) \in Nat /\ Len(codes) <= Len(req)
    BY <1>1, LenProperties DEF NodeTypeOK
  <2>7. BlockOpen'
    BY <1>1, <2>1, <2>3, <2>6 DEF BlockOpen, kvVars, MoreToExecute
  <2> QED
    BY <2>2, <2>5, <2>7 DEF NodeInv
<1>8. CASE Commit
  <2>1. ReplayConverges'
    BY <1>8, ReplayGoesOn
  <2>2. done < Len(chain)
    BY <1>1, <1>8 DEF BlockOpen, Commit
  <2>3. done' \in 0..best' /\ best' \in 0..Len(chain)
    BY <1>2, <1>8, <2>2 DEF Commit
  <2>4. IsEntries(db')
    BY <1>1, <1>8, OverlayIsEntries DEF Commit, CommitOpen, NodeTypeOK
  <2>5. NodeTypeOK'
    BY <1>1, <1>8, <2>3, <2>4 DEF Commit, CommitOpen, NodeTypeOK
  <2>6. BlockOpen'
    BY <1>8 DEF Commit, BlockOpen
  <2> QED
    BY <2>1, <2>5, <2>6 DEF NodeInv
<1>9. CASE AppCrash
  <2>1. ReplayConverges'
    BY <1>9, ReplayStays DEF AppCrash, RestartApp
  <2>2. <<>> \in Seq(Seq(Char)) /\ <<>> \in Seq({0, 1}) /\ Len(<<>>) = 0 /\ IsEntries(NoEntries)
    BY DEF IsEntries, NoEntries
  <2>3. crashes' \in 0..MaxCrashes
    BY <1>1, <1>9, NodeBounds DEF AppCrash, NodeTypeOK
  <2>4. NodeTypeOK'
    BY <1>1, <1>9, <2>2, <2>3 DEF AppCrash, RestartApp, NodeTypeOK
  <2>5. BlockOpen'
    BY <1>9 DEF AppCrash, BlockOpen
  <2> QED
    BY <2>1, <2>4, <2>5 DEF NodeInv
<1> QED
  BY <1>3, <1>4, <1>5, <1>6, <1>7, <1>8, <1>9 DEF NodeNext

\* The invariant of the store and its node holds.
THEOREM NodeInvHolds == NodeSpec => []NodeInv
<1> QED
  BY NodeInvAtFirst, NodeInvStep, PTL DEF NodeSpec

\* The variables have their types: a transaction that isValid accepts splits into a key
\* and a value (property NodeTypeOK).
THEOREM NodeTypeCorrect == NodeSpec => []NodeTypeOK
<1>1. NodeInv => NodeTypeOK
  BY DEF NodeInv
<1> QED
  BY <1>1, NodeInvHolds, PTL

\* Whatever crashed when, the database has what the chain says (property
\* ReplayConverges), for every set of blocks and any number of crashes.
THEOREM ReplayConvergesHolds == NodeSpec => []ReplayConverges
<1>1. NodeInv => ReplayConverges
  BY DEF NodeInv
<1> QED
  BY <1>1, NodeInvHolds, PTL

\* Commit finds an open transaction (property CommitIsPossible).
THEOREM CommitIsPossibleHolds == NodeSpec => []CommitIsPossible
<1>1. NodeInv => CommitIsPossible
  BY DEF NodeInv, BlockOpen, CommitIsPossible
<1> QED
  BY <1>1, NodeInvHolds, PTL

\* There is one result for each transaction, with the code of CheckTx (property
\* OneResultPerTx).
THEOREM OneResultPerTxHolds == NodeSpec => []OneResultPerTx
<1>1. NodeInv => OneResultPerTx
  BY DEF NodeInv, BlockOpen, OneResultPerTx, CheckTx
<1> QED
  BY <1>1, NodeInvHolds, PTL

-----------------------------------------------------------------------------
(***************************************************************************)
(* The ledger.                                                             *)
(***************************************************************************)

\* Whoever is served sees the state after the newest block.
LEMMA ServedIsTheState ==
  NodeInv => Served = IF phase # "down" /\ done = best THEN {StateAt(best)} ELSE {}
<1> SUFFICES ASSUME NodeInv
             PROVE  Served = IF phase # "down" /\ done = best THEN {StateAt(best)} ELSE {}
  OBVIOUS
<1>1. /\ NodeTypeOK /\ ReplayConverges /\ best \in Nat /\ best <= Len(chain)
  BY ChainTypes DEF NodeInv
<1>2. ASSUME done = best
      PROVE  [key \in DOMAIN db |-> Query(key)] = StateAt(best)
  <2>1. /\ DOMAIN db = DOMAIN StateAt(best)
        /\ \A key \in DOMAIN db : Query(key) = StateAt(best)[key]
    BY <1>1, <1>2 DEF ReplayConverges, Query
  <2>2. StateAt(best) = [key \in DOMAIN StateAt(best) |-> StateAt(best)[key]]
    BY <1>1, StateIsAFunction
  <2> QED
    BY <2>1, <2>2
<1> QED
  BY <1>2 DEF Served

\* The store starts as a ledger does.
LEMMA LedgerAtFirst == NodeInit => L!LedgerInit
<1> SUFFICES ASSUME NodeInit
             PROVE  SubSeq(chain, 1, best) = <<>> /\ Served = {}
  BY DEF L!LedgerInit
<1> QED
  BY SubSeqEmpty DEF NodeInit, Served

\* A step commits a block to the ledger, suspends or resumes its service, or does nothing.
LEMMA LedgerStep ==
  NodeInv /\ NodeInv' /\ [NodeNext]_nodeVars => [L!LedgerNext]_(L!ledgerVars)
<1> SUFFICES ASSUME NodeInv, NodeInv', [NodeNext]_nodeVars
             PROVE  L!LedgerNext
  OBVIOUS
<1>1. /\ NodeTypeOK /\ BlockOpen /\ done \in Nat /\ best \in Nat /\ done <= best
      /\ best <= Len(chain)
  BY ChainTypes DEF NodeInv
<1>2. Served' = {} \/ Served' = {StateAt(best)'}
  <2>1. (NodeInv => Served = IF phase # "down" /\ done = best THEN {StateAt(best)} ELSE {})'
    BY ServedIsTheState, PTL
  <2> QED
    BY <2>1
<1>3. ASSUME best' = best, chain' = chain \/ \E b \in Blocks : chain' = Append(chain, b)
      PROVE  L!LedgerNext
  <2>1. SubSeq(chain', 1, best') = SubSeq(chain, 1, best)
    BY <1>1, <1>3, PrefixStays
  <2>2. CASE Served' = {}
    BY <2>1, <2>2 DEF L!LedgerNext, L!Suspend
  <2>3. CASE Served' = {StateAt(best)'}
    BY <2>1, <2>3 DEF L!LedgerNext, L!Resume, StateAt
  <2> QED
    BY <1>2, <2>2, <2>3
<1>4. CASE Commit
  <2>1. chain' = chain /\ phase = "executed" /\ done < Len(chain)
    BY <1>1, <1>4 DEF Commit, BlockOpen
  <2>2. CASE done + 1 > best
    <3>1. done = best /\ best' = best + 1 /\ done' = best' /\ phase' = "ready"
      BY <1>1, <1>4, <2>2 DEF Commit
    <3>2. Served # {} /\ Served' = {StateAt(best)'}
      <4>1. Served = {StateAt(best)}
        BY <2>1, <3>1, ServedIsTheState
      <4>2. (NodeInv => Served = IF phase # "down" /\ done = best THEN {StateAt(best)} ELSE {})'
        BY ServedIsTheState, PTL
      <4> QED
        BY <3>1, <4>1, <4>2
    <3>3. /\ SubSeq(chain', 1, best') = Append(SubSeq(chain, 1, best), chain[best + 1])
          /\ chain[best + 1] \in Blocks
      <4>1. best + 1 <= Len(chain) /\ chain \in Seq(Blocks)
        BY <1>1, <2>1, <3>1 DEF NodeTypeOK
      <4> QED
        BY <1>1, <2>1, <3>1, <4>1, PrefixOneMore
    <3> QED
      BY <3>2, <3>3 DEF L!LedgerNext, L!CommitBlock, StateAt
  <2>3. CASE ~(done + 1 > best)
    BY <1>3, <1>4, <2>1, <2>3 DEF Commit
  <2> QED
    BY <2>2, <2>3
<1>5. CASE ~Commit
  <2>1. best' = best /\ (chain' = chain \/ \E b \in Blocks : chain' = Append(chain, b))
    BY <1>5 DEF NodeNext, Start, Decide, PrepareProposal, FinalizeBlock, ExecTx, ExecPanics,
       BlockExecuted, AppCrash, CometCrash, Stop, nodeVars, cometVars
  <2> QED
    BY <1>3, <2>1
<1> QED
  BY <1>4, <1>5

\* The store implements a ledger (property ImplementsLedger): blocks take effect one by
\* one, as a whole and for good, and no query is answered from anything else.
THEOREM StoreImplementsLedger == NodeSpec => ImplementsLedger
<1> QED
  BY LedgerAtFirst, LedgerStep, NodeInvHolds, PTL DEF NodeSpec, ImplementsLedger, L!LedgerSpec
=============================================================================
