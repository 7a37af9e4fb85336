--------------------------- MODULE ErrGroupBulk_proofs ---------------------------
(***************************************************************************)
(* Theorems about the errgroup operations, for any number of items, slots  *)
(* of the semaphore and attempts.                                          *)
(***************************************************************************)
EXTENDS ErrGroupBulk, TLAPS, FiniteSetTheorems

GroupSpec == GroupInit /\ [][GroupNext]_groupVars

(***************************************************************************)
(* Why nil means handled.  An item that the cancelled ctx turned away, and *)
(* a clone that failed, has left its error with the group; and the counts  *)
(* of an operation are the numbers of items that ended that way.           *)
(***************************************************************************)
EndedAs(pc) == {i \in wanted : itemPC[i] = pc}

ItemsOK ==
    /\ \A i \in Items : itemPC[i] = "backoff" => attempts[i] < MaxAttempts
    /\ \A i \in Items : i \in wanted <=> itemPC[i] # "off"
    /\ groupPC = "nil" => ~groupErr /\ \A i \in wanted : itemPC[i] \in Final

ErrorsOK ==
    \A i \in Items :
        /\ itemPC[i] = "refused" => groupErr
        /\ itemPC[i] = "failed" /\ groupKind = "largescale" => groupErr
        /\ itemPC[i] \in {"backoff", "skipped"} => groupKind = "largescale"
        /\ itemPC[i] = "ok" /\ groupKind \in Refreshing => dirs[i] = "repo"

CountsOK ==
    /\ groupKind = "largescale" =>
         /\ counts.ok = Cardinality(EndedAs("ok"))
         /\ counts.skipped = Cardinality(EndedAs("skipped"))
         /\ counts.failed > 0 => groupErr
    /\ groupKind = "apply" =>
         /\ counts.ok = Cardinality(EndedAs("ok"))
         /\ counts.failed = Cardinality(EndedAs("failed"))

GroupInv == GroupTypeOK /\ ItemsOK /\ ErrorsOK /\ CountsOK

\* The items with a given end are finitely many.
LEMMA FiniteEnds ==
    ASSUME GroupTypeOK, NEW pc
    PROVE  IsFiniteSet(EndedAs(pc)) /\ Cardinality(EndedAs(pc)) \in Nat
  BY GroupAssumption, FS_Subset, FS_CardinalityType DEF GroupTypeOK, GroupAssumption, EndedAs

\* The initial states satisfy the invariant.
LEMMA GroupInitial == GroupInit => GroupInv
<1> SUFFICES ASSUME GroupInit PROVE GroupInv
    OBVIOUS
<1>1. GroupTypeOK
  <2>1. 0 \in 0 .. MaxAttempts /\ 0 \in Nat
    BY GroupAssumption DEF GroupAssumption
  <2> QED BY <2>1 DEF GroupInit, GroupTypeOK, Kinds, Refreshing
<1>2. ItemsOK /\ ErrorsOK /\ CountsOK
  BY DEF GroupInit, ItemsOK, ErrorsOK, CountsOK
<1> QED BY <1>1, <1>2 DEF GroupInv

\* The operation begins, or is refused before its group exists.
LEMMA GroupStarts == GroupInv /\ (GroupBegins \/ GroupRefused) => GroupInv'
<1> SUFFICES ASSUME GroupInv, GroupBegins \/ GroupRefused PROVE GroupInv'
    OBVIOUS
<1> USE DEF GroupInv
<1>1. dirs' \in [Items -> {"none", "plain", "repo"}]
  BY DEF GroupBegins, GroupRefused, Without, GroupTypeOK
<1>2. CASE GroupBegins
  <2>1. GroupTypeOK'
    <3>1. 0 \in 0 .. MaxAttempts /\ 0 \in Nat
      BY GroupAssumption DEF GroupAssumption
    <3>2. gCtxDone' \in BOOLEAN /\ progressOn' \in BOOLEAN
      BY <1>2 DEF GroupBegins
    <3>3. groupPC' \in {"idle", "run", "nil", "error"}
      BY <1>2 DEF GroupBegins
    <3> QED BY <1>1, <1>2, <3>1, <3>2, <3>3 DEF GroupBegins, GroupTypeOK
  <2>2. ItemsOK' /\ ErrorsOK'
    BY <1>2 DEF GroupBegins, GroupTypeOK, ItemsOK, ErrorsOK, Final
  <2>3. \A pc \in {"ok", "failed", "skipped"} : EndedAs(pc)' = {}
    BY <1>2 DEF GroupBegins, EndedAs
  <2>4. CountsOK'
    BY <1>2, <2>3, FS_EmptySet DEF GroupBegins, CountsOK
  <2> QED BY <2>1, <2>2, <2>4
<1>3. CASE GroupRefused
  <2>1. GroupTypeOK'
    BY <1>1, <1>3 DEF GroupRefused, GroupTypeOK
  <2>2. ItemsOK' /\ ErrorsOK'
    BY <1>3 DEF GroupRefused, GroupTypeOK, ItemsOK, ErrorsOK
  <2>3. \A pc \in {"ok", "failed", "skipped"} : EndedAs(pc)' = {}
    BY <1>3 DEF GroupRefused, EndedAs
  <2>4. CountsOK'
    BY <1>3, <2>3, FS_EmptySet DEF GroupRefused, CountsOK
  <2> QED BY <2>1, <2>2, <2>4
<1> QED BY <1>2, <1>3

\* What moving one item on does to the sets that are counted.
LEMMA EndsMove ==
    ASSUME GroupInv, NEW i \in wanted, NEW x, Move(i, x), UNCHANGED wanted
    PROVE  /\ \A j \in Items \ {i} : itemPC'[j] = itemPC[j]
           /\ itemPC'[i] = x
           /\ \A pc : pc # itemPC[i] =>
                Cardinality(EndedAs(pc))' = Cardinality(EndedAs(pc)) + (IF pc = x THEN 1 ELSE 0)
<1>1. (\A j \in Items \ {i} : itemPC'[j] = itemPC[j]) /\ itemPC'[i] = x
  BY DEF GroupInv, GroupTypeOK, Move
<1>2. ASSUME NEW pc, pc # itemPC[i]
      PROVE  Cardinality(EndedAs(pc))' = Cardinality(EndedAs(pc)) + (IF pc = x THEN 1 ELSE 0)
  <2>1. IsFiniteSet(EndedAs(pc)) /\ Cardinality(EndedAs(pc)) \in Nat /\ i \notin EndedAs(pc)
    BY <1>2, FiniteEnds DEF GroupInv, EndedAs
  <2>2. EndedAs(pc)' = IF pc = x THEN EndedAs(pc) \union {i} ELSE EndedAs(pc)
    BY <1>1, <1>2 DEF GroupInv, GroupTypeOK, EndedAs
  <2> QED BY <2>1, <2>2, FS_AddElement
<1> QED BY <1>1, <1>2

\* A step of one item leaves the accounts of the others alone.
LEMMA ItemMoves ==
    ASSUME GroupInv, NEW i \in Items, ItemStep(i)
    PROVE  GroupInv'
<1> USE DEF GroupInv
<1>1. i \in wanted /\ itemPC[i] \in {"waiting", "running", "backoff"}
  BY DEF ItemStep, AcquireSemaphore, AcquireFails, SkipItem, ItemSucceeds, RefreshFails, ApplyFails,
         CloneFails, BackoffOver, BackoffCancelled, ItemsOK
<1>2. groupPC # "nil"
  BY <1>1 DEF ItemsOK, Final
<1>3. PICK x \in {"running", "backoff"} \union Final : Move(i, x)
  BY DEF ItemStep, AcquireSemaphore, AcquireFails, SkipItem, ItemSucceeds, RefreshFails, ApplyFails,
         CloneFails, BackoffOver, BackoffCancelled, Leave, ReturnError, Final
<1>4. UNCHANGED <<groupKind, groupPC, wanted>>
  BY DEF ItemStep, AcquireSemaphore, AcquireFails, SkipItem, ItemSucceeds, RefreshFails, ApplyFails,
         CloneFails, BackoffOver, BackoffCancelled
<1>5. (\A j \in Items \ {i} : itemPC'[j] = itemPC[j]) /\ itemPC'[i] = x
  BY <1>1, <1>3, <1>4, EndsMove
<1>6. itemPC' \in [Items -> {"off", "waiting", "running", "backoff"} \union Final]
  BY <1>3 DEF GroupTypeOK, Move
<1>7. \A pc \in {"ok", "failed", "skipped"} :
        Cardinality(EndedAs(pc))' = Cardinality(EndedAs(pc)) + (IF pc = x THEN 1 ELSE 0)
  BY <1>1, <1>3, <1>4, EndsMove
<1>8. \A pc : Cardinality(EndedAs(pc)) \in Nat
  BY FiniteEnds
<1>9. CASE AcquireSemaphore(i)
  <2>1. attempts' \in [Items -> 0 .. MaxAttempts] /\ x = "running"
    BY <1>5, <1>9, GroupAssumption DEF AcquireSemaphore, Move, GroupTypeOK, GroupAssumption
  <2>2. GroupTypeOK'
    BY <1>6, <1>9, <2>1 DEF AcquireSemaphore, GroupTypeOK
  <2>3. ItemsOK' /\ ErrorsOK'
    BY <1>1, <1>2, <1>5, <1>9, <2>1 DEF AcquireSemaphore, GroupTypeOK, ItemsOK, ErrorsOK
  <2>4. CountsOK'
    BY <1>7, <1>8, <1>9, <2>1 DEF AcquireSemaphore, CountsOK
  <2> QED BY <2>2, <2>3, <2>4
<1>10. CASE BackoffOver(i)
  <2>1. attempts' \in [Items -> 0 .. MaxAttempts] /\ x = "running"
    BY <1>5, <1>10, GroupAssumption DEF BackoffOver, Move, GroupTypeOK, GroupAssumption, ItemsOK
  <2>2. GroupTypeOK'
    BY <1>6, <1>10, <2>1 DEF BackoffOver, GroupTypeOK
  <2>3. ItemsOK' /\ ErrorsOK'
    BY <1>1, <1>2, <1>5, <1>10, <2>1 DEF BackoffOver, GroupTypeOK, ItemsOK, ErrorsOK
  <2>4. CountsOK'
    BY <1>7, <1>8, <1>10, <2>1 DEF BackoffOver, CountsOK
  <2> QED BY <2>2, <2>3, <2>4
<1>11. CASE CloneFails(i) /\ attempts[i] < MaxAttempts
  <2>1. x = "backoff" /\ UNCHANGED <<dirs, attempts, groupErr, gCtxDone, counts, progressOn>>
    BY <1>5, <1>11 DEF CloneFails, Move, GroupTypeOK
  <2>2. GroupTypeOK'
    BY <1>4, <1>6, <2>1 DEF GroupTypeOK
  <2>3. ItemsOK' /\ ErrorsOK'
    BY <1>1, <1>2, <1>4, <1>5, <1>11, <2>1 DEF CloneFails, ItemsOK, ErrorsOK
  <2>4. CountsOK'
    BY <1>4, <1>7, <1>8, <2>1 DEF CountsOK
  <2> QED BY <2>2, <2>3, <2>4
<1>12. ASSUME Leave(i, x), x \in Final,
              dirs' \in [Items -> {"none", "plain", "repo"}],
              groupErr' \in BOOLEAN, groupErr => groupErr', gCtxDone' \in BOOLEAN,
              UNCHANGED progressOn,
              \A j \in Items \ {i} : dirs'[j] = dirs[j],
              x = "refused" => groupErr',
              x = "failed" /\ groupKind = "largescale" => groupErr',
              x = "skipped" => groupKind = "largescale",
              x = "ok" /\ groupKind \in Refreshing => dirs'[i] = "repo",
              counts' \in [ok : Nat, failed : Nat, skipped : Nat],
              CountsOK'
       PROVE  GroupInv'
  <2>1. attempts' \in [Items -> 0 .. MaxAttempts] /\ \A j \in Items \ {i} : attempts'[j] = attempts[j]
    BY <1>12, GroupAssumption DEF Leave, GroupTypeOK, GroupAssumption
  <2>2. GroupTypeOK'
    BY <1>4, <1>6, <1>12, <2>1 DEF GroupTypeOK
  <2>3. ItemsOK' /\ ErrorsOK'
    BY <1>1, <1>2, <1>4, <1>5, <1>12, <2>1 DEF ItemsOK, ErrorsOK, Final
  <2> QED BY <1>12, <2>2, <2>3
<1>13. CASE AcquireFails(i)
  <2>1. Leave(i, x) /\ x = "refused"
    BY <1>5, <1>13 DEF AcquireFails, Leave, Move, GroupTypeOK
  <2>2. CountsOK'
    BY <1>7, <1>8, <1>13, <2>1 DEF AcquireFails, CountsOK
  <2> QED BY <1>12, <1>13, <2>1, <2>2 DEF AcquireFails, GroupTypeOK, Final
<1>14. CASE SkipItem(i)
  <2>1. Leave(i, x) /\ x = "skipped"
    BY <1>5, <1>14 DEF SkipItem, Leave, Move, GroupTypeOK
  <2>2. CountsOK' /\ counts' \in [ok : Nat, failed : Nat, skipped : Nat]
    BY <1>7, <1>8, <1>14, <2>1 DEF SkipItem, CountsOK, GroupTypeOK
  <2> QED BY <1>12, <1>14, <2>1, <2>2 DEF SkipItem, GroupTypeOK, Final
<1>15. CASE ItemSucceeds(i)
  <2>1. Leave(i, x) /\ x = "ok"
    BY <1>5, <1>15 DEF ItemSucceeds, Leave, Move, GroupTypeOK
  <2>2. counts' \in [ok : Nat, failed : Nat, skipped : Nat]
    BY <1>15 DEF ItemSucceeds, GroupTypeOK
  <2>3. CountsOK'
    BY <1>7, <1>8, <1>15, <2>1 DEF ItemSucceeds, CountsOK, GroupTypeOK, Refreshing
  <2>4. /\ dirs' \in [Items -> {"none", "plain", "repo"}]
        /\ \A j \in Items \ {i} : dirs'[j] = dirs[j]
        /\ groupKind \in Refreshing => dirs'[i] = "repo"
    BY <1>15 DEF ItemSucceeds, GroupTypeOK, Refreshing
  <2> QED BY <1>12, <1>15, <2>1, <2>2, <2>3, <2>4 DEF ItemSucceeds, GroupTypeOK, Final
<1>16. CASE RefreshFails(i)
  <2>1. Leave(i, x) /\ x = "failed"
    BY <1>5, <1>16 DEF RefreshFails, Leave, Move, GroupTypeOK
  <2>2. CountsOK'
    BY <1>16 DEF RefreshFails, CountsOK, Refreshing
  <2>3. /\ dirs' \in [Items -> {"none", "plain", "repo"}]
        /\ \A j \in Items \ {i} : dirs'[j] = dirs[j]
    BY <1>16 DEF RefreshFails, GroupTypeOK
  <2> QED BY <1>12, <1>16, <2>1, <2>2, <2>3 DEF RefreshFails, GroupTypeOK, Final, Refreshing
<1>17. CASE ApplyFails(i)
  <2>1. Leave(i, x) /\ x = "failed"
    BY <1>5, <1>17 DEF ApplyFails, Leave, Move, GroupTypeOK
  <2>2. CountsOK' /\ counts' \in [ok : Nat, failed : Nat, skipped : Nat]
    BY <1>7, <1>8, <1>17, <2>1 DEF ApplyFails, CountsOK, GroupTypeOK
  <2> QED BY <1>12, <1>17, <2>1, <2>2 DEF ApplyFails, GroupTypeOK, Final
<1>18. CASE CloneFails(i) /\ ~(attempts[i] < MaxAttempts)
  <2>1. Leave(i, x) /\ x = "failed" /\ groupErr' /\ gCtxDone'
    BY <1>5, <1>18 DEF CloneFails, ReturnError, Leave, Move, GroupTypeOK
  <2>2. CountsOK' /\ counts' \in [ok : Nat, failed : Nat, skipped : Nat]
    BY <1>7, <1>8, <1>18, <2>1 DEF CloneFails, CountsOK, GroupTypeOK
  <2> QED BY <1>12, <1>18, <2>1, <2>2 DEF CloneFails, ReturnError, GroupTypeOK, Final
<1>19. CASE BackoffCancelled(i)
  <2>1. Leave(i, x) /\ x = "failed" /\ groupErr' /\ gCtxDone' /\ groupKind' = groupKind
    BY <1>5, <1>19 DEF BackoffCancelled, ReturnError, Leave, Move, GroupTypeOK
  <2>2. CountsOK'
    BY <1>7, <1>8, <1>19, <2>1 DEF BackoffCancelled, CountsOK, ErrorsOK, GroupTypeOK
  <2> QED BY <1>12, <1>19, <2>1, <2>2 DEF BackoffCancelled, GroupTypeOK, Final
<1> QED BY <1>9, <1>10, <1>11, <1>13, <1>14, <1>15, <1>16, <1>17, <1>18, <1>19 DEF ItemStep

\* Every step of a group operation keeps the invariant.
LEMMA GroupStep == GroupInv /\ [GroupNext]_groupVars => GroupInv'
<1> SUFFICES ASSUME GroupInv, [GroupNext]_groupVars PROVE GroupInv'
    OBVIOUS
<1>1. CASE GroupBegins \/ GroupRefused
  BY <1>1, GroupStarts
<1>2. CASE \E i \in Items : ItemStep(i)
  BY <1>2, ItemMoves
<1>3. CASE GroupReturns
  BY <1>3 DEF GroupReturns, GroupInv, GroupTypeOK, ItemsOK, ErrorsOK, CountsOK, EndedAs, Final
<1>4. CASE CancelGroup
  BY <1>4 DEF CancelGroup, GroupInv, GroupTypeOK, ItemsOK, ErrorsOK, CountsOK, EndedAs
<1>5. CASE ProgressEnds
  BY <1>5 DEF ProgressEnds, GroupInv, GroupTypeOK, ItemsOK, ErrorsOK, CountsOK, EndedAs
<1>6. CASE UNCHANGED groupVars
  BY <1>6 DEF groupVars, GroupInv, GroupTypeOK, ItemsOK, ErrorsOK, CountsOK, EndedAs
<1> QED BY <1>1, <1>2, <1>3, <1>4, <1>5, <1>6 DEF GroupNext

\* The invariant says what a nil result was earned by.
LEMMA NilFollows == GroupInv => NilMeansHandled
<1> SUFFICES ASSUME GroupInv, groupPC = "nil" PROVE NilMeansHandled
    BY DEF NilMeansHandled
<1> USE DEF GroupInv
<1>1. \A i \in wanted : itemPC[i] \in Final \ {"refused"}
  BY DEF ItemsOK, ErrorsOK, GroupTypeOK
<1>2. groupKind \in Refreshing => \A i \in wanted : itemPC[i] = "ok" => dirs[i] = "repo"
  BY DEF ErrorsOK, GroupTypeOK
<1>3. ASSUME NEW a \in {"ok"}, NEW b \in {"skipped", "failed"}, EndedAs(a) \union EndedAs(b) = wanted
      PROVE  Cardinality(EndedAs(a)) + Cardinality(EndedAs(b)) = Cardinality(wanted)
  <2>1. EndedAs(a) \intersect EndedAs(b) = {}
    BY <1>3 DEF EndedAs
  <2> QED BY <1>3, <2>1, FiniteEnds, FS_Union, FS_EmptySet
<1>4. CASE groupKind = "largescale"
  <2>1. \A i \in wanted : itemPC[i] \in {"ok", "skipped"}
    BY <1>1, <1>4 DEF ItemsOK, ErrorsOK, GroupTypeOK, Final
  <2>2. EndedAs("ok") \union EndedAs("skipped") = wanted
    BY <2>1 DEF EndedAs
  <2>3. counts.failed = 0
    BY <1>4 DEF ItemsOK, CountsOK, GroupTypeOK
  <2> QED BY <1>1, <1>3, <1>4, <2>1, <2>2, <2>3 DEF NilMeansHandled, CountsOK, Refreshing
<1>5. CASE groupKind = "apply"
  <2>1. EndedAs("ok") \union EndedAs("failed") = wanted
    BY <1>1, <1>5 DEF EndedAs, ErrorsOK, GroupTypeOK, Final
  <2> QED BY <1>1, <1>3, <1>5, <2>1 DEF NilMeansHandled, CountsOK, Refreshing
<1>6. CASE groupKind \in Refreshing
  BY <1>1, <1>2, <1>6 DEF NilMeansHandled, Refreshing
<1> QED BY <1>4, <1>5, <1>6 DEF GroupTypeOK, Kinds

\* Types, capacities of counters and the bound of attempts, for any group.
THEOREM GroupTypeCorrect == GroupSpec => []GroupTypeOK
<1>1. GroupInv => GroupTypeOK
  BY DEF GroupInv
<1> QED BY <1>1, GroupInitial, GroupStep, PTL DEF GroupSpec

\* An operation that returns nil has handled every item, whatever the number of
\* items, slots and attempts, and whenever the caller cancels.
THEOREM NilIsEarned == GroupSpec => []NilMeansHandled
  BY GroupInitial, GroupStep, NilFollows, PTL DEF GroupSpec
================================================================================
