--------------------------- MODULE WorkerPool_proofs ---------------------------
(***************************************************************************)
(* Theorems about WorkerPool, for every set of workers, jobs and callers,  *)
(* every buffer size and every number of lives.                            *)
(***************************************************************************)
EXTENDS WorkerPool, SequenceTheorems, TLAPS

(***************************************************************************)
(* What sending to and receiving from a channel does to its contents.      *)
(***************************************************************************)
\* A send adds the message at the end and keeps the messages distinct.
LEMMA SendLemma ==
    ASSUME NEW S, NEW q \in Seq(S), NEW e \in S
    PROVE  /\ Append(q, e) \in Seq(S)
           /\ Len(Append(q, e)) = Len(q) + 1
           /\ Range(Append(q, e)) = Range(q) \union {e}
           /\ IsInjective(q) /\ e \notin Range(q) => IsInjective(Append(q, e))
<1> DEFINE a == Append(q, e)
<1>1. /\ a \in Seq(S) /\ Len(a) = Len(q) + 1 /\ Len(q) \in Nat
      /\ DOMAIN a = 1 .. Len(q) + 1 /\ DOMAIN q = 1 .. Len(q)
      /\ \A i \in 1 .. Len(q) : a[i] = q[i]
      /\ a[Len(q) + 1] = e
  BY AppendProperties, LenProperties
<1>2. Range(a) = Range(q) \union {e}
  <2>1. \A x \in Range(a) : x \in Range(q) \union {e}
    BY <1>1 DEF Range
  <2>2. \A x \in Range(q) \union {e} : x \in Range(a)
    BY <1>1 DEF Range
  <2> QED BY <2>1, <2>2
<1>3. ASSUME IsInjective(q), e \notin Range(q)
      PROVE  IsInjective(a)
  BY <1>1, <1>3 DEF IsInjective, Range
<1> QED BY <1>1, <1>2, <1>3

\* A receive takes the first message away and leaves the others distinct.
LEMMA ReceiveLemma ==
    ASSUME NEW S, NEW q \in Seq(S), q # <<>>
    PROVE  /\ Head(q) \in S /\ Head(q) \in Range(q)
           /\ Tail(q) \in Seq(S)
           /\ Len(Tail(q)) = Len(q) - 1
           /\ Range(q) = Range(Tail(q)) \union {Head(q)}
           /\ IsInjective(q) => IsInjective(Tail(q)) /\ Head(q) \notin Range(Tail(q))
<1> DEFINE t == Tail(q)
<1>1. /\ Head(q) \in S /\ t \in Seq(S) /\ Len(q) \in Nat /\ Len(q) > 0
      /\ Head(q) = q[1] /\ Len(t) = Len(q) - 1 /\ Len(t) \in Nat
      /\ DOMAIN t = 1 .. Len(q) - 1 /\ DOMAIN q = 1 .. Len(q)
      /\ \A i \in 1 .. Len(q) - 1 : t[i] = q[i + 1]
  BY HeadTailProperties, LenProperties, EmptySeq
<1>2. Head(q) \in Range(q)
  BY <1>1 DEF Range
<1>3. Range(q) = Range(t) \union {Head(q)}
  <2>1. ASSUME NEW x \in Range(q) PROVE x \in Range(t) \union {Head(q)}
    <3>1. PICK i \in 1 .. Len(q) : x = q[i]
      BY <1>1 DEF Range
    <3>2. CASE i = 1
      BY <1>1, <3>1, <3>2
    <3>3. CASE i # 1
      <4>1. i - 1 \in 1 .. Len(q) - 1 /\ t[i - 1] = q[i]
        BY <1>1, <3>1, <3>3
      <4> QED BY <1>1, <3>1, <4>1 DEF Range
    <3> QED BY <3>2, <3>3
  <2>2. ASSUME NEW x \in Range(t) PROVE x \in Range(q)
    <3>1. PICK i \in 1 .. Len(q) - 1 : x = t[i]
      BY <1>1 DEF Range
    <3> QED BY <1>1, <3>1 DEF Range
  <2> QED BY <1>2, <2>1, <2>2
<1>4. ASSUME IsInjective(q)
      PROVE  IsInjective(t) /\ Head(q) \notin Range(t)
  <2>1. IsInjective(t)
    BY <1>1, <1>4 DEF IsInjective
  <2>2. Head(q) \notin Range(t)
    BY <1>1, <1>4 DEF IsInjective, Range
  <2> QED BY <2>1, <2>2
<1> QED BY <1>1, <1>2, <1>3, <1>4

-----------------------------------------------------------------------------
(***************************************************************************)
(* Type correctness.  TypeOK alone is not inductive: that a result sent is *)
(* a job needs the worker that sends to have a job in hand.                *)
(***************************************************************************)
Busy(w) == pc[w] \in {"run", "send"}
HandOK  == \A w \in Workers : hand[w] # None <=> Busy(w)
IdleOK  == ~started => \A w \in Workers : Gone(w)
TypeInv == TypeOK /\ HandOK /\ IdleOK

\* The initial states are well typed.
LEMMA TypeInit == Init => TypeInv
<1> SUFFICES ASSUME Init PROVE TypeInv
    OBVIOUS
<1>1. queue \in Seq(Jobs) /\ results \in Seq(Jobs) /\ Len(queue) = 0 /\ Len(results) = 0
  BY EmptySeq DEF Init
<1>2. TypeOK
  <2>1. /\ starts \in 0 .. MaxStarts
        /\ Len(queue) <= BufferSize
        /\ Len(results) <= BufferSize
    BY <1>1, PoolAssumption DEF PoolAssumption, Init
  <2>2. /\ pc \in [Workers -> WorkerPC]
        /\ hand \in [Workers -> Jobs \union {None}]
        /\ spc \in [Stoppers -> StopPC]
        /\ fate \in [Jobs -> Fates]
        /\ late \in [Workers -> Nat]
    BY DEF Init, WorkerPC, StopPC, Fates
  <2> QED BY <1>1, <2>1, <2>2 DEF Init, TypeOK
<1>3. HandOK /\ IdleOK
  BY DEF Init, HandOK, Busy, IdleOK, Gone
<1> QED BY <1>2, <1>3 DEF TypeInv

\* Every step keeps the types.
LEMMA TypeStep == TypeInv /\ [Next]_vars => TypeInv'
<1> SUFFICES ASSUME TypeInv, [Next]_vars PROVE TypeInv'
    OBVIOUS
<1> USE PoolAssumption
    DEF PoolAssumption, TypeInv, TypeOK, HandOK, Busy, IdleOK, Gone, WorkerPC, StopPC, Fates, poolVars
<1>1. CASE Start
  BY <1>1 DEF Start
<1>2. ASSUME NEW j \in Jobs, Submit(j) PROVE TypeInv'
  <2>1. CASE SubmitNotStarted(j)
    BY <2>1 DEF SubmitNotStarted
  <2>2. CASE SubmitAccepted(j)
    <3>1. /\ Append(queue, j) \in Seq(Jobs)
          /\ Len(Append(queue, j)) = Len(queue) + 1 /\ Len(queue) \in Nat
      BY SendLemma, LenProperties
    <3> QED BY <2>2, <3>1 DEF SubmitAccepted
  <2>3. CASE SubmitCancelled(j)
    BY <2>3 DEF SubmitCancelled
  <2>4. CASE SubmitFull(j)
    BY <2>4 DEF SubmitFull
  <2>5. CASE SubmitPanics(j)
    BY <2>5 DEF SubmitPanics
  <2> QED BY <1>2, <2>1, <2>2, <2>3, <2>4, <2>5 DEF Submit
<1>3. ASSUME NEW s \in Stoppers, StopStep(s) \/ StopTimesOut(s) PROVE TypeInv'
  <2>1. CASE StopNotStarted(s)
    BY <2>1 DEF StopNotStarted
  <2>2. CASE StopClose(s)
    BY <2>2 DEF StopClose
  <2>3. CASE StopCancel(s)
    BY <2>3 DEF StopCancel
  <2>4. CASE StopFinish(s)
    BY <2>4 DEF StopFinish
  <2>5. CASE StopTimesOut(s)
    BY <2>5 DEF StopTimesOut
  <2> QED BY <1>3, <2>1, <2>2, <2>3, <2>4, <2>5 DEF StopStep
<1>4. ASSUME NEW w \in Workers, Worker(w) PROVE TypeInv'
  <2>1. CASE Take(w)
    <3>1. /\ Head(queue) \in Jobs /\ Tail(queue) \in Seq(Jobs)
          /\ Len(Tail(queue)) = Len(queue) - 1 /\ Len(queue) \in Nat
      BY <2>1, ReceiveLemma, LenProperties DEF Take
    <3> QED BY <2>1, <3>1 DEF Take
  <2>2. CASE Drained(w)
    BY <2>2 DEF Drained
  <2>3. CASE RunJob(w)
    BY <2>3 DEF RunJob
  <2>4. CASE SendResult(w)
    <3>1. hand[w] \in Jobs
      BY <2>4 DEF SendResult
    <3>2. /\ Append(results, hand[w]) \in Seq(Jobs)
          /\ Len(Append(results, hand[w])) = Len(results) + 1 /\ Len(results) \in Nat
      BY <3>1, SendLemma, LenProperties
    <3> QED BY <2>4, <3>2 DEF SendResult
  <2>5. CASE SendPanics(w)
    BY <2>5 DEF SendPanics
  <2>6. CASE DropResult(w)
    BY <2>6 DEF DropResult
  <2>7. CASE CheckCtx(w)
    BY <2>7 DEF CheckCtx
  <2> QED BY <1>4, <2>1, <2>2, <2>3, <2>4, <2>5, <2>6, <2>7 DEF Worker
<1>5. CASE Receive
  <2>1. /\ Tail(results) \in Seq(Jobs)
        /\ Len(Tail(results)) = Len(results) - 1 /\ Len(results) \in Nat
    BY <1>5, ReceiveLemma, LenProperties DEF Receive
  <2> QED BY <1>5, <2>1 DEF Receive
<1>6. CASE WalkAway
  BY <1>6 DEF WalkAway
<1>7. CASE UNCHANGED vars
  BY <1>7 DEF vars
<1> QED BY <1>1, <1>2, <1>3, <1>4, <1>5, <1>6, <1>7 DEF Next, Finished

\* Type correctness: no interleaving of Start, Submit, Stop, the timers, the
\* workers and the reader takes a variable of the pool out of its type, and
\* neither channel ever exceeds its capacity.
THEOREM TypeCorrect == Spec => []TypeOK
<1>1. Spec => []TypeInv
  BY TypeInit, TypeStep, PTL DEF Spec
<1>2. TypeInv => TypeOK
  BY DEF TypeInv
<1> QED BY <1>1, <1>2, PTL

-----------------------------------------------------------------------------
(***************************************************************************)
(* The lifecycle.  Holder is the Stop call inside its critical section.    *)
(* Its facts explain why one life is safe: the job channel is closed only  *)
(* under the lock, by a Stop that leaves started FALSE behind; the result  *)
(* channel is closed only once no worker exists.                           *)
(***************************************************************************)
Holder(s) == spc[s] \in {"cancel", "wait"}

OneHolder  == \A s, t \in Stoppers : Holder(s) /\ Holder(t) => s = t
HolderOK   == \A s \in Stoppers : Holder(s) => started /\ queueClosed
WaitOK     == \A s \in Stoppers : spc[s] = "wait" => ctxDone
UnbornOK   == starts = 0 => ~started /\ ~queueClosed /\ ~panicked
ClosedOK   == resultsClosed => ctxDone /\ queueClosed
FirstLife  ==
    starts = 1 => /\ ~panicked
                  /\ started /\ queueClosed => Locked
                  /\ resultsClosed => ~started
LifeInv == OneHolder /\ HolderOK /\ WaitOK /\ UnbornOK /\ ClosedOK /\ FirstLife

\* A pool that was not started satisfies the life invariant.
LEMMA LifeInit == Init => LifeInv
BY DEF Init, LifeInv, OneHolder, HolderOK, WaitOK, UnbornOK, ClosedOK, FirstLife,
       Holder, Locked

\* Every step of the first life keeps it.
LEMMA LifeStep == TypeInv /\ LifeInv /\ [Next]_vars => LifeInv'
<1> SUFFICES ASSUME TypeInv, LifeInv, [Next]_vars PROVE LifeInv'
    OBVIOUS
<1> USE DEF LifeInv, OneHolder, HolderOK, WaitOK, UnbornOK, ClosedOK, FirstLife,
            Holder, Locked, TypeInv, TypeOK, IdleOK, Gone, StopPC, poolVars
<1>1. CASE Start
  BY <1>1 DEF Start
<1>2. ASSUME NEW j \in Jobs, Submit(j) PROVE LifeInv'
  <2>1. CASE SubmitPanics(j)
    BY <1>2, <2>1 DEF Submit, SubmitPanics
  <2>2. CASE SubmitAccepted(j)
    BY <2>2 DEF SubmitAccepted
  <2>3. CASE SubmitNotStarted(j) \/ SubmitCancelled(j) \/ SubmitFull(j)
    BY <2>3 DEF SubmitNotStarted, SubmitCancelled, SubmitFull
  <2> QED BY <1>2, <2>1, <2>2, <2>3 DEF Submit
<1>3. ASSUME NEW s \in Stoppers, StopStep(s) \/ StopTimesOut(s) PROVE LifeInv'
  <2>1. CASE StopNotStarted(s)
    BY <2>1 DEF StopNotStarted
  <2>2. CASE StopClose(s)
    BY <2>2 DEF StopClose
  <2>3. CASE StopCancel(s)
    BY <2>3 DEF StopCancel
  <2>4. CASE StopFinish(s)
    BY <2>4 DEF StopFinish
  <2>5. CASE StopTimesOut(s)
    BY <2>5 DEF StopTimesOut
  <2> QED BY <1>3, <2>1, <2>2, <2>3, <2>4, <2>5 DEF StopStep
<1>4. ASSUME NEW w \in Workers, Worker(w) PROVE LifeInv'
  <2>1. CASE SendPanics(w)
    BY <2>1 DEF SendPanics
  <2>2. CASE Take(w) \/ Drained(w) \/ RunJob(w)
    BY <2>2 DEF Take, Drained, RunJob
  <2>3. CASE SendResult(w) \/ DropResult(w) \/ CheckCtx(w)
    BY <2>3 DEF SendResult, DropResult, CheckCtx
  <2> QED BY <1>4, <2>1, <2>2, <2>3 DEF Worker
<1>5. CASE Receive \/ WalkAway
  BY <1>5 DEF Receive, WalkAway
<1>6. CASE UNCHANGED vars
  BY <1>6 DEF vars
<1> QED BY <1>1, <1>2, <1>3, <1>4, <1>5, <1>6 DEF Next, Finished

\* The inductive invariant behind the safety theorems.
LEMMA LifeCorrect == Spec => [](TypeInv /\ LifeInv)
BY TypeInit, TypeStep, LifeInit, LifeStep, PTL DEF Spec

\* A pool that is started once never panics, whatever the number of Stop and
\* StopWithTimeout calls and whenever they come.
THEOREM FirstLifeIsSafe == Spec => []NoPanicInFirstLife
<1>1. TypeInv /\ LifeInv => NoPanicInFirstLife
  BY DEF TypeInv, TypeOK, LifeInv, UnbornOK, FirstLife, NoPanicInFirstLife
<1> QED BY <1>1, LifeCorrect, PTL

\* When Stop has returned no worker exists, in any life; in the first one no
\* worker exists as soon as the result channel is closed.
THEOREM StoppedIsQuiet == Spec => []QuietWhenStopped
<1>1. TypeInv /\ LifeInv => QuietWhenStopped
  BY DEF TypeInv, TypeOK, IdleOK, LifeInv, UnbornOK, FirstLife, QuietWhenStopped
<1> QED BY <1>1, LifeCorrect, PTL

\* Stop ends the pool cleanly, in both senses at once: no panic in the first
\* life and no worker afterwards.
THEOREM StoppingIsClean == Spec => []StopIsClean
<1>1. NoPanicInFirstLife /\ QuietWhenStopped => StopIsClean
  BY DEF StopIsClean
<1> QED BY <1>1, FirstLifeIsSafe, StoppedIsQuiet, PTL

-----------------------------------------------------------------------------
(***************************************************************************)
(* Conservation of jobs.  EachJobInOnePlace is inductive on top of the     *)
(* types: every step moves at most one job between two places.             *)
(***************************************************************************)
\* What the places hold after one worker's hand changes.
LEMMA HandLemma ==
    ASSUME TypeInv, EachJobInOnePlace, NEW w \in Workers,
           NEW x \in Jobs \union {None}, hand' = [hand EXCEPT ![w] = x]
    PROVE  InHand' = (InHand \ {hand[w]}) \union ({x} \ {None})
<1> USE DEF TypeInv, TypeOK, EachJobInOnePlace, InHand
<1>1. ASSUME NEW y \in InHand' PROVE y \in (InHand \ {hand[w]}) \union ({x} \ {None})
  BY <1>1
<1>2. ASSUME NEW y \in (InHand \ {hand[w]}) PROVE y \in InHand'
  BY <1>2
<1>3. x # None => x \in InHand'
  BY DEF InHand
<1> QED BY <1>1, <1>2, <1>3

\* Every step keeps each accepted job in exactly one place.
LEMMA PlaceStep == TypeInv /\ EachJobInOnePlace /\ [Next]_vars => EachJobInOnePlace'
<1> SUFFICES ASSUME TypeInv, EachJobInOnePlace, [Next]_vars PROVE EachJobInOnePlace'
    OBVIOUS
<1> DEFINE Accepted == {j \in Jobs : fate[j] = "accepted"}
<1> USE PoolAssumption DEF PoolAssumption
<1>1. Accepted = InQueue \union InHand \union InResults
  BY DEF EachJobInOnePlace
<1>2. ASSUME NEW j \in Jobs, Submit(j) PROVE EachJobInOnePlace'
  <2>1. j \notin InQueue \union InHand \union InResults
    BY <1>1, <1>2 DEF Submit
  <2>2. CASE SubmitAccepted(j)
    <3>1. InQueue' = InQueue \union {j} /\ IsInjective(queue')
      BY <2>1, <2>2, SendLemma
         DEF SubmitAccepted, TypeInv, TypeOK, InQueue, EachJobInOnePlace
    <3>2. InHand' = InHand /\ InResults' = InResults
      BY <2>2 DEF SubmitAccepted, InHand, InResults
    <3>3. Accepted' = Accepted \union {j}
      BY <2>2 DEF SubmitAccepted, TypeInv, TypeOK
    <3> QED BY <2>1, <2>2, <3>1, <3>2, <3>3 DEF SubmitAccepted, EachJobInOnePlace
  <2>3. CASE SubmitNotStarted(j) \/ SubmitCancelled(j) \/ SubmitFull(j) \/ SubmitPanics(j)
    <3>1. UNCHANGED <<queue, hand, results>>
      BY <2>3 DEF SubmitNotStarted, SubmitCancelled, SubmitFull, SubmitPanics, poolVars
    <3>2. Accepted' = Accepted
      BY <1>2, <2>3 DEF Submit, SubmitNotStarted, SubmitCancelled, SubmitFull,
                        SubmitPanics, TypeInv, TypeOK
    <3> QED BY <3>1, <3>2 DEF EachJobInOnePlace, InQueue, InHand, InResults
  <2> QED BY <1>2, <2>2, <2>3 DEF Submit
<1>3. ASSUME NEW w \in Workers, Take(w) PROVE EachJobInOnePlace'
  <2>1. /\ Head(queue) \in Jobs /\ Head(queue) \in InQueue
        /\ InQueue' = InQueue \ {Head(queue)} /\ IsInjective(queue')
    BY <1>3, ReceiveLemma DEF Take, TypeInv, TypeOK, InQueue, EachJobInOnePlace
  <2>2. hand[w] = None /\ hand' = [hand EXCEPT ![w] = Head(queue)]
    BY <1>3 DEF Take, TypeInv, HandOK, Busy
  <2>3. InHand' = InHand \union {Head(queue)}
    <3>1. InHand' = (InHand \ {None}) \union ({Head(queue)} \ {None})
      BY <2>1, <2>2, HandLemma
    <3>2. None \notin InHand /\ Head(queue) # None
      BY <2>1 DEF InHand
    <3> QED BY <3>1, <3>2
  <2>4. \A u, v \in Workers : hand'[u] = hand'[v] /\ hand'[u] # None => u = v
    BY <2>1, <2>2 DEF EachJobInOnePlace, InHand, TypeInv, TypeOK
  <2>5. UNCHANGED <<fate, results>>
    BY <1>3 DEF Take
  <2> QED BY <2>1, <2>3, <2>4, <2>5 DEF EachJobInOnePlace, InResults
<1>4. ASSUME NEW w \in Workers, SendResult(w) PROVE EachJobInOnePlace'
  <2>1. hand[w] \in Jobs /\ hand[w] \in InHand /\ hand' = [hand EXCEPT ![w] = None]
    BY <1>4 DEF SendResult, TypeInv, TypeOK, HandOK, Busy, InHand
  <2>2. InHand' = InHand \ {hand[w]}
    BY <2>1, HandLemma
  <2>3. InResults' = InResults \union {hand[w]} /\ IsInjective(results')
    BY <1>4, <2>1, SendLemma DEF SendResult, TypeInv, TypeOK, InResults, EachJobInOnePlace
  <2>4. \A u, v \in Workers : hand'[u] = hand'[v] /\ hand'[u] # None => u = v
    BY <2>1 DEF EachJobInOnePlace, TypeInv, TypeOK
  <2>5. UNCHANGED <<fate, queue>>
    BY <1>4 DEF SendResult
  <2> QED BY <2>1, <2>2, <2>3, <2>4, <2>5 DEF EachJobInOnePlace, InQueue
<1>5. ASSUME NEW w \in Workers, DropResult(w) PROVE EachJobInOnePlace'
  <2>1. /\ hand[w] \in Jobs /\ hand[w] \in InHand /\ hand' = [hand EXCEPT ![w] = None]
        /\ fate' = [fate EXCEPT ![hand[w]] = "dropped"] /\ UNCHANGED <<queue, results>>
    BY <1>5 DEF DropResult, TypeInv, TypeOK, HandOK, Busy, InHand
  <2>2. InHand' = InHand \ {hand[w]}
    BY <2>1, HandLemma
  <2>3. Accepted' = Accepted \ {hand[w]}
    BY <2>1 DEF TypeInv, TypeOK
  <2>4. \A u, v \in Workers : hand'[u] = hand'[v] /\ hand'[u] # None => u = v
    BY <2>1 DEF EachJobInOnePlace, TypeInv, TypeOK
  <2> QED BY <2>1, <2>2, <2>3, <2>4 DEF EachJobInOnePlace, InQueue, InResults
<1>6. CASE Receive
  <2>1. /\ Head(results) \in Jobs /\ Head(results) \in InResults
        /\ InResults' = InResults \ {Head(results)} /\ IsInjective(results')
    BY <1>6, ReceiveLemma DEF Receive, TypeInv, TypeOK, InResults, EachJobInOnePlace
  <2>2. Accepted' = Accepted \ {Head(results)} /\ UNCHANGED <<queue, hand>>
    BY <1>6, <2>1 DEF Receive, TypeInv, TypeOK
  <2> QED BY <2>1, <2>2 DEF EachJobInOnePlace, InQueue, InHand
<1>7. CASE UNCHANGED <<queue, hand, results, fate>>
  BY <1>7 DEF EachJobInOnePlace, InQueue, InHand, InResults
<1>8. ASSUME NEW s \in Stoppers, StopStep(s) \/ StopTimesOut(s)
      PROVE  UNCHANGED <<queue, hand, results, fate>>
  BY <1>8 DEF StopStep, StopNotStarted, StopClose, StopCancel, StopFinish, StopTimesOut
<1>9. ASSUME NEW w \in Workers, Drained(w) \/ RunJob(w) \/ SendPanics(w) \/ CheckCtx(w)
      PROVE  UNCHANGED <<queue, hand, results, fate>>
  BY <1>9 DEF Drained, RunJob, SendPanics, CheckCtx, poolVars
<1>10. CASE Start \/ WalkAway \/ UNCHANGED vars
  <2>1. UNCHANGED <<queue, hand, results, fate>>
    BY <1>10 DEF Start, WalkAway, vars, poolVars
  <2> QED BY <1>7, <2>1
<1> QED BY <1>2, <1>3, <1>4, <1>5, <1>6, <1>7, <1>8, <1>9, <1>10 DEF Next, Finished, Worker

\* At first no job was accepted.
LEMMA PlaceInit == Init => EachJobInOnePlace
BY DEF Init, EachJobInOnePlace, InQueue, InHand, InResults, Range, IsInjective

\* No accepted job is lost between Submit and Results(), and none is executed
\* or answered twice, for any number of workers and any buffer size.
THEOREM JobsAreConserved == Spec => []EachJobInOnePlace
BY TypeInit, TypeStep, PlaceInit, PlaceStep, PTL DEF Spec

-----------------------------------------------------------------------------
(***************************************************************************)
(* What the cancellation permits.                                          *)
(***************************************************************************)
LateOK ==
    \A w \in Workers :
        /\ late[w] \in {0, 1}
        /\ late[w] = 1 => ctxDone /\ pc[w] # "range"

\* Every step keeps the bound on jobs begun after the cancellation.
LEMMA LateStep == TypeInv /\ LateOK /\ [Next]_vars => LateOK'
<1> SUFFICES ASSUME TypeInv, LateOK, [Next]_vars PROVE LateOK'
    OBVIOUS
<1> USE DEF LateOK, TypeInv, TypeOK, WorkerPC, poolVars
<1>1. CASE Start
  BY <1>1 DEF Start
<1>2. ASSUME NEW j \in Jobs, Submit(j) PROVE LateOK'
  BY <1>2 DEF Submit, SubmitNotStarted, SubmitAccepted, SubmitCancelled, SubmitFull,
              SubmitPanics
<1>3. ASSUME NEW s \in Stoppers, StopStep(s) \/ StopTimesOut(s) PROVE LateOK'
  BY <1>3 DEF StopStep, StopNotStarted, StopClose, StopCancel, StopFinish, StopTimesOut
<1>4. ASSUME NEW w \in Workers, Worker(w) PROVE LateOK'
  <2>1. CASE Take(w)
    BY <2>1 DEF Take
  <2>2. CASE Drained(w) \/ RunJob(w) \/ SendPanics(w)
    BY <2>2 DEF Drained, RunJob, SendPanics
  <2>3. CASE SendResult(w) \/ DropResult(w)
    BY <2>3 DEF SendResult, DropResult
  <2>4. CASE CheckCtx(w)
    BY <2>4 DEF CheckCtx
  <2> QED BY <1>4, <2>1, <2>2, <2>3, <2>4 DEF Worker
<1>5. CASE Receive \/ WalkAway \/ UNCHANGED vars
  BY <1>5 DEF Receive, WalkAway, vars
<1> QED BY <1>1, <1>2, <1>3, <1>4, <1>5 DEF Next, Finished

\* After the cancellation a worker begins at most one more job, however many
\* are left in the channel: Stop waits for one job per worker, not for the queue.
THEOREM LingeringIsBounded == Spec => []AtMostOneLateJob
<1>1. Init => LateOK
  BY DEF Init, LateOK
<1>2. LateOK => AtMostOneLateJob
  BY DEF LateOK, AtMostOneLateJob
<1> QED BY <1>1, <1>2, TypeInit, TypeStep, LateStep, PTL DEF Spec

\* Every step that drops a result follows the cancellation.
LEMMA DropStep == TypeInv /\ DropOnlyAfterCancel /\ [Next]_vars => DropOnlyAfterCancel'
<1> SUFFICES ASSUME TypeInv, DropOnlyAfterCancel, [Next]_vars PROVE DropOnlyAfterCancel'
    OBVIOUS
<1> USE DEF DropOnlyAfterCancel, TypeInv, TypeOK, poolVars
<1>1. ASSUME NEW j \in Jobs, Submit(j) PROVE DropOnlyAfterCancel'
  BY <1>1 DEF Submit, SubmitNotStarted, SubmitAccepted, SubmitCancelled, SubmitFull,
              SubmitPanics
<1>2. ASSUME NEW s \in Stoppers, StopStep(s) \/ StopTimesOut(s)
      PROVE  DropOnlyAfterCancel'
  BY <1>2 DEF StopStep, StopNotStarted, StopClose, StopCancel, StopFinish, StopTimesOut
<1>3. ASSUME NEW w \in Workers, Worker(w) PROVE DropOnlyAfterCancel'
  BY <1>3 DEF Worker, Take, Drained, RunJob, SendResult, SendPanics, DropResult, CheckCtx
<1>4. CASE Receive
  BY <1>4 DEF Receive
<1>5. CASE Start \/ WalkAway \/ UNCHANGED vars
  BY <1>5 DEF Start, WalkAway, vars
<1> QED BY <1>1, <1>2, <1>3, <1>4, <1>5 DEF Next, Finished

\* No result is thrown away while the pool runs, whatever the channels hold.
THEOREM DropsFollowCancellation == Spec => []DropOnlyAfterCancel
<1>1. Init => DropOnlyAfterCancel
  BY DEF Init, DropOnlyAfterCancel
<1> QED BY <1>1, TypeInit, TypeStep, DropStep, PTL DEF Spec

\* No result of a running pool is thrown away, and a cancelled pool begins at
\* most one more job per worker.
THEOREM CancelledPoolGoesQuiet == Spec => []CancellationIsSharp
<1>1. AtMostOneLateJob /\ DropOnlyAfterCancel => CancellationIsSharp
  BY DEF CancellationIsSharp
<1> QED BY <1>1, LingeringIsBounded, DropsFollowCancellation, PTL

-----------------------------------------------------------------------------
(***************************************************************************)
(* Refinement.  A step of the pool is, seen by its callers, one step of    *)
(* JobService or none.                                                     *)
(***************************************************************************)
ServiceInv == TypeInv /\ LifeInv /\ EachJobInOnePlace

\* Every step is a step of JobService or leaves its variables alone.
LEMMA ServiceStep == ServiceInv /\ [Next]_vars => [Service!Next]_(Service!vars)
<1> SUFFICES ASSUME ServiceInv, [Next]_vars
             PROVE  Service!Next \/ UNCHANGED <<fate, Phase>>
    BY DEF Service!vars
<1> USE DEF ServiceInv, poolVars
<1>1. ASSUME UNCHANGED <<ctxDone, resultsClosed>> PROVE UNCHANGED Phase
  BY <1>1 DEF Phase
<1>2. ASSUME NEW j \in Jobs, Submit(j)
      PROVE  Service!Next \/ UNCHANGED <<fate, Phase>>
  <2>1. fate[j] = "new"
    BY <1>2 DEF Submit
  <2>2. CASE SubmitAccepted(j)
    <3>1. Phase # "closed"
      BY <2>2 DEF SubmitAccepted, LifeInv, ClosedOK, Phase
    <3>2. Service!Accept(j)
      BY <1>1, <2>1, <2>2, <3>1 DEF SubmitAccepted, Service!Accept, Service!Becomes
    <3> QED BY <3>2 DEF Service!Next
  <2>3. CASE SubmitNotStarted(j) \/ SubmitCancelled(j) \/ SubmitFull(j)
    <3>1. Service!Refuse(j)
      BY <1>1, <2>1, <2>3
         DEF SubmitNotStarted, SubmitCancelled, SubmitFull, Service!Refuse, Service!Becomes
    <3> QED BY <3>1 DEF Service!Next
  <2>4. CASE SubmitPanics(j)
    BY <1>1, <2>4 DEF SubmitPanics
  <2> QED BY <1>2, <2>2, <2>3, <2>4 DEF Submit
<1>3. ASSUME NEW s \in Stoppers, StopStep(s) \/ StopTimesOut(s)
      PROVE  Service!Next \/ UNCHANGED <<fate, Phase>>
  <2>1. CASE StopClose(s)
    BY <1>1, <2>1 DEF StopClose
  <2>2. CASE StopNotStarted(s) \/ StopCancel(s) \/ StopTimesOut(s)
    <3>1. ctxDone' = TRUE /\ UNCHANGED <<resultsClosed, fate>>
      BY <2>2 DEF StopNotStarted, StopCancel, StopTimesOut
    <3>2. (Phase = "open" /\ Phase' = "closing") \/ UNCHANGED Phase
      BY <3>1 DEF Phase, TypeInv, TypeOK
    <3> QED BY <3>1, <3>2 DEF Service!Next, Service!ShutDown
  <2>3. CASE StopFinish(s)
    <3>1. ctxDone /\ resultsClosed' = TRUE /\ UNCHANGED <<ctxDone, fate>>
      BY <2>3 DEF StopFinish, LifeInv, WaitOK
    <3>2. (Phase = "closing" /\ Phase' = "closed") \/ UNCHANGED Phase
      BY <3>1 DEF Phase, TypeInv, TypeOK
    <3> QED BY <3>1, <3>2 DEF Service!Next, Service!ShutDown
  <2> QED BY <1>3, <2>1, <2>2, <2>3 DEF StopStep
<1>4. ASSUME NEW w \in Workers, DropResult(w)
      PROVE  Service!Next \/ UNCHANGED <<fate, Phase>>
  <2>1. hand[w] \in Jobs /\ fate[hand[w]] = "accepted"
    BY <1>4 DEF DropResult, TypeInv, TypeOK, HandOK, Busy, InHand, EachJobInOnePlace
  <2>2. Phase # "open"
    BY <1>4 DEF DropResult, Phase
  <2>3. Service!Drop(hand[w])
    BY <1>1, <1>4, <2>1, <2>2 DEF DropResult, Service!Drop, Service!Becomes
  <2> QED BY <2>1, <2>3 DEF Service!Next
<1>5. ASSUME Receive
      PROVE  Service!Next \/ UNCHANGED <<fate, Phase>>
  <2>1. Head(results) \in Jobs /\ fate[Head(results)] = "accepted"
    BY <1>5, ReceiveLemma DEF Receive, TypeInv, TypeOK, InResults, EachJobInOnePlace
  <2>2. Service!Answer(Head(results))
    BY <1>1, <1>5, <2>1 DEF Receive, Service!Answer, Service!Becomes
  <2> QED BY <2>1, <2>2 DEF Service!Next
<1>6. ASSUME NEW w \in Workers, Worker(w), ~DropResult(w)
      PROVE  UNCHANGED <<fate, Phase>>
  BY <1>1, <1>6 DEF Worker, Take, Drained, RunJob, SendResult, SendPanics, CheckCtx
<1>7. CASE Start \/ WalkAway \/ UNCHANGED vars
  BY <1>1, <1>7 DEF Start, WalkAway, vars
<1> QED BY <1>2, <1>3, <1>4, <1>5, <1>6, <1>7 DEF Next, Finished

\* For its callers the pool implements JobService: accepted jobs are answered
\* at most once, dropped only when the pool shuts down, and nothing is accepted
\* after Stop has closed the results.
THEOREM PoolIsAJobService == Spec => ImplementsJobService
<1>1. Init => Service!Init
  BY DEF Init, Service!Init, Phase
<1>2. Spec => []ServiceInv
  BY LifeCorrect, JobsAreConserved, PTL DEF ServiceInv
<1>3. Spec => Service!Spec
  BY <1>1, <1>2, ServiceStep, PTL DEF Spec, Service!Spec
<1> QED BY <1>3 DEF ImplementsJobService
=============================================================================
