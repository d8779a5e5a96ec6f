---------------------------- MODULE ParsePoolProofs ----------------------------
(***************************************************************************)
(* Proofs about the parsing stage, for every number of files and threads.  *)
(* The inductive invariant IInv adds to the properties what makes them     *)
(* stable: the mutex brackets the claim of an index, the counter bounds    *)
(* the claimed slots, and every claimed slot is written or owned.          *)
(***************************************************************************)
EXTENDS ParsePool, TLAPS

(* The workers between Lock and Unlock.                                    *)
Critical(t) == wpc[t] \in {"claim", "advance", "check"}

MutexInv == \A t \in Threads : Critical(t) <=> mutex = t

(* Before the pool is destroyed the counter counts claims.                 *)
PoolLive == mpc \in {"load", "create", "join"}

ClaimInv ==
  /\ \A t \in Threads : At(t, "advance") => tuIdx[t] = nextIdx
  /\ \A t \in Threads : At(t, "check") => nextIdx = tuIdx[t] + 1
  /\ \A t \in Threads : Owns(t) => tuIdx[t] < nextIdx
  /\ \A f \in Slots : f >= nextIdx => tu[f] = Unwritten
  /\ \A f \in Slots : f < nextIdx /\ tu[f] = Unwritten =>
       \E t \in Threads : Owns(t) /\ tuIdx[t] = f
  /\ \A t \in Threads : At(t, "drained") => nextIdx >= NumFiles

JoinInv ==
  /\ mpc \in {"load", "create"} => \A t \in Threads : t >= i => At(t, "absent")
  /\ PoolLive => i >= 1
  /\ mpc = "load" => i = 1
  /\ mpc = "join" => \A t \in Threads : t < i => wpc[t] \in Ended \cup {"absent"}

IInv ==
  /\ TypeOK
  /\ MutexInv
  /\ (PoolLive => ClaimInv)
  /\ JoinInv
  /\ ExclusiveClaim
  /\ WorkersGoneAfterJoin
  /\ GarbageOnlyIfNoneDrained
-----------------------------------------------------------------------------
(* Before a thread is created nothing is claimed.                         *)
LEMMA InitIInv == Init => IInv
<1> SUFFICES ASSUME Init PROVE IInv
  OBVIOUS
<1> USE ParsePoolAssumption DEF ParsePoolAssumption, Init, Threads, Slots
<1>1. TypeOK
  BY DEF TypeOK, Unwritten
<1>2. \A t \in Threads : wpc[t] = "absent" /\ ~Owns(t) /\ ~Critical(t)
  BY DEF Owns, At, Critical
<1>3. MutexInv
  BY <1>2 DEF MutexInv
<1>4. ClaimInv
  BY <1>2 DEF ClaimInv, At
<1>5. JoinInv /\ ExclusiveClaim
  BY <1>2 DEF JoinInv, ExclusiveClaim, At, PoolLive
<1>6. ~Joined
  BY DEF Joined
<1>7. QED
  BY <1>1, <1>3, <1>4, <1>5, <1>6
     DEF IInv, WorkersGoneAfterJoin, GarbageOnlyIfNoneDrained

(* An update with a value of the range keeps the type of a function.       *)
LEMMA Updated ==
  ASSUME NEW S, NEW T, NEW f \in [S -> T], NEW x, NEW y \in T
  PROVE  [f EXCEPT ![x] = y] \in [S -> T]
OBVIOUS

(* Types are inductive by themselves.                                     *)
LEMMA TypeStep == TypeOK /\ [Next]_vars => TypeOK'
<1> SUFFICES ASSUME TypeOK, [Next]_vars PROVE TypeOK'
  OBVIOUS
<1> USE ParsePoolAssumption DEF ParsePoolAssumption, TypeOK
<1>1. CASE UNCHANGED vars
  BY <1>1 DEF vars, main, pool, output
<1>2. CASE Main
  <2> USE DEF main, pool, output, workers
  <2>1. CASE LoadDatabase BY <2>1 DEF LoadDatabase
  <2>2. CASE CreateThread
    <3>1. wpc' = [wpc EXCEPT ![i] = "lock"] /\ i' = i + 1
      BY <2>2 DEF CreateThread, Goto
    <3>2. UNCHANGED <<mpc, ret, db, tuIdx, args, pool, output>>
      BY <2>2 DEF CreateThread
    <3>3. i' \in Nat
      BY <3>1
    <3>4. QED BY <3>1, <3>2, <3>3, Updated
  <2>3. CASE CreateFails \/ AllCreated BY <2>3 DEF CreateFails, AllCreated
  <2>4. CASE JoinThread \/ JoinMissing BY <2>4 DEF JoinThread, JoinMissing
  <2>5. CASE DestroyPool BY <2>5 DEF DestroyPool
  <2>6. CASE CleanDiagnostics BY <2>6 DEF CleanDiagnostics
  <2>7. CASE ErrorDiagnostics \/ GarbageDiagnostics
    BY <2>7 DEF ErrorDiagnostics, GarbageDiagnostics
  <2>8. CASE StartAnalysis \/ Analyse BY <2>8 DEF StartAnalysis, Analyse
  <2>9. QED BY <1>2, <2>1, <2>2, <2>3, <2>4, <2>5, <2>6, <2>7, <2>8 DEF Main
<1>3. ASSUME NEW t \in Threads, Worker(t) PROVE TypeOK'
  <2> USE DEF main, pool, output, Goto, Threads, Slots, Ended
  <2>1. CASE Lock(t) BY <2>1, <1>3 DEF Lock
  <2>2. CASE ReadIdx(t) BY <2>2, <1>3 DEF ReadIdx
  <2>3. CASE AdvanceIdx(t) BY <2>3, <1>3 DEF AdvanceIdx
  <2>4. CASE Drain(t) BY <2>4, <1>3 DEF Drain
  <2>5. CASE Unlock(t) BY <2>5, <1>3 DEF Unlock
  <2>6. CASE GatherArgs(t) BY <2>6, <1>3 DEF GatherArgs, Appended
  <2>7. CASE Parse(t) BY <2>7, <1>3 DEF Parse, Write, ParseResults
  <2>8. CASE ParseFails(t) BY <2>8, <1>3 DEF ParseFails, Write
  <2>9. QED BY <1>3, <2>1, <2>2, <2>3, <2>4, <2>5, <2>6, <2>7, <2>8 DEF Worker
<1>4. CASE Stopped
  BY <1>4 DEF Stopped, vars, main, pool, output
<1>5. QED BY <1>1, <1>2, <1>3, <1>4 DEF Next

(* The part of IInv below TypeOK.                                          *)
Claims == MutexInv /\ (PoolLive => ClaimInv) /\ ExclusiveClaim
Joins == JoinInv /\ WorkersGoneAfterJoin /\ GarbageOnlyIfNoneDrained

(* A worker that takes a step has not ended, so main has not gone past the *)
(* join loop.                                                              *)
LEMMA WorkerRunning ==
  ASSUME IInv, NEW t \in Threads, Worker(t)
  PROVE  PoolLive /\ wpc[t] \notin Ended \cup {"absent"}
BY DEF IInv, TypeOK, WorkersGoneAfterJoin, Joined, PoolLive, Ended, Worker, At,
       Lock, ReadIdx, AdvanceIdx, Drain, Unlock, GatherArgs, Parse, ParseFails

(* What a worker does keeps the claims exclusive.                          *)
LEMMA WorkerClaims ==
  ASSUME IInv, NEW t \in Threads, Worker(t)
  PROVE  Claims'
<1> USE ParsePoolAssumption DEF IInv, TypeOK, Threads, Slots, Claims, At, Goto,
        main, pool, output, Ended
<1>1. PoolLive
  BY WorkerRunning
<1>2. Worker(t) => UNCHANGED main
  BY DEF Worker, Lock, ReadIdx, AdvanceIdx, Drain, Unlock, GatherArgs, Parse,
     ParseFails
<1> USE <1>1, <1>2
<1>3. CASE Lock(t)
  <2> USE <1>3 DEF Lock
  <2>1. MutexInv'
    BY DEF MutexInv, Critical
  <2>2. ClaimInv'
    BY DEF MutexInv, Critical, ClaimInv, Owns, ExclusiveClaim, PoolLive
  <2>3. ExclusiveClaim'
    BY DEF MutexInv, Critical, ClaimInv, Owns, ExclusiveClaim, PoolLive
  <2>4. QED BY <2>1, <2>2, <2>3
<1>4. CASE ReadIdx(t)
  <2> USE <1>4 DEF ReadIdx
  <2>1. MutexInv'
    BY DEF MutexInv, Critical
  <2>2. \A u \in Threads : u # t => (Owns(u)' <=> Owns(u)) /\ tuIdx'[u] = tuIdx[u]
    BY DEF Owns
  <2>3. ~Owns(t) /\ ~Owns(t)'
    BY DEF Owns
  <2>4. ASSUME NEW f \in Slots, f < nextIdx', tu'[f] = Unwritten
        PROVE  \E u \in Threads : Owns(u)' /\ tuIdx'[u] = f
    <3>1. PICK u \in Threads : Owns(u) /\ tuIdx[u] = f
      BY <2>4 DEF ClaimInv, PoolLive
    <3>2. QED BY <3>1, <2>2, <2>3
  <2>5. \A u \in Threads : Critical(u) => u = t
    BY DEF MutexInv, Critical
  <2>6. ClaimInv'
    BY <2>2, <2>3, <2>4, <2>5 DEF ClaimInv, PoolLive, Critical
  <2>7. ExclusiveClaim'
    BY <2>2, <2>3 DEF ExclusiveClaim
  <2>8. QED BY <2>1, <2>6, <2>7
<1>5. CASE AdvanceIdx(t)
  <2> USE <1>5 DEF AdvanceIdx
  <2>1. MutexInv'
    BY DEF MutexInv, Critical
  <2>2. \A u \in Threads : u # t => (Owns(u)' <=> Owns(u)) /\ tuIdx'[u] = tuIdx[u]
    BY DEF Owns
  <2>3. tuIdx'[t] = nextIdx /\ nextIdx' = nextIdx + 1 /\ ~Owns(t)
    BY DEF ClaimInv, PoolLive, Owns
  <2>4. Owns(t)' <=> nextIdx < NumFiles
    BY <2>3 DEF Owns
  <2>5. ASSUME NEW f \in Slots, f < nextIdx', tu'[f] = Unwritten
        PROVE  \E u \in Threads : Owns(u)' /\ tuIdx'[u] = f
    <3>1. CASE f = nextIdx
      BY <3>1, <2>3, <2>4
    <3>2. CASE f < nextIdx
      <4>1. PICK u \in Threads : Owns(u) /\ tuIdx[u] = f
        BY <3>2, <2>5 DEF ClaimInv, PoolLive
      <4>2. QED BY <4>1, <2>2, <2>3
    <3>3. QED BY <3>1, <3>2, <2>3, <2>5
  <2>6. \A u \in Threads : Critical(u) => u = t
    BY DEF MutexInv, Critical
  <2>7. ClaimInv'
    BY <2>2, <2>3, <2>4, <2>5, <2>6 DEF ClaimInv, PoolLive, Critical
  <2>8. ExclusiveClaim'
    BY <2>2, <2>3, <2>4 DEF ExclusiveClaim, ClaimInv, PoolLive
  <2>9. QED BY <2>1, <2>7, <2>8
<1>6. CASE Drain(t)
  <2> USE <1>6 DEF Drain
  <2>1. MutexInv'
    BY DEF MutexInv, Critical
  <2>2. ClaimInv'
    BY DEF MutexInv, Critical, ClaimInv, Owns, ExclusiveClaim, PoolLive
  <2>3. ExclusiveClaim'
    BY DEF MutexInv, Critical, ClaimInv, Owns, ExclusiveClaim, PoolLive
  <2>4. QED BY <2>1, <2>2, <2>3
<1>7. CASE Unlock(t)
  <2> USE <1>7 DEF Unlock
  <2>1. MutexInv'
    BY DEF MutexInv, Critical
  <2>2. ClaimInv'
    BY DEF MutexInv, Critical, ClaimInv, Owns, ExclusiveClaim, PoolLive
  <2>3. ExclusiveClaim'
    BY DEF MutexInv, Critical, ClaimInv, Owns, ExclusiveClaim, PoolLive
  <2>4. QED BY <2>1, <2>2, <2>3
<1>8. CASE GatherArgs(t)
  <2> USE <1>8 DEF GatherArgs
  <2>1. MutexInv'
    BY DEF MutexInv, Critical
  <2>2. ClaimInv'
    BY DEF MutexInv, Critical, ClaimInv, Owns, ExclusiveClaim, PoolLive
  <2>3. ExclusiveClaim'
    BY DEF MutexInv, Critical, ClaimInv, Owns, ExclusiveClaim, PoolLive
  <2>4. QED BY <2>1, <2>2, <2>3
<1>9. CASE Parse(t) \/ ParseFails(t)
  <2>1. /\ wpc[t] = "parse" /\ wpc'[t] \in {"lock", "failed"}
        /\ \A u \in Threads \ {t} : wpc'[u] = wpc[u]
        /\ UNCHANGED <<tuIdx, mutex, nextIdx>>
    BY <1>9 DEF Parse, ParseFails, Write
  <2>2. /\ tuIdx[t] \in Slots /\ tuIdx[t] < nextIdx
        /\ tu[tuIdx[t]] = Unwritten
    BY <2>1 DEF ExclusiveClaim, ClaimInv, Owns
  <2>3. /\ tu'[tuIdx[t]] # Unwritten
        /\ \A f \in Slots \ {tuIdx[t]} : tu'[f] = tu[f]
    BY <1>9, <2>2 DEF Parse, ParseFails, Write, ParseResults, Unwritten
  <2>4. Owns(t) /\ ~Owns(t)'
    BY <2>1 DEF Owns
  <2>5. \A u \in Threads \ {t} : Owns(u)' <=> Owns(u)
    BY <2>1 DEF Owns
  <2>6. \A u \in Threads : Critical(u)' <=> Critical(u)
    BY <2>1 DEF Critical
  <2>7. MutexInv'
    BY <2>1, <2>6 DEF MutexInv
  <2>8. ASSUME NEW f \in Slots, f < nextIdx', tu'[f] = Unwritten
        PROVE  \E u \in Threads : Owns(u)' /\ tuIdx'[u] = f
    <3>1. f # tuIdx[t] /\ tu[f] = Unwritten
      BY <2>3, <2>8
    <3>2. PICK u \in Threads : Owns(u) /\ tuIdx[u] = f
      BY <2>1, <2>8, <3>1 DEF ClaimInv, PoolLive
    <3>3. QED BY <2>1, <2>5, <3>1, <3>2
  <2>9. \A f \in Slots : f >= nextIdx' => tu'[f] = Unwritten
    BY <2>1, <2>2, <2>3 DEF ClaimInv
  <2>10. \A u \in Threads : Owns(u)' => tuIdx'[u] < nextIdx'
    BY <2>1, <2>4, <2>5 DEF ClaimInv
  <2>11. \A u \in Threads : wpc'[u] \in {"advance", "check", "drained"} =>
           wpc'[u] = wpc[u]
    BY <2>1
  <2>12. ClaimInv'
    BY <2>1, <2>8, <2>9, <2>10, <2>11 DEF ClaimInv
  <2>13. ExclusiveClaim'
    BY <2>1, <2>3, <2>4, <2>5 DEF ExclusiveClaim
  <2>14. QED BY <2>7, <2>12, <2>13
<1>10. QED
  BY <1>3, <1>4, <1>5, <1>6, <1>7, <1>8, <1>9 DEF Worker

(* A worker's step touches neither main's place nor an ended worker.       *)
LEMMA WorkerJoins ==
  ASSUME IInv, NEW t \in Threads, Worker(t)
  PROVE  Joins'
<1>1. PoolLive /\ wpc[t] \notin Ended \cup {"absent"}
  BY WorkerRunning
<1>2. UNCHANGED main /\ \A u \in Threads \ {t} : wpc'[u] = wpc[u]
  BY DEF Worker, Lock, ReadIdx, AdvanceIdx, Drain, Unlock, GatherArgs, Parse,
     ParseFails, Goto, IInv, TypeOK
<1>3. JoinInv'
  BY <1>1, <1>2 DEF IInv, JoinInv, main, At, PoolLive
<1>4. ~Joined'
  BY <1>1, <1>2 DEF PoolLive, Joined, main
<1>5. QED
  BY <1>3, <1>4 DEF Joins, WorkersGoneAfterJoin, GarbageOnlyIfNoneDrained

(* A created worker neither owns a slot nor is in the critical section.    *)
LEMMA MainCreate == ASSUME IInv, CreateThread PROVE Claims' /\ Joins'
<1> USE ParsePoolAssumption DEF IInv, TypeOK, Threads, CreateThread, Goto, At
<1>1. i \in Threads /\ wpc[i] = "absent" /\ wpc' = [wpc EXCEPT ![i] = "lock"]
  BY DEF JoinInv, PoolLive
<1>2. \A u \in Threads : (Owns(u)' <=> Owns(u)) /\ (Critical(u)' <=> Critical(u))
  BY <1>1 DEF Owns, Critical
<1>3. UNCHANGED <<tuIdx, pool, output, mpc>>
  OBVIOUS
<1>4. MutexInv'
  BY <1>2, <1>3 DEF MutexInv, pool
<1>5. ClaimInv'
  BY <1>1, <1>2, <1>3 DEF ClaimInv, PoolLive, pool, output
<1>6. ExclusiveClaim'
  BY <1>2, <1>3 DEF ExclusiveClaim, output
<1>7. JoinInv' /\ ~Joined'
  BY <1>1 DEF JoinInv, Joined, PoolLive
<1>8. QED
  BY <1>4, <1>5, <1>6, <1>7
     DEF Claims, Joins, WorkersGoneAfterJoin, GarbageOnlyIfNoneDrained

(* Every other step of main leaves the workers and the slots alone.        *)
Aside == UNCHANGED <<workers, mutex, output>>

(* What main does beside the pool keeps the claims.                       *)
LEMMA AsideClaims ==
  ASSUME IInv, Aside, PoolLive' => PoolLive /\ nextIdx' = nextIdx
  PROVE  Claims'
<1>1. \A u \in Threads : (Owns(u)' <=> Owns(u)) /\ (Critical(u)' <=> Critical(u))
  BY DEF Owns, Critical, At, Aside, workers
<1>2. UNCHANGED <<wpc, tuIdx, mutex, tu>>
  BY DEF Aside, workers, output
<1>3. MutexInv'
  BY <1>1, <1>2 DEF IInv, MutexInv
<1>4. PoolLive' => ClaimInv'
  BY <1>1, <1>2 DEF IInv, ClaimInv, At
<1>5. ExclusiveClaim'
  BY <1>1, <1>2 DEF IInv, ExclusiveClaim
<1>6. QED
  BY <1>3, <1>4, <1>5 DEF Claims

(* The join loop ends with every worker ended; if one came to the end of   *)
(* the files every slot was claimed, nobody owns one, and so all are       *)
(* written.                                                                *)
LEMMA MainDestroy == ASSUME IInv, DestroyPool PROVE Joins'
<1> USE ParsePoolAssumption DEF IInv, TypeOK, Threads, Slots, DestroyPool,
        workers, output, At
<1>1. \A t \in Threads : wpc[t] \in Ended \cup {"absent"}
  BY DEF JoinInv
<1>2. \A t \in Threads : ~Owns(t)
  BY <1>1 DEF Owns, Ended
<1>3. ASSUME NEW t \in Threads, wpc[t] = "drained", NEW f \in Slots
      PROVE  tu[f] # Unwritten
  BY <1>2, <1>3 DEF ClaimInv, PoolLive
<1>4. QED
  BY <1>1, <1>3 DEF Joins, JoinInv, WorkersGoneAfterJoin,
     GarbageOnlyIfNoneDrained, Joined, PoolLive

(* Every step of main keeps the claims and the joins.                     *)
LEMMA MainStep == ASSUME IInv, Main PROVE Claims' /\ Joins'
<1> USE DEF PoolLive
<1>1. CASE CreateThread
  BY <1>1, MainCreate
<1>2. CASE DestroyPool
  BY <1>2, MainDestroy, AsideClaims DEF DestroyPool, Aside
<1>3. CASE LoadDatabase \/ CreateFails \/ AllCreated \/ JoinThread \/ JoinMissing
  <2> USE <1>3 DEF LoadDatabase, CreateFails, AllCreated, JoinThread, JoinMissing
  <2>1. Claims'
    BY AsideClaims DEF Aside, pool
  <2>2. JoinInv'
    BY ParsePoolAssumption DEF IInv, TypeOK, JoinInv, Threads, At, workers
  <2>3. ~Joined'
    BY DEF Joined
  <2>4. QED
    BY <2>1, <2>2, <2>3 DEF Joins, WorkersGoneAfterJoin, GarbageOnlyIfNoneDrained
<1>4. CASE \/ CleanDiagnostics \/ ErrorDiagnostics \/ GarbageDiagnostics
           \/ StartAnalysis \/ Analyse
  <2> USE <1>4 DEF CleanDiagnostics, ErrorDiagnostics, GarbageDiagnostics,
                   StartAnalysis, Analyse
  <2>1. Claims'
    BY AsideClaims DEF Aside, pool
  <2>2. JoinInv'
    BY DEF JoinInv
  <2>3. Joined
    BY DEF Joined
  <2>4. QED
    BY <2>1, <2>2, <2>3 DEF IInv, Joins, WorkersGoneAfterJoin,
       GarbageOnlyIfNoneDrained, At, workers, output
<1>5. QED
  BY <1>1, <1>2, <1>3, <1>4 DEF Main
-----------------------------------------------------------------------------
(* The invariant is inductive.                                            *)
LEMMA IInvStep == IInv /\ [Next]_vars => IInv'
<1> SUFFICES ASSUME IInv, [Next]_vars PROVE IInv'
  OBVIOUS
<1>1. TypeOK'
  BY TypeStep DEF IInv
<1>2. CASE Main
  BY <1>1, <1>2, MainStep DEF IInv, Claims, Joins
<1>3. CASE \E t \in Threads : Worker(t)
  BY <1>1, <1>3, WorkerClaims, WorkerJoins DEF IInv, Claims, Joins
<1>4. CASE UNCHANGED vars
  BY <1>1, <1>4 DEF IInv, MutexInv, PoolLive, ClaimInv, JoinInv, ExclusiveClaim,
     WorkersGoneAfterJoin, GarbageOnlyIfNoneDrained, Critical, Owns, At, Joined,
     vars, main, pool, output
<1>5. QED
  BY <1>2, <1>3, <1>4 DEF Next, Stopped

(* prong_thread_pool.c and the create and join loops of main: claims stay  *)
(* exclusive and accounted for by next_file_idx, whatever the scheduling,  *)
(* the parse results and the pthread_create failures.                      *)
THEOREM Invariance == Spec => []IInv
BY InitIInv, IInvStep, PTL DEF Spec

(* Types: no counter of the pool leaves its range.                         *)
THEOREM TypeCorrect == Spec => []TypeOK
BY Invariance, PTL DEF IInv

(* prong_thread_pool.c:34-45: with any number of workers and files, no two *)
(* workers own the same slot of tu_array, nor one that was written.        *)
THEOREM ClaimsExclusive == Spec => []ExclusiveClaim
BY Invariance, PTL DEF IInv

(* prong.c:132-139: past the join loop no worker runs.                     *)
THEOREM JoinWaitsForAll == Spec => []WorkersGoneAfterJoin
BY Invariance, PTL DEF IInv

(* prong_thread_pool.c:88-93: files are left unparsed only when no worker  *)
(* came to the end of the file list.                                       *)
THEOREM OneWorkerParsesAll == Spec => []GarbageOnlyIfNoneDrained
BY Invariance, PTL DEF IInv

(* prong_thread_pool.c:79-86: no step overwrites a slot that was written.  *)
LEMMA WriteOnceStep ==
  ASSUME IInv, [Next]_vars
  PROVE  \A f \in Slots : tu[f] # Unwritten => tu'[f] = tu[f]
<1>1. CASE UNCHANGED tu
  BY <1>1
<1>2. ASSUME NEW t \in Threads, Parse(t) \/ ParseFails(t)
      PROVE  \A f \in Slots : tu[f] # Unwritten => tu'[f] = tu[f]
  BY <1>2 DEF IInv, TypeOK, ExclusiveClaim, Owns, At, Parse, ParseFails, Write
<1>3. UNCHANGED tu \/ \E t \in Threads : Parse(t) \/ ParseFails(t)
  BY DEF Next, Main, Worker, Stopped, vars, output, LoadDatabase, CreateThread,
     CreateFails, AllCreated, JoinThread, JoinMissing, DestroyPool,
     CleanDiagnostics, ErrorDiagnostics, GarbageDiagnostics, StartAnalysis,
     Analyse, Lock, ReadIdx, AdvanceIdx, Drain, Unlock, GatherArgs
<1>4. QED BY <1>1, <1>2, <1>3

(* prong_thread_pool.c:79-86: every slot of tu_array is written once.      *)
THEOREM WrittenOnce == Spec => SlotWrittenOnce
<1>1. IInv /\ [Next]_vars =>
        [\A f \in Slots : tu[f] # Unwritten => tu'[f] = tu[f]]_vars
  BY WriteOnceStep
<1>2. QED
  BY <1>1, Invariance, PTL DEF Spec, SlotWrittenOnce
=============================================================================
