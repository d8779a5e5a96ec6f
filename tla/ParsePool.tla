------------------------------- MODULE ParsePool -------------------------------
(***************************************************************************)
(* The parsing stage: main (prong.c) loads the compilation database,       *)
(* starts the worker threads of prong_thread_pool.c, joins them, disposes  *)
(* of the database and walks the diagnostics of every translation unit     *)
(* before the analysis.  The workers take file indices from a counter      *)
(* under a mutex and write the slots of tu_array without one.              *)
(*                                                                         *)
(* libclang is external: a parse yields a translation unit, a unit with    *)
(* error diagnostics, or fails and leaves NULL.  Slots are indexed from 0  *)
(* as in C.                                                                *)
(***************************************************************************)
EXTENDS Integers, FiniteSets

CONSTANTS
  NumFiles,           \* file_names->count
  MaxThreads,         \* max_threads, the -j argument
  Commands,           \* slots of the files the database has arguments for
  ExtraArgs,          \* whether the command line has clang arguments
  MaxCreateFailures,  \* bound: pthread_create calls that fail
  SizeMax             \* SIZE_MAX, where num_active wraps

ASSUME ParsePoolAssumption ==
  /\ NumFiles \in Nat \ {0}
  /\ MaxThreads \in Nat
  /\ Commands \subseteq 0..(NumFiles - 1)
  /\ ExtraArgs \in BOOLEAN
  /\ MaxCreateFailures \in Nat
  /\ SizeMax \in Nat

VARIABLES
  mpc,        \* where main is
  i,          \* main's loop index: next thread to create or join, next slot
  ret,        \* what main returns
  db,         \* client_data->db
  wpc,        \* where each worker is
  tuIdx,      \* each worker's tu_idx
  args,       \* each worker's clang_args: the sources of its contents
  mutex,      \* the worker that holds thread_info->mutex, or 0
  nextIdx,    \* thread_info->next_file_idx
  numActive,  \* thread_info->num_active
  tu,         \* tu_array
  passed      \* the sources of the arguments each file was parsed with

Threads == 1..MaxThreads
Slots == 0..(NumFiles - 1)

main == <<mpc, i, ret, db>>
pool == <<mutex, nextIdx, numActive>>
output == <<tu, passed>>
vars == <<main, wpc, tuIdx, args, pool, output>>

(* A slot nobody wrote holds what malloc left there.                       *)
Unwritten == "garbage"
ParseResults == {"unit", "faulty"}

(* Why a worker has ended: it found no file left, or a parse failed.       *)
Ended == {"drained", "failed"}

Init ==
  /\ mpc = "load" /\ i = 1 /\ ret = "ok" /\ db = "none"
  /\ wpc = [t \in Threads |-> "absent"]
  /\ tuIdx = [t \in Threads |-> 0]
  /\ args = [t \in Threads |-> {}]
  /\ mutex = 0 /\ nextIdx = 0 /\ numActive = 0
  /\ tu = [f \in Slots |-> Unwritten]
  /\ passed = [f \in Slots |-> {}]

Goto(t, label) == wpc' = [wpc EXCEPT ![t] = label]
At(t, label) == wpc[t] = label
-----------------------------------------------------------------------------
(* Workers: parse_file_thread                                              *)

(* Faulty: the claim is not in a critical section.                         *)
ClaimUnlocked(t) ==
  /\ At(t, "lock")
  /\ Goto(t, "claim")
  /\ UNCHANGED <<main, tuIdx, args, pool, output>>

Lock(t) ==
  /\ At(t, "lock") /\ mutex = 0
  /\ mutex' = t
  /\ Goto(t, "claim")
  /\ UNCHANGED <<main, tuIdx, args, nextIdx, numActive, output>>

ReadIdx(t) ==
  /\ At(t, "claim")
  /\ tuIdx' = [tuIdx EXCEPT ![t] = nextIdx]
  /\ Goto(t, "advance")
  /\ UNCHANGED <<main, args, pool, output>>

AdvanceIdx(t) ==
  /\ At(t, "advance")
  /\ nextIdx' = nextIdx + 1
  /\ Goto(t, "check")
  /\ UNCHANGED <<main, tuIdx, args, mutex, numActive, output>>

(* Faulty: num_active goes below zero.                                     *)
DrainSigned(t) ==
  /\ At(t, "check") /\ tuIdx[t] >= NumFiles
  /\ numActive' = numActive - 1
  /\ mutex' = 0
  /\ Goto(t, "drained")
  /\ UNCHANGED <<main, tuIdx, args, nextIdx, output>>

(* No file is left: break.  num_active was never incremented.              *)
Drain(t) ==
  /\ At(t, "check") /\ tuIdx[t] >= NumFiles
  /\ numActive' = IF numActive = 0 THEN SizeMax ELSE numActive - 1
  /\ mutex' = 0
  /\ Goto(t, "drained")
  /\ UNCHANGED <<main, tuIdx, args, nextIdx, output>>

Unlock(t) ==
  /\ At(t, "check") /\ tuIdx[t] < NumFiles
  /\ mutex' = 0
  /\ Goto(t, "gather")
  /\ UNCHANGED <<main, tuIdx, args, nextIdx, numActive, output>>

(* aos_append_strings appends nothing to an empty list.                    *)
Appended(base) == IF base = {} \/ ~ExtraArgs THEN base ELSE base \cup {"extra"}

GatherArgs(t) ==
  /\ At(t, "gather")
  /\ args' = [args EXCEPT ![t] =
                Appended(IF db = "open" /\ tuIdx[t] \in Commands
                         THEN {"database"} ELSE {})]
  /\ Goto(t, "parse")
  /\ UNCHANGED <<main, tuIdx, pool, output>>

Write(t, result) ==
  /\ tu' = [tu EXCEPT ![tuIdx[t]] = result]
  /\ passed' = [passed EXCEPT ![tuIdx[t]] = args[t]]

Parse(t) ==
  /\ At(t, "parse")
  /\ \E result \in ParseResults : Write(t, result)
  /\ Goto(t, "lock")
  /\ UNCHANGED <<main, tuIdx, args, pool>>

(* Faulty: the worker reports the failure and goes on to the next file.    *)
SkipFailed(t) ==
  /\ At(t, "parse")
  /\ Goto(t, "lock")
  /\ UNCHANGED <<main, tuIdx, args, pool, output>>

(* Faulty: the worker reports the failure and parses the file again.       *)
RetryFailed(t) ==
  /\ At(t, "parse")
  /\ Write(t, "null")
  /\ Goto(t, "gather")
  /\ UNCHANGED <<main, tuIdx, args, pool>>

(* libclang failed: report it and goto exit_thread.                        *)
ParseFails(t) ==
  /\ At(t, "parse")
  /\ Write(t, "null")
  /\ Goto(t, "failed")
  /\ UNCHANGED <<main, tuIdx, args, pool>>

(* A crash of main takes its threads with it.                              *)
Worker(t) ==
  /\ mpc # "crashed"
  /\ \/ Lock(t) \/ ReadIdx(t) \/ AdvanceIdx(t) \/ Drain(t) \/ Unlock(t)
     \/ GatherArgs(t) \/ Parse(t) \/ ParseFails(t)
-----------------------------------------------------------------------------
(* main                                                                    *)

workers == <<wpc, tuIdx, args>>

(* Without --compdb-dir, or when the database cannot be loaded, db is NULL.*)
LoadDatabase ==
  /\ mpc = "load"
  /\ db' \in {"none", "open"}
  /\ mpc' = "create"
  /\ UNCHANGED <<i, ret, workers, pool, output>>

CreateThread ==
  /\ mpc = "create" /\ i <= MaxThreads
  /\ Goto(i, "lock")
  /\ i' = i + 1
  /\ UNCHANGED <<mpc, ret, db, tuIdx, args, pool, output>>

(* pthread_create fails and its result is ignored: threads[i] stays        *)
(* uninitialised.                                                          *)
Missing == {t \in Threads : t < i /\ At(t, "absent")}
CreateFails ==
  /\ mpc = "create" /\ i <= MaxThreads
  /\ Cardinality(Missing) < MaxCreateFailures
  /\ i' = i + 1
  /\ UNCHANGED <<mpc, ret, db, workers, pool, output>>

AllCreated ==
  /\ mpc = "create" /\ i > MaxThreads
  /\ mpc' = "join" /\ i' = 1
  /\ UNCHANGED <<ret, db, workers, pool, output>>

(* Faulty: only the first worker is waited for.                            *)
JoinAny ==
  /\ mpc = "join" /\ i <= MaxThreads
  /\ i = 1 => wpc[i] \in Ended
  /\ i' = i + 1
  /\ UNCHANGED <<mpc, ret, db, workers, pool, output>>

JoinThread ==
  /\ mpc = "join" /\ i <= MaxThreads
  /\ wpc[i] \in Ended
  /\ i' = i + 1
  /\ UNCHANGED <<mpc, ret, db, workers, pool, output>>

(* Joining an uninitialised pthread_t is undefined: it fails at once or    *)
(* the process crashes.                                                    *)
JoinMissing ==
  /\ mpc = "join" /\ i <= MaxThreads
  /\ At(i, "absent")
  /\ \/ mpc' = "crashed" /\ i' = i
     \/ mpc' = mpc /\ i' = i + 1
  /\ UNCHANGED <<ret, db, workers, pool, output>>

(* destroy_thread_pool, then clang_CompilationDatabase_dispose.            *)
DestroyPool ==
  /\ mpc = "join" /\ i > MaxThreads
  /\ mpc' = "diagnose" /\ i' = 0
  /\ db' = IF db = "open" THEN "disposed" ELSE db
  /\ nextIdx' = 0 /\ numActive' = 0
  /\ UNCHANGED <<ret, workers, mutex, output>>

(* A unit without error diagnostics, or NULL, which libclang gives none.   *)
CleanDiagnostics ==
  /\ mpc = "diagnose" /\ i < NumFiles
  /\ tu[i] \in {"unit", "null", Unwritten}
  /\ i' = i + 1
  /\ UNCHANGED <<mpc, ret, db, workers, pool, output>>

ErrorDiagnostics ==
  /\ mpc = "diagnose" /\ i < NumFiles
  /\ tu[i] \in {"faulty", Unwritten}
  /\ ret' = "ERR_SYNTAX"
  /\ mpc' = "exit"
  /\ UNCHANGED <<i, db, workers, pool, output>>

(* What libclang does with an uninitialised pointer is undefined: besides  *)
(* the two outcomes above, a crash.                                        *)
GarbageDiagnostics ==
  /\ mpc = "diagnose" /\ i < NumFiles
  /\ tu[i] = Unwritten
  /\ mpc' = "crashed"
  /\ UNCHANGED <<i, ret, db, workers, pool, output>>

StartAnalysis ==
  /\ mpc = "diagnose" /\ i = NumFiles
  /\ mpc' = "analyse"
  /\ UNCHANGED <<i, ret, db, workers, pool, output>>

(* process_tu_array looks for the functions named on the command line.     *)
Analyse ==
  /\ mpc = "analyse"
  /\ ret' \in {"ok", "ERR_NOT_FOUND"}
  /\ mpc' = "exit"
  /\ UNCHANGED <<i, db, workers, pool, output>>

Main ==
  \/ LoadDatabase \/ CreateThread \/ CreateFails \/ AllCreated
  \/ JoinThread \/ JoinMissing \/ DestroyPool
  \/ CleanDiagnostics \/ ErrorDiagnostics \/ GarbageDiagnostics
  \/ StartAnalysis \/ Analyse

Stopped == mpc \in {"exit", "crashed"} /\ UNCHANGED vars

Next == Main \/ (\E t \in Threads : Worker(t)) \/ Stopped

Spec == Init /\ [][Next]_vars

(* The kernel schedules every thread and libclang returns.  No fairness of *)
(* the mutex is assumed: a worker can lose it at most once per file.       *)
FairSpec ==
  /\ Spec
  /\ WF_vars(Main)
  /\ \A t \in Threads : WF_vars(Worker(t))
-----------------------------------------------------------------------------
(* Properties                                                              *)

TypeOK ==
  /\ mpc \in {"load", "create", "join", "diagnose", "analyse", "exit", "crashed"}
  /\ i \in Nat
  /\ ret \in {"ok", "ERR_SYNTAX", "ERR_NOT_FOUND"}
  /\ db \in {"none", "open", "disposed"}
  /\ wpc \in [Threads -> {"absent", "lock", "claim", "advance", "check",
                         "gather", "parse"} \cup Ended]
  /\ tuIdx \in [Threads -> Nat]
  /\ args \in [Threads -> SUBSET {"database", "extra"}]
  /\ mutex \in Threads \cup {0}
  /\ nextIdx \in Nat /\ numActive \in 0..SizeMax
  /\ tu \in [Slots -> ParseResults \cup {"null", Unwritten}]
  /\ passed \in [Slots -> SUBSET {"database", "extra"}]

(* A worker owns the slot it claimed until it has written it.              *)
Owns(t) ==
  \/ wpc[t] \in {"gather", "parse"}
  \/ At(t, "check") /\ tuIdx[t] < NumFiles

(* No two workers ever own the same slot, and the slot a worker owns has   *)
(* not been written: tu_array needs no lock.                               *)
ExclusiveClaim ==
  \A t \in Threads : Owns(t) =>
    /\ tuIdx[t] \in Slots /\ tu[tuIdx[t]] = Unwritten
    /\ \A u \in Threads \ {t} : Owns(u) => tuIdx[u] # tuIdx[t]

Joined == mpc \in {"diagnose", "analyse", "exit"}

(* Once main goes past the join loop no worker runs: main reads tu_array,  *)
(* resets the pool and disposes of the database unlocked.                  *)
WorkersGoneAfterJoin ==
  Joined => \A t \in Threads : wpc[t] \in Ended \cup {"absent"}

(* After the join a slot is uninitialised only if no worker came to the    *)
(* end of the file list: every worker left on a parse failure, or none was *)
(* created (-j0, or pthread_create failing).  One worker that keeps going  *)
(* is enough for every file to be parsed.                                  *)
GarbageOnlyIfNoneDrained ==
  Joined /\ (\E f \in Slots : tu[f] = Unwritten) =>
    \A t \in Threads : ~At(t, "drained")

(* A slot is written at most once: no unit is overwritten, and so leaked.  *)
SlotWrittenOnce ==
  [][\A f \in Slots : tu[f] # Unwritten => tu'[f] = tu[f]]_vars

(* The program ends, whatever libclang answers and however the threads     *)
(* are scheduled: no worker leaves with the mutex.                         *)
Termination == <>(mpc \in {"exit", "crashed"})

(* prong_thread_pool.c:74 "Append custom clang arguments from cmdline":    *)
(* every file parsed was parsed with them.                                 *)
ClangArgsPassed ==
  ExtraArgs =>
    \A f \in Slots : tu[f] \in ParseResults => "extra" \in passed[f]
=============================================================================
