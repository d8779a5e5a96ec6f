# Verification of prongc

prongc is a static analyser for C: given source files and the names of root
functions (thread entry points), it walks the libclang AST of every root,
collects the variable accesses of the root and of the functions it calls, and
prints the variables two roots share, or, with `--track-locking`, those they
share without the same locks. This directory holds TLA+ modules of its core,
the TLC configurations that check them, and TLAPS proofs of what holds for
every size.

Paths such as `core.c` mean `src/src/core.c`; headers are in `src/inc/`.

## 1. Inventory

| Part | State | Operations | Hard because | Correct when |
|---|---|---|---|---|
| Parsing stage (`prong.c`, `prong_thread_pool.c`) | `tu_array`, `next_file_idx`, `num_active`, mutex, database handle | create, claim a file, parse, fail, drain, join, destroy, read diagnostics | threads; failures of one worker; slots read without a lock | every file is claimed once, `main` reads after the last worker, the stage ends |
| Function search (`core.c`, `prong.c`) | root functions found, in the order of their definitions | compare a definition with every call of the command line, compare the counts | two lists paired by index, in two orders | a root is visited with its own arguments |
| AST traversal (`core.c`, `cursor_arr.c`) | ancestry stack, `last_visited`, current function, callees | visit a cursor, unwind ifs, push accesses, enter a callee | a stack shared by nested traversals; ends of ifs noticed late | the entries of a function are those of its source, in order, markers balanced |
| Access footprint (`var_access.c`, `core.c`) | entries of a root function | push, nullify, mark lock calls, copy in call order | order of inlined callees | every access that matters is in the footprint |
| Lock ranges (`lock_tracking.c`, `core.c`) | array of ranges with list pointers, branch depth | acquire, release, split at an if, reopen at an else, grow | loops that append to the array they walk; reallocation under pointers; unsigned depth | an access is covered by exactly the locks held there |
| Race search (`prong.c`, `core.c`) | footprints of all roots, two arrays of ranges | compare pairs, judge, report, nullify | nullified accesses are seen by later passes | every unprotected pair is reported, once |
| Argument unwinding (`core.c`) | USRs of callee accesses | replace a parameter's USR by the argument's | recursion, index alignment | an alias is compared under the caller's USR |
| String list (`dyn_aos.c`) | packed data, table of pointers | push, pop, find, append, reset | reallocation under pointers, unsigned indices | every string is found where it was pushed |
| Growable arrays (`var_access.c`, `cursor_arr.c`, `func_info.c`) | size, capacity | push | bytes compared with element counts | no write past the block |
| Command line, lock pairs (`core.c`, `lock_tracking.c`) | lists of names | split, parse | string parsing | the lists are those of the arguments |
| Trace mode, output, logging | none that later steps read, but for nullified accesses | print | | |

`main` calls the parts in that order. They interact through `struct prong_priv`
(the worker threads share it with `main`), through the footprint array of each
root function, and through the types of footprint entries, which the search
changes while later passes still read them.

The hazards, each at its line with the properties that watch it, are listed in
`PROJECT.json`.

## 2. Modules

| Module | Models | Extends |
|---|---|---|
| `Accesses` | how a variable reference is classified, by the cursors on the ancestry stack | |
| `Callees` | `unwind_func_info`, `resolve_var_access_alias`, `build_var_access_footprint` | `Accesses` |
| `Traversal` | the function search, the visitor with its callees, and `main` up to the footprints | `Callees` |
| `Footprint` | the abstract view of that: the entries a root function can have | |
| `LockRanges` | `annotate_lock_protection_ranges` and the functions of `lock_tracking.c` it calls | `Footprint` |
| `LockHeld` | the query `get_lp_fields_in_range`, and which locks a function really holds | `LockRanges` |
| `RaceSearch` | the pair loops of `main`, `find_va_overlap`, `find_unprotected_va` | `LockHeld` |
| `ParsePool` | worker threads and `main` up to the analysis | |
| `AbstractList` | what a list of strings promises | |
| `StringList` | `dyn_aos.c`: the packed block, the table of pointers, their growth | |
| `MCTraversal`, `MCStringList`, `MCLockHeld`, `MCRaceSearch` | programs, widths of strings, hashes of locks, for TLC | |
| `LockRangesProofs`, `RaceSearchProofs`, `ParsePoolProofs`, `StringListProofs`, `TraversalProofs` | theorems | the module named |
| `LockHeldProofs` | theorems: the ranges against the locks held; `RaceSearchProofs` extends it | `LockHeld`, `LockRangesProofs` |
| `WalkProofs` | theorems: what the walk has to do with the tree it walks | `TraversalProofs` |
| `FootprintProofs` | theorem: what the walk pushes is a `Footprint` | `WalkProofs` |

Two refinements tie them: `Traversal` implements `Footprint`
(`ImplementsFootprint`), on which the lock analysis and the race search rest,
and `StringList` implements `AbstractList` (`ImplementsList`).

**Accesses, Callees, Traversal.** libclang is external: a program is a tree of
cursors with kind, children and the thing named, and `clang_visitChildren` a
preorder walk, kept as the `todo` list of a frame. A frame is an active
`process_func_info`; entering a callee pushes one, so `ancestry_stack`,
`last_visited` and `touched_func_usrs`, which all frames share in the code, are
single variables here. A visit takes several steps in the code's order:
`PushParent`, `PopAncestor` and `Settle` keep the stack and push pending
`EndIf`s, `MarkBranch` pushes a marker, then one action per kind of cursor.
`infos` are the `FuncInfo`s, numbered in order of creation. Once all roots are
visited, `Unwind` does one call of `unwind_func_info` and `Build` concatenates
the footprints. A callee is asked whether it is in a kernel header and has a
body (`Callee`); a root is analysed wherever it is defined (`Root`). `trails` is
a history variable: the entries in the order they
were pushed, whichever function they went to. A USR is the sequence of the
variable and its fields; that one begins another (`strncmp`) is the relation
`UsrBegins`. An operator like `+=` is a cursor of its own kind (`CompoundAssign`).
What a call refers to decides whether it is entered, skipped or not a call of
anything: `fp(x)` and `ops->fn(x)` refer to the declaration of a variable or a
field, which the visitor takes for a function without a body (`FirstCall`,
`CallExternal`); only a call through an expression, `tab[i](x)` or `(*fp)(x)`,
refers to nothing (`SkipCall`). Such a declaration is assumed to have no children
to visit: an initialiser behind it is outside the syntax of the programs.

**AbstractList, StringList.** A block is an address and a function from offsets
to bytes; a byte says which string it is part of and where, so that a stale
pointer reads garbage and not, by luck, the right string. `data` may differ
from the address of the block: after a failed `reallocarray` it is NULL. Each
reallocation is a step, as `aos_push_string` starts over by `goto`. When the
table of pointers cannot grow, `strings` is NULL and `count` what it was
(`GrowTableFails`, `NullTable`): every lookup in range then reads through NULL,
and `AbstractList` says of that moment that all its strings may become
unreadable. When the block cannot grow, the strings stay where they are. Any use
of the list after a failure is undefined (`UseAfterFailure`), and what becomes of it
is not followed.

**Footprint.** `footprint` is `access_footprint`; `nesting` abstracts the
ancestry stack to the part (condition, then, else) of each open if. One action
per kind of entry; `push_var_access` appends. Reads, writes and escapes are one
type, `Access`: no later step tells them apart. `EndIf` is pushed when a cursor
outside the if is met, so a footprint may end with open ifs, and the pending
ones of the function visited before may open the next footprint
(`EmitStrayEndIf`): both shapes are in the grammar. An else-if is an else block
that is itself an if. `Traversal` shows that this is what the visitor pushes for
every program in which no then or else block of an if is visited after the call of
an analysed function inside that if, and no condition holds an if (`Regular`).

**LockRanges.** `fields`, `capacity` and `buffer` are the array: a list pointer
is the pair of a block and an index, so that a pointer left behind by
`reallocarray` is a pointer to another block. `pos` and `depth` are `i` and
`branch_depth`. Each iteration of the copying loops is an action
(`SplitOpenRange`, `ReopenEndedRange`, `NextField`), since each may reallocate.
When the block moves, `add_lock_protection_copy` goes on with a pointer into the
freed one, for two things. It reads the element to copy from there (line 262):
`Readings` is what that may give, the element as it was or, for the parts the
caller does not overwrite in the copy, the hash and the depth, those of one of the
`Leftovers`, a constant set of what an allocator might leave there. And the caller
writes link, end and depth of the source there: these writes are lost. Both are
undefined in C. The outcomes modelled are all readings and, of the writes, that they
have no effect on the new block; a fault, or a heap damaged by the writes, is not
modelled. In practice glibc overwrites the first 16 bytes of a freed chunk, of an
element the fields `lock_va`, which is only printed, and `next_prot_range`, which
the copy does not keep, so that the first reading is what is seen there;
`RangesStructure` and the theorems take in the others. `SizeMax` stands for
`SIZE_MAX`, as the end of an open range and as the value the depth wraps to.

**LockHeld.** `CoveringLocks` is what the ranges say about a position. The
reference beside it is independent of the ranges: `HeldAt` runs the footprint
and keeps the locks held on every path (`must`) and on some path (`may`);
`HeldStraight` ignores branches: a lock acquired and not released since.
`HeldAt`, and `ListOf`, which follows an element's list back to its acquisition,
are recursive functions, so that theorems can be stated about them.

**RaceSearch.** `fps` are the footprints as collected and `nulled` the
entries whose type a report set to `VarAccess_Null`; `Current` puts the two
together. A pass annotates both footprints step by step with the actions of
`LockRanges`, then compares. `at` moves through the double loop in its order;
comparisons without effect are skipped in one step.

**ParsePool.** One action per step of `parse_file_thread` that another thread
can observe: lock, read the counter, advance it, drain or unlock, gather the
arguments, parse. `main` is the other process. `pthread_create` may fail, and
then the join is of an uninitialised `pthread_t`: undefined, so it fails or
crashes. An unwritten slot holds garbage: libclang does with it anything, also
crash. libclang's answers are external: a unit, a unit with errors, a failure.

## 3. Runs

Bounds are in the `.cfg` files. Model values stand for lock objects `m1`,
`m2`; variables and functions are plain values.

| Run | Question | Bounds, and why they suffice |
|---|---|---|
| `RangesStructure` | does the array stay well formed, are the covering locks exactly those held up to the first else, does every scan end? | 7 entries hold an acquisition, two nested ifs, a release and an else; one element of initial room makes the array grow at every size; both outcomes of `reallocarray`, and a freed element that reads as it was or with another hash and depth; one stray `EndIf` wraps the depth |
| `MustCovered` | is a lock held on all paths always seen? | 9 entries: acquisition, if, release in one branch, access in the other |
| `ParsePoolRun` | are claims exclusive, joins complete, slots written, and does the stage end? | 3 workers and 3 files: up to two creations fail, so there are runs with as many files as workers and with more |
| `Races` | are two accesses to one variable ever both left unreported without lock tracking, is anything printed twice, what does silence mean with tracking? | 2 functions, with and without tracking; of up to 4 entries, with an if, where they use one lock, and straight-line of up to 3 where they use two (`SmallWithTwo`, which bounds the footprints and nothing else) |
| `Traversal` | is the hand-kept stack right, is every reached function collected, where it is called and with the right callee, are assignments recognised, do parameters get the right names, is the result a `Footprint`, does the walk end? | 963 programs, with and without tracking |
| `StringList` | does every string stay readable where it was pushed, through moves and up to a failure? | up to 3 strings of widths 1 and 4; a block of 2 bytes and a table of 1 entry, so both grow at once and the block up to three times; two addresses, so it moves or not, up or down; either allocation fails |

The programs of `Traversal` are in `MCTraversal`, in three families and one
program with a root in a kernel header. *Control*:
two roots and two callees, each other's callers and recursive, around ifs, elses
and lock calls. *Expressions*: every kind of left-hand and right-hand side that
`AccessType` tells apart, in simple and compound assignments and in arguments of
known, unknown and indirect calls, with statements behind it that depend on the stack being right.
*Naming*: two roots with parameters, one USR the prefix of another, the
command line in either order, with the wrong number of arguments or none, one of
the two functions defined in two units; beside them, a root that passes a pointer on.
`MaxEntries` is there for the bounds of `Footprint`; no footprint comes near it.

Hashes of different lock objects differ in all runs (`HashTwo`); a collision of
the FNV hash would merge two locks. `CHECK_DEADLOCK` is on, and a finished
program stutters explicitly, but for `StringList`: a list that is undefined goes
nowhere.

Properties that would hold whatever the code does are not stated. The mutants
in `PROJECT.json` are the bugs each property was seen to catch; their
operators are marked `Faulty` in the modules and used by no specification.

### Disagreements found

Six runs end in a counterexample to something the repository says. Each checks one
property, the quoted sentence in terms of the model; `findings` in `PROJECT.json`
has the quotes.

| Run | What the code does |
|---|---|
| `ElseLostInNested` | the else of a nested if does not get back the ranges its then block ended: the depth looked for (`lock_tracking.c:326`) is never on a list end (`TailsHaveDepthZero`) |
| `ElseLostByMove` | a copy that moves the array is never linked (`lock_tracking.c:302-309`) |
| `RacePair` | two accesses under no lock at all are judged protected, as 0 = 0 ranges cover them, once each function acquires some lock somewhere: `core.c:1120` only makes up for functions without any range |
| `CalleeInOneRoot` | `touched_func_usrs` is kept from root to root (`core.c:582`, `prong.c:207`): what two roots reach is in the footprint of the first only |
| `ArgumentsLost` | functions in the order of their definitions and calls in that of the command line are paired by index (`prong.c:221`): a root is unwound with the arguments of another function, and one without parameters looks past its empty list, where `count-1` wraps (`dyn_aos.c:181`) |
| `ParseArgs` | clang arguments of the command line are dropped when the database gives none (`dyn_aos.c:190`) |

They bound what can hold, and the properties of the passing runs say under which
condition they do: `MustHeldCovered` without nesting and moves, `ThenPathExact` and
`SilenceMeansSameLocks` before the first else, the second for locks no call on which
was reported (`LockIntact`), `StackExact` before the first analysed call,
`NoWildParameter` with calls and definitions in one order and
`SameArgumentSameUsr` with no USR beginning another besides. What lies outside is in
the table above or the list below. `ReachedCollected` says that
`touched_func_usrs` leaves no reached function out of all footprints; that it is in
each one it belongs to is more, and false (`CalleeInOneRoot`).

Seen in the model and given no run of their own:

- *An access without a partner.* A reported access is nulled (`core.c:1002`, `1145`),
  so another access to the variable may be left with no one to be reported with:
  of two accesses in one function and one in the other, the second is in no report.
  `README.md:117` promises the overlapping accesses. `OverlapExhaustive` says what
  is true: no two are both left.
- *A range copied from a freed block* (`lock_tracking.c:262`) need not be of the lock it
  continues (`Readings`). `ThenPathExact` holds all the same, because such a copy is
  never linked.
- *A string list whose table cannot grow* keeps its count, and lookups in range read
  through NULL (`dyn_aos.c:75`, `TableLost`), although `dyn_aos.c:175` promises the
  string.
- *A compound assignment* is no `BinaryOperator` of libclang (`cursor_arr.c:118`), so its
  target is typed a read, although `cursor_arr.c:124` means "any type of assignment".
- *A prefix taken for a parameter.* A parameter whose USR begins another's takes its
  accesses too (`core.c:789`); `ArgumentsMapped` forbids that as well, and `NamesClear`
  excludes it where names are shown to be right.
- *Aliases.* The argument to rename in a callee is looked up at the index of the Call
  entry, always `NO_IDX` (`core.c:619`, `704`): nothing is renamed, although
  `core.c:761` says so.

Three more came out of the proofs, where the bounds of the runs had hidden them,
and the properties and models now say so:

- *Reported lock calls.* `va_is_placeholder_type` leaves out lock calls
  (`var_access.c:214`), so they are compared like accesses, a report in the pass over
  functions (1, 2) may nullify one, and the pass (2, 1) then annotates a footprint
  without it. With `f` = acquire m3, acquire m1, acquire m1, access v, acquire m2 and
  `g` = acquire m3, acquire m1, acquire m2, access v, release m1, two accesses under
  different locks stay unreported. `SilenceMeansSameLocks` therefore leaves out the
  locks a call on which was reported (`LockIntact`; m1 and m2 in the example), and says that
  no other lock is misjudged. On the other hand every pair is judged in both
  directions, and in one of them a lock that only one of the accesses has is missed:
  for silence the comparison of the numbers of locks in `find_unprotected_va` adds
  nothing.
- *One call, two definitions.* With `b()` and `b(buf)` on the command line and a `b`
  without parameters defined in two units, both definitions match the first call,
  the counts agree at `prong.c:197`, and the second definition is unwound with the
  arguments of a call it does not match. Equal numbers do not mean paired calls;
  `InOrder` compares each pair.
- *A root in a kernel header* is analysed (`core.c:74-79` sets its flags without
  asking), although the same function as a callee is skipped (`core.c:608`).

Others are visible in the actions and need no run. The else of an outermost if
also reopens ranges that were released before the if (`SelectedInactive`). A
stray `EndIf` wraps `branch_depth` to `SIZE_MAX` (`EndIf` of `LockRanges`),
although `core.c:1047` speaks of depth 0 at the root. A parse failure, printed
as "Quitting", ends one worker, and `main` goes on (`ParseFails`). A range
split at an if makes an unconditional hold "conditionally protected" before the
branch (`Verdict`).

*Callees and the shared stack.* The first cursor of an analysed callee pops the
caller's cursors off `ancestry_stack` (`core.c:154`, `PopAncestor`), and nothing puts
them back. The `EndIf`s of the caller's open ifs land in the callee, accesses behind
the call look unconditional, and an else behind it has no if. Hence `StackExact`
and `ImplementsFootprint` are conditional. For the same reason an argument
visited after an analysed call in the same call has lost its call expression:
`&x` is a read there and not an escape (`InCall`). The call of a function entered
before, by this root or another, has not even a Call entry (`SkipCall`).

*Names.* The `next_callee` of `unwind_func_info` stops at the first callee in a system
header (`resolve_var_access_alias`; as nothing is renamed anyway, to no effect). The
parameters of a function-pointer parameter are `ParmDecl`s as well and would be pushed into
`params` (the programs have none). Lock pairs of the user never mark an entry
(`lock_primitive_type`), `aos_to_lock_pair_array` tests an `unlock_func` nobody
set, and the default pair at `lock_tracking.c:21` releases
`raw_spin_lock_irqsave` with `raw_spin_lock_irqrestore`.

*Classification.* `f(x++)` reads `x`. In `x[y[i]] = ...` the inner `y` is a
`PtrWrite`. An array subscripted outside an assignment pushes no entry for its
base (`Subscripted`).

*Lists.* No caller looks at the result of `aos_push_string`; when the block could
not grow, the next push rebases every pointer by its distance from NULL
(`UseAfterFailure`). The other growable arrays compare bytes with element
counts and so grow early.

## 4. Fairness

`LockRanges!FairSpec` is weak fairness of the scan alone: it is sequential code
in one thread; nothing obliges a footprint to be completed. `ParsePool!FairSpec`
is weak fairness of `main` and of each worker: the kernel schedules runnable
threads and libclang calls return. No fairness of the mutex is assumed; a worker
overtaken at the lock is overtaken by one that advances the counter, which is
possible only a bounded number of times before the others are gone.

`Traversal!TFairSpec` is weak fairness of its next-state relation: one thread
that waits for nothing. That it ends is still a question, as callees may be
recursive and `unwind_func_info` follows callee pointers.
`StringList!LFairSpec` is weak fairness of the steps of a push under way; nobody
has to call one. `RaceSearch` is checked for safety only.

## 5. Proofs

Eight modules hold theorems; `tlapm M.tla` checks each from nothing, most in a
minute or two, `TraversalProofs`, `WalkProofs` and `FootprintProofs` in five to ten.
`PROJECT.json` lists the results; those that state a property of a run name it.

Assumptions on the constants: `FootprintAssumption`, `LockRangesAssumption`
(hashes are naturals, the initial capacity is positive, positions are below
`SIZE_MAX`, `reallocarray` does something, and what a freed block gives as hash and
depth, `Leftovers`, any set of these, has their types), `RaceSearchAssumption` (there are
root functions, and the tracking modes are Booleans), `StringListAssumption`
(every string has a byte, the initial sizes are positive, NULL is no address of
a block), `ParsePoolAssumption` (at least one file, which `process_args`
enforces), `ProgramsAssumption` (an AST is a tree in which children and parents
agree, a function's body is the root of one, and the cursors of a kind have the
children C gives them: an if a condition and a then block, an assignment two
sides), `UsrBeginsAssumption` (a USR begins itself) and `TrackingAssumption`. Two
hypotheses are stated in theorems instead, since the code does not guarantee
them: `HashInjective` (no two lock objects have the same FNV hash; a collision
merges two locks) and `Flat` (no nested or stray ifs, and an array extended in
place; `ElseLostInNested` and `ElseLostByMove` show the conclusion false without
it). The runs of the same properties satisfy them.

Several definitions are recursive functions: `HeldAt`, `ListOf`,
`build_var_access_footprint`, and the concatenation `FlattenSeq` of the community
modules. The library's induction theorems take an operator as a parameter, which
the provers cannot instantiate, but a statement about a bounded recursion can be
proved by the least counterexample instead: the set of arguments at which it fails
is a set of naturals, so if it is not empty it has a least element (`LeastNat`,
`LeastOf`, from the well-foundedness of `<`), and the equation of the function at
that element contradicts it. That such a function exists is proved the same way
(`HeldExists`, `FlattensExists`).

**Lock ranges.** None of the structural properties is inductive by itself: that
an open range has no successor is needed to know that a release ends the range
it found and no other, that `k` is inside the array is needed to know which
element a copy is of, and depth 0 at list ends is passed on by a copy only
because its source was a list end, unless it is read from a freed block, which may
give any depth (`TailDepths`). `IInv` is the conjunction: types,
`GoodField` of every element (open implies no successor, a successor is in the
block in use and further on, no successor implies depth 0), room in the block,
and the bounds of the running loop. `GoodField` is a property of one element,
so `AppendKept` reduces every action that appends to the element it appends and
the one it rewrites; `RebasedFacts` is the case of a move, where the rewritten
element keeps its old contents. `ArrayKept` also records that final ends and
successors are unchanged (`Frozen`), which gives `RangesStayFrozen`. The
results hold for every footprint of the grammar, any nesting, any number of
locks with any hash function, and any sequence of moves.

`RangesOfAListDisjoint` (one acquisition never covers a position twice) needs
more: the last range of a list, once ended, lies behind the scan
(`EndedBehind`), and a successor starts no earlier than its predecessor ends
(`InOrder`). `OrderInv` says so for every element; linking a copy keeps it
because only a list end is linked and its copy starts at the position of the
scan.

**What the ranges mean.** `ThenPathIsExact`: for every footprint, any nesting and
any moves of the array, the ranges cover an access in front of every else with
exactly the locks held there. That holds for all `Leftovers`: a copy that may have
the wrong lock is one made while the array moved, so no list leads to it, and it
is not a list start. The property is about the end of the scan; `ScanInv`
says it of the part scanned (`ExactBehind`) and adds what carries it on
(`FrontInv`): before every else, a lock is held at the scan exactly if a walk along
its lists reaches an open range, and a range starts and ends behind the scan or
where a condition the scan is in ends. So what the scan still does to a range does
not change who covers an access it has passed.

`MustHeldIsCovered` (under `Flat`): a lock held on every path covers the access.
Exactness is lost behind an else, which reopens too much (`SelectedInactive`), so
`MustInv` follows each lock held on every path instead: in the block being read an
open range of it is reached and another one or the same covers the position
(`HeldCovered`), and on the way around the block a list of it still has its last
range (`AroundTailed`), which the loop of the else finds while it has not passed it
(`PendingAt`). Which block that is, is known from the last marker behind the scan
(`Placed`), by the grammar of flat footprints (`GrowInv`).

**Race search.** `RInv` places the search: the pair under comparison is a real
one (`PairInv`), entries ever reported are null (`ReportedOnce`), and, without
tracking, function pairs searched have no overlap left that is not null and the
pairs of positions still to be compared all come after the current one
(`OverlapInv`). Each comparison skips to the next interesting pair; that there is a first
one is the well-foundedness of the lexicographic order of the double loop
(`WellFoundedInduction`). So no access is printed twice (`ReportsAreDisjoint`),
and without lock tracking no two accesses to one variable are left that are both
unreported (`OverlapSearchExhaustive`): for
any number of roots, any footprints, any order of passes.

`SilenceIsSameLocks` is what silence means with lock tracking, and composes the two
components. While a pass annotates, the array under construction satisfies the
invariants of `LockRanges` and `ScanInv` on the footprint with the nulled entries
taken out, so each finished array is exact for every lock no call on which is nulled
(`ArrayExact`). Of two accesses a pass went over in silence, the locks of the first
that are intact in both functions are among those of the second (`PassedInv`); the
pass in the other order gives the converse.

**String list.** That every pointer is live is not inductive: a pop looks up the
last string to know how much to give back. `LInv` says what is in the block
instead: some sequence of strings lies in it gap-free from offset 0 (`Layout`,
`Stored`), and `strings[]` points to its members (`Pointers`). Offsets do not
change when the block moves, so a reallocation has only the bytes to keep and
the pointers to shift, which gives `PointersStayLive`; a table that could not grow
has only NULL entries (`TableLost`), of which nothing but their number is kept.
`ContentsAre` says that
what is read through the table is the sequence laid out, which gives the
refinement `ListImplemented`: every step pushes or pops one string of
`AbstractList`, empties it, fails as it may, or changes nothing seen. For every
set of strings, their widths, initial sizes and addresses.

**Parsing stage.** `IInv` says that a claimed index is below the counter,
that an index below the counter is owned by exactly one worker or written,
that the mutex is held by the one worker in the critical section, and that
`main` past thread `i` in the join loop means that thread has ended. For any
number of files and threads: exclusive claims, single writes, no worker past
the join, and no unwritten slot if a worker drained the list.

**Walk of the AST.** `TInv` is proved for all programs, recursive or not. Callees
are younger than their callers (`InfoGood`), the active frames go from the root
visited to `current_func` by growing numbers (`FramesGood`), and the callee and Call
entry of a function are pushed together and never separated: unwinding rewrites
entries around Call entries, and nothing it marks or nulls is one, as a Call entry
has no argument index (`EntryGood`). Hence `TraversalTypes`, with the age of callees
that ends the recursions over them, and `CalleesAligned`: the `next_callee` counter
of `build_var_access_footprint` finds the function each Call entry stands for. (That
of `unwind_func_info` does not, after a callee in a system header.) `ParametersFound` needs
to know that a root with parameters gets them in its visit (`ParamsGood`: they are
pushed or still on the todo list).

`InlinedInOrder`: the recursive footprint of a root is the sequence of entries pushed
in its visit. `InlineInv` says it at every moment of the visit, for what would be
built now (`Follows`). It holds because of the shape of the `FuncInfo`s: the callee
pointers form a forest with the roots on top (`Forest`), and each active function is
the last callee of the one before it, whose last entry is its Call (`Chain`). So an
entry pushed to `current_func` goes to the end of the footprint of every active
function and of no other (`ActiveCallee`, `PushedLast`), and the active root is the
one visited (`ActiveRoot`). `FlattenAppend` and `ConcatAssoc` are the lemmas about
concatenation, and `BuildIs` says that the recursive equation has one solution.

**Walk and tree.** `WalkInv` places the walk in the tree. The todo list of a frame is
what is left of a function in preorder: behind a cursor comes the next child of each
of its ancestors that has one (`TodoFits`), and a caller waits at the cursor of its
call (`Waits`, `FramesFit`). Of the stack, which earlier functions and roots leave
things on, it says what holds whatever they left (`StackGood`): a cursor that is not
the last child of its parent hangs on its ancestors (`PlacedAt`), since what the visitor
pops is always the last child of something. A visit starts with nothing of its function
seen (`Fresh`) or goes on behind `last_visited` (`Between`). From it follow:

- `StackIsAncestors`: before the first call of an analysed function the stack covers all
  ancestors of what comes next (`ExactInv`), and an entry of a previous function on it
  would have to be an ancestor too.
- `ThenBlocksFound`: a `ThenBlock` is behind each `IfStmt` of a function, or due on its
  todo list (`ThenInv`). Nothing in between leaves the function with it due, and
  `build_var_access_footprint` keeps the order (`BuildCloses`, `FlattenCloses`).
- `ReachedFunctionsCollected`: every cursor of a function is pending or seen, and a function
  seen is touched (`VisitedInv`); a FuncInfo is made only for an untouched one, and
  entries with an origin come from a cursor that then leaves the todo list. `Reachable` is
  the least set closed under calls, so the functions with a FuncInfo contain it.
- `WritesTold`: the stack is searched from the top for an assignment, and what it
  finds depends on calls left on it. `ClassInv` says of each entry what the classification
  decided, for simple assignments, and `LeftIsLeft`, `UnaryAbove`, `TargetPath` and `TargetOnStack` that this
  is the assignment the variable is a target of.
- `ArgumentsNamed`: parameters are in the order of their declaration and each has one
  place (`ParamsOnce`). Until the work list of the unwinding has come to a root, its
  accesses have their own names, and then those of its arguments (`RootsUnwound`). A
  FuncInfo unwound later is not a root, so it renames nothing of one.

**From the walk to the lock analysis.** `FootprintsGrown` is the refinement
`ImplementsFootprint`: for every `Regular` program, what the visitor pushes while a
root is visited, callees included, grows by the steps of `Footprint`, the module the
lock analysis is proved about. Its hypothesis (`FootprintFits`) is that `MaxEntries`,
the bound of `Footprint`, is not reached; the code has no such bound. The nesting of
`Footprint` is a recursive function of the entries, and the stack is the visitor's; the
invariant (`NestInv`) ties one to the other:

- The ifs on the stack are the open ifs of the nesting, in order, and each then or else
  block not yet marked on a todo list hangs on an open if whose part comes before it
  (`Matched`, by `IfsAt` and `BranchesDue`). Between the parts of a step the stack meant is the
  one with the parent that `PushParent` is about to add (`Entered`).
- Functions that wait for a call have no block due (`QuietBelow`). This is where
  `Regular` is needed: a callee pops its caller's ifs, so a block marked after the call
  would have no if.
- Until the first cursor of a later root is placed, the stack may hold ifs an earlier
  root left open: the footprint is then nothing but their `EndIf`s (`StrayEnds`), and the
  place of that cursor decides when they are through (`NestPop`, `NestSettle`).

No condition is open when a root is left (`NoCondition`), so the next footprint may
begin (`NextRoot`).

**Model-checked only.** Liveness (`ScanTerminates`, `PushReturns`, both
`Termination`s) is out of the prover's reach. Every invariant and every safety property
of the passing runs is proved, under the hypotheses named above.

## 6. Not modelled

- The capacities of the growable arrays other than the lock ranges and
  `DynamicAOS` (their contents are the sequences of `Traversal`). They never
  grow too late, as bytes exceed elements, and no pointer is kept over a push:
  `current_func` points into the callees of its caller, which grow only while
  the caller is current. What is left is arithmetic.
- The command line, lock pairs and `parse_func_call`: character-level parsing.
  The models start from the lists it produces.
- Trace mode, with the global variables the function search collects for it:
  it prints, and the later passes read nothing it writes.
- Output, logging, call traces: no state.
- Release of memory at exit, and allocation failures outside `DynamicAOS`: the
  program leaves by `goto` to its end.
- What undefined behaviour may do beyond the outcomes named: a fault when a freed
  block or a NULL table is read, a heap damaged by writes to a freed block, and
  a string list used after a failed allocation.
- libclang, pthreads, `reallocarray`: external, as nondeterministic answers.

## 7. Plan

Done: `Footprint`, `LockRanges`, `LockHeld`, `RaceSearch`, `ParsePool`,
`Accesses`, `Callees`, `Traversal`, `StringList`, and theorems about each. Next, in
order of importance:

1. An abstract view of the parsing stage (a set of files, each parsed once) and
   of the search (pairs still to judge, reports that consume accesses), with
   `ParsePool` and `RaceSearch` shown to implement them.
2. Capacity arithmetic of the remaining growable arrays.
3. Operators for argument splitting and lock pairs against reference
   definitions over short inputs; trace mode.
