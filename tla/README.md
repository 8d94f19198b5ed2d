# Verification of the CESS storage miner (cess-miner)

TLA+ modules of the miner's own protocol logic, TLC configurations that check
them on small instances, and TLAPS proofs of the safety properties for every
value of the constants. `PROJECT.json` lists the components, the runs, the
source lines behind each definition, a fault variant for each checked property,
the findings and the hazards.

## 1. The system

The miner is one Go process. `Node.Start` (`node/node.go`) is a scheduler loop
that starts each periodic task as a goroutine; a task owns a channel of capacity
one that holds a token while the task is not running (`<-ch; go task(ch)`, the
task's deferred function does `ch <- true`). The tasks share

* the chain, through the SDK's RPC client (queries may fail, an extrinsic may be
  lost, fail inside its block, or be in a block without the client learning it,
  also after the client has given up),
* the TEE workers, through gRPC (a call may fail or never be answered),
* the workspace on disk and a LevelDB cache, which survive a restart,
* flags and counters in memory (`node/runstatus`), the TEE record
  (`node/record`) and the space prover.

| Component | State it keeps | Operations | What makes it correct |
|---|---|---|---|
| scheduler `node/node.go` | task channels, timers | start each task, reconnect, check the space prover | a task never runs twice at once and is never lost |
| challenge dispatcher `node/challenge.go` | snapshot of the challenge, block number | decide which challenge is due, start `SyncTeeInfo`, the idle and the service worker | tokens are exclusive and conserved though dispatchers overlap; a dispatcher always ends |
| idle challenge `node/chlgidle.go` | record file `idle_proof`, cache marks | prove, submit, have a TEE verify, submit the result; resume after a crash | marks mean what they say; signatures and results belong to their round; the worker ends |
| service challenge `node/chlgservice.go` | record file `service_proof`, cache marks | the same in four branches (resume, empty, single request, batches) | the same, and the batches cover every challenged fragment |
| idle space `node/idlecert.go`, `idlerepl.go`, `idlegen.go`, `pois.go` | prover, `MinerPoisInfo`, idle files | certify, replace, generate idle files | prover, memory and chain agree on the space interval; no file is counted twice or deleted under challenge |
| tags `node/calctag.go` | `<fragment>.tag` files with an index | have a TEE tag each fragment, report a file's tags | indices are 1..n without gaps; reported tags stay on disk |
| file report `node/report.go`, `node/web/fragment.go` | report and file directories | receive and serve a fragment, report a file, move it to its place | a fragment the chain holds the miner to is on disk |
| restore `node/restore.go` | failed fragments | restore own and others' fragments | the same, and a copy does not damage what is there |
| chain sync, TEE record `node/chainsync.go`, `node/record/tee.go` | miner state, TEE list | synchronise both; tasks look workers up | an answer is attributed to the worker that gave it |
| startup `node/init.go`, `cmd/console`, `pkg/confile` | configuration, key, registration, workspace | configure, register, update the registration, set up the workspace; commands beside the process | an interrupted start can be repeated: one key, one payment, no foreign files |
| workspace, cache, run status, logger, web status, gRPC clients, utilities | files, LevelDB, counters | single operations | used through the modules above |

Hard behaviours: `ChallengeMgt` is started every 12 seconds without waiting for
the last one, and tests `len(ch)` and receives in two steps; a dispatcher that
waited may start a worker for a round that is over; workers decide from cache
marks and a record file what has already been done, and may be killed between
any two writes; submissions are retried although the earlier one may have
succeeded; loops end only through the block number; `CertIdle` and `ReplaceIdle`
run side by side on one prover; uploads, `ReportFiles` and `RestoreFiles` run
side by side on the same directories; a start works from one copy of the
registration; hosts of TEE workers change hands.

## 2. Modules

| Module | Models |
|---|---|
| `TaskSlot` | abstract specification: a task that runs one goroutine after the other |
| `ChallengeMgt` | the dispatcher, the three channels it uses, the workers reduced to token and flag |
| `IdleChallenge` | `idleChallenge` with submission, verification, record file, cache, crash |
| `ServiceChallenge` | `serviceChallenge` likewise |
| `BatchVerify` | `batchGenProofAndVerify`, the batch loop `ServiceChallenge` abstracts to two steps |
| `TagCalc` | `calctag` and `reportFileTag` on one file's tags, beside `checkTag` of a service challenge |
| `IdleSpace` | `CertIdle`, `ReplaceIdle`, `GenIdle`, `CheckPois` on the prover, with chain, TEE and a challenge |
| `Fragments` | `putfragment`, `getfragment`, `ReportFiles`, `RestoreFiles` on the report and file directories |
| `Startup` | configuration, `InitNode`, registration and its updates, `syncMinerStatus`, console commands |
| `TeeRecord` | the TEE record, `SyncTeeInfo` and the tasks' lookups |
| `*Proofs` | theorems about the module they extend |
| `MC*` | instances for TLC (symmetry sets, function-valued constants) |

How they fit: `ChallengeMgt` shows that at most one worker body of a task runs,
whatever the dispatchers do; `IdleChallenge` and `ServiceChallenge` use that and
keep of the dispatchers only the snapshot each holds. `ChallengeMgt` in turn
assumes that a worker's body ends, which the two workers' `WorkerReturns` shows.
`ServiceChallenge.Batch` with `BatchAnswer` is `BatchVerify` from `BatchInit` to `done` or `failed`.
`IdleSpace.HoldChallenge` is the step of `idleChallenge` that tells the prover of
a challenge. `TagCalc` looks into the file directory that `Fragments` fills.
`TeeRecord` stands behind every "a TEE answers" of the other modules.

### ChallengeMgt

`len[c]` is `len(ch)` and `queue[c]` the goroutines blocked in `<-ch`, first
come first served as in the Go runtime; a send hands its token to the oldest
waiting receiver. One dispatcher's position `pc[d]` separates every statement
between which another goroutine can act: the snapshot query, the block query,
the `len` test, the two receives, the two `go` statements. Its two halves are
`part[d]`, first idle, then service; `due[d]` is what the guards of
`challenge.go` lines 52-57, 79-80, 105-108 and 129-130 say of the snapshot.
Log lines (with their own `len` tests) are left out. Workers are `gone`, `run`
(flag not touched), `flagged` or `tail`: the deferred function returns the token
(`ReturnToken`) and then resets the flag (`LowerFlag`), two separate steps. The
chain's rounds are multiples of `RoundLength`.

### IdleChallenge and ServiceChallenge

A round stands for `ChallengeElement.Start`; the record on disk is its round and
the round its TEE signature was given for. `SaveIdleProve` and
`SaveServiceProve` rewrite the file in place, so a save is `Truncate` and
`Write`, and a crash in between leaves no readable record. Cache marks are the
sets `keyProof` and `keyResult`, one action per `Put` or `Delete`. A submission
tests the block number if its query succeeds, then tries a fixed number of
times; an attempt (`ProofSend`, `ResultSend`) either reaches a block, reported or
not, or is lost. `proofTx` and `resultTx` remember what was in a block; `proofOn`
and `resultOn` are what the chain accepted. Reading of one branch per position:
`path` is the branch (`resume`, `empty`, `full` resp. `single`, `batch`).
The proofs' content, the accumulators, the bloom filters and the random
challenge file are left out; an unreadable record and a missing one are the same
to the code. The fields `CanSubmintProof`, `CanSubmintResult` are written and
never read, so they are left out as well. In `ServiceChallenge` the goroutine's
locals are one record `w`. `told` remembers how the last `requestBatchVerify`
ended. That function tests its slip before it asks the TEEs, so test and answer
are separate steps (`EmptyVerify` and `EmptyAnswer`, `EmptyRetry` and
`RetryAnswer`, `Batch` and `BatchAnswer`), and an answer may come after the slip.

### BatchVerify

Fragments are the positions of the two nested loops; an aggregated proof or a
bloom filter is the set of fragments in it. A batch is sent when
`index % number = 0` with `number = calcBatchQuantity(total)`, the rest after
the loops.

### TagCalc

One file with `N` fragments in the order `filepath.Glob` lists them. `tag[f]` is
the fragment's `.tag` file: missing, short (below `MinTagFileSize`), cut (longer
but not decodable) or readable with its index and signature. A signature is the
list of fragments the TEE signed, so `sig = list` says that a signature covers
the list sent with it; an entry no tag has filled is `Hole`. Writing a tag is
creation and filling in two steps, with the other goroutine able to remove or
rewrite the file in between (`orphan`); a removal loop removes one file per
step. A list index out of range and a nil entry are panics that `CalcTag`
recovers from: they end the run over all files (`panicked`). Reading all tags of
the directory is one step, and `checkAllFragmentTag` with the listing after it is
another. Whether the TEE compares the list with the signature sent along is not
to be seen in this repository; `strict` leaves it open, fixed for a behaviour.
The chain takes one report of a file, and only with a signature of the whole list.

### IdleSpace

Space is the interval of idle files from `front` (replaced below) to `rear`
(certified up to); an accumulator is the interval it covers. `chn` is the
chain's interval, `prv` the prover's, `pois` is `MinerPoisInfo` (a shared
pointer: the interval and the one its signature was made for), `acc` says
whether the prover has an update open. `c` and `r` are the locals of the two
goroutines, one position per call that can fail; a TEE and the chain accept a
request only if it starts where its signed information says. An extrinsic can
fail for its sender and be taken later (`late`). The history variables say when
an extrinsic got into a block unseen (`unseen`) and when a goroutine returned
without a rollback (`left`): `idlecert.go` lines 187-195 and 387-389,
`idlerepl.go` line 249, and the panics on a malformed TEE answer at
`idlecert.go:326` and `idlerepl.go:205` and `:223`, from which the deferred
functions recover without a rollback. Files below `del` are deleted; `chal` is the front of an
open challenge's interval, `held` the one the prover was told of.

### Fragments

A fragment in a directory is absent, short or good. Each task is a record with
its position: `up` (putfragment), `get` (getfragment), `rp` (ReportFiles), `rs`
(RestoreFiles). Positions lie between any two system calls or chain queries, so
that a `RemoveAll`, a `Rename` or a deal that becomes a file comes between them.
`cause` collects the fragments to which one of the named accidents has happened,
at the step where it happens; these are the ways in which the code itself gives
up an assigned fragment (see section 3).

### Startup

`proc` is the process: its position in `InitNode`, its configuration, and
`proc.info`, the copy of the registration it read. Two ways lead to a
configuration: the prompts of the `start` command (the port is cut to 16 bits)
and the file or flags of `run`. The workspace is the set of registrations whose
files it holds. Space is in parts of a TiB because of the rounding at
`init.go` 443-450; the assignment `olddecspace = +1` is modelled as it stands.
Console commands are atomic, each one extrinsic beside the process.

### TeeRecord

What the chain announces, who answers at a host and what the record says are
three variables. `SyncTeeInfo` handles one worker per pass of its loop:
identity query, then `SaveTee`. A task takes an endpoint from the record, and
looks the key up before it asks (`calctag.go:255`) or after (`idlecert.go:146`).
`stale` holds the recorded workers that were never checked or whose host has
changed hands since. A pass starts only while the miner is POSITIVE or FROZEN
(`working`, set by `syncMinerStatus`), and nothing makes one start: the 10 minute
timer is commented out (`node.go:219-226`), so that takes a start of the process
or a challenge that is due (`challenge.go:58-61`).

## 3. Runs

| Run | Question | Bounds |
|---|---|---|
| `dispatch` | exclusion, conservation of tokens, flags, refinement of `TaskSlot`; every dispatcher ends | 2 dispatchers, each started once, 2 goroutine slots per channel, one round, blocks 2 and 3 |
| `idle` | soundness of marks, record and results; the worker ends | 3 rounds (one empty range), 2 dispatchers, 3 attempts, 1 crash |
| `service` | the same, and batches can be resumed | one round of each kind, 2 dispatchers, 2 attempts, 1 crash |
| `service_expired` | finding, see below | 1 single-request round |
| `batch_verify` | size, content and completeness of the batches | limit 3, every total from 4 to 20, 2 TEEs |
| `tags` | indices, reported tags, cache entries; the file ends up reported | 3 fragments, 3 attempts, 3 failed calls, 1 crash, 1 `checkTag` |
| `tag_index` | finding, see below | 2 fragments, 1 failed call, no crash, 1 `checkTag` |
| `idle_space` | no update left open, prover and chain agree, challenged files kept; everything is certified | sets of 2 files, disk of 3 sets, 2 replacements, 1 failure, 1 crash, 1 challenge |
| `fragments` | assigned fragments stay on disk, requests find them; deals are reported, files moved in | 2 files, 2 fragments (one the zero fragment), 2 indices, 3 events |
| `startup` | key, workspace, registration and collateral after any sequence of starts | 2 TEEs, 2 accounts, 2 endpoints and the empty one, 2 faults, 2 commands, 3 keys |
| `startup_endpoint` | finding, see below | 1 TEE, 1 account, 1 endpoint and the empty one, no fault, no command |
| `tee_record` | answers are attributed to their author; the record converges | 2 TEEs, 2 hosts (one announced with its scheme, one with its port), 2 moves, 1 failed call |

Why the bounds are enough for the interesting cases: two dispatchers are enough
for one to pass the `len` test and lose the token, and for a stale snapshot to
start after a newer one; a second goroutine slot is needed for the old worker's
`tail` beside the new worker. That a dispatcher is started at most once bounds
their number, not their overlap; the theorems take any set of them. Three rounds let a stale worker of round 1 meet
the leftovers of round 2 after a worker of another kind; one crash at every
point, with the disk kept, is followed by complete further rounds. Three attempts
is the code's own number; two in `service` still give an attempt that fails
unseen and one after it, and the theorems hold for any number. Totals up to 20
with a limit of 3 give from two to seven batches, with and without a rest. Three
fragments give a removal a first, a middle and a last tag, and three failed calls
exhaust one `reportFileTag`. In `idle_space` one failure suffices for an unseen
extrinsic of one goroutine to meet the other, and a crash may still follow. In
`fragments` an event is a new deal, a request, a restore, an order, a loss, a
failing call or a crash: three let a deal, a failure and a crash or a restore
meet; uploads, reports, other miners' reports and the storing of a file are not
bounded. Two faults in `startup` let a first start be interrupted, and the second
one meet its late extrinsic and fail again. The theorems remove the bounds for
the safety properties they name.

Deadlock is checked in the tags' and the TEE record's runs. In the others the
behaviour ends: all dispatchers are done, which `DispatcherEnds` says of each of
them, the bounded chain stops producing blocks and no
round is due, `batchGenProofAndVerify` returns, all space is certified, no
report directory is left, or the bounds on starts are used up.

Fairness. `ChallengeMgt`: goroutines that can run do run (Go's scheduler), and a
worker's body ends, from the workers' own runs. The workers: their goroutine
runs and blocks are produced; of the verification loops, the block query is not
failing every time (the RPC client is reconnected by `Reconnectrpc`), so that
the expiry test is reached again and again: strong fairness of `VerifyExpired`
in the idle loop, which leaves and re-enters the position, weak fairness in the
service loops. Nothing is assumed of the TEEs. `TagCalc`, `IdleSpace`,
`Fragments`: `Node.Start` starts the task again and again and its goroutine runs;
failures are bounded, so that after the last one TEE and chain answer; in
`IdleSpace` an extrinsic under way is decided one day. `TeeRecord`: a
`SyncTeeInfo` that has started runs; that one starts again and again is not
assumed but a premise of `Converges`. Nothing is assumed of uploads, restores,
operators or crashes.

Every property of a passing run is paired with a fault variant of the definition
it guards (a dropped reset, a swapped or missing guard, one attempt too many);
they stand next to the definition, named "Fault variant".

### What the runs show

* Dispatchers can indeed overlap and one of them block for a whole round; the
  token discipline nevertheless keeps one worker per task, and the blocked one is
  woken and ends (`dispatch`).
* With overlapping dispatchers a worker started late for round r finds the record
  of round r+1, removes it and deletes its marks, and round r+1 is computed and
  submitted again. The marks remain sound (`idle`), so the cost is repeated work.
* A worker that crashed after saving its proof and before it was signed is
  resumed without ever asking for a signature again; the model has this path and
  no property excludes it.
* Finding `service_expired`: `onceBatchVerify` passes the slip 0
  (`node/chlgservice.go:472`), so `requestBatchVerify` reports "challenge
  expired, RequestBatchVerify failed" at once, for a challenge that is open. A
  round with 1 to 5000 fragments never gets its verification result; lines
  241-255 are unreachable and are not modelled.
* After any failures and a crash at any other place, `CalcTag` repairs what it
  finds (a short, cut or missing tag, a report that was in a block unnoticed) and
  the file ends up reported with all its tags (`Settles`). A crash inside a
  removal loop, and a tag recomputed by `checkTag`, are the two exceptions
  (`PanicNeedsTornRemoval`).
* Finding `tag_index`: such a tag can have an index above the number of tag
  files, which `reportFileTag` tests and `calcRequestDigest`
  (`node/calctag.go:460`) does not; `CalcTag` then panics, and after a torn
  removal it does so in every run, for all files.
* `checkTag` computes a missing tag twice: after the first time it decodes the
  buffer of its failed read, and removes the new file (`CheckDrop`).
* `idle_space`: because TEE and chain check where a request starts, no mix of the
  two goroutines, of extrinsics taken unseen and of restarts makes the prover
  count more than the chain (`NotAhead`). It can count less: `CertIdle` compares
  the rear only (`idlecert.go:72`), so an unseen replacement leaves the prover's
  front behind. The returns and panics without a rollback block both tasks until a
  restart; `AccReleased` and `Settles` except them by name (`left`). `ReplaceIdle` does not
  wait for `CheckPois`; before it the prover is empty and nothing can be proved.
* `fragments`: an assigned fragment is lost only by the accidents of `cause`:
  damage; the deal becoming a file between the two queries of `checkfile`
  (`report.go:63-74`), which then removes the fragments; a report given up and
  taken for a renewed deal; a restore that fails, is cut short, finds nothing
  (and still completes the order, `restore.go:220`), or copies over a fragment
  that `checkfile` has moved in meanwhile (`restore.go:153`, `:218`). A request
  can be answered 404 for a fragment on disk while `checkfile` moves it.
* `startup`: `registerMinerPoisKey` takes any key on the chain for the one it sent
  (`init.go:689-699`), so a key given up earlier may be the chain's (`lost`); a
  start that ends between registering and `RemoveAndBuild` leaves the files of an
  earlier registration for good (`kept`); collateral paid before a failing
  declaration is paid again by the next start (`spare`, `init.go:465-484`); for
  a declared space that is not a whole number of TiB the miner declares too much
  (`init.go:445`). Apart from these the four properties hold. `AsConfigured`
  speaks of the endpoint only if the configuration names one.
* Finding `startup_endpoint`: the prompt of `start` tells a registered miner to
  press Enter if it does not want to update the endpoint
  (`cmd/console/start.go:325`); `updateMinerRegistertionInfo` compares the empty
  endpoint with the registered one and writes it to the chain
  (`node/init.go:499-500`).
* `tee_record`: a worker that left the chain is never deleted from the record, so
  that its host's next owner can be taken for it; the configured TEEs and the one
  that gave the PoDR2 key are recorded without a check. Apart from these an
  answer is attributed to its author. A worker missed by one pass is recorded by a
  later one, if there is one: a miner that is not challenged, or is locked, keeps
  the record it has.

## 4. Proofs

Every safety property of the passing runs is a theorem; the type invariants
`TypeOK` are proved only, as parts of the inductive invariants. All are proved by an
inductive invariant that stands in the module after the properties (`IInv`;
`BatchInv` in `BatchVerify`; `IInv` and `KeptInv` in `Fragments`; `KeyInv`,
`TypeInv`, `TagInv` and `IndexInv` in `TagCalc`), each also checked by TLC on
the run's instance. Assumptions are the named `ASSUME`s of the modules: the
windows and bounds are naturals, at least one attempt, `Nobody` is no slot, no
round is both empty and single, there is a file and every index of it has
fragments, `None` is no worker and no host, a TiB is a positive number of parts,
`NoAccount` is no account, and the operator's inputs are sizes, ports, accounts
and endpoints. Numbers of dispatchers, slots, rounds, files, fragments, workers,
failures and crashes are arbitrary.

* `ChallengeMgtProofs`. The properties alone are not inductive: that two workers
  never run needs that the token is in exactly one place (`TokenAt`), and that a
  hand-over goes to a dispatcher that is really blocked needs that the queue
  holds exactly the blocked dispatchers, once each (`QueueAt`). Lemmas for the
  five ways a token moves (none, receive, send, spawn, worker step) carry the
  argument; each action is an instance. Proved: `TypeOK`, `OneWorker`,
  `TokenNotLost`, `FlagWillBeLowered`, and the refinement
  `TasksAreSlots` (the initial state maps to an empty or occupied slot, each step
  to a step or a stutter of `TaskSlot`).
* `IdleChallengeProofs`, `ServiceChallengeProofs`. A mark is written some steps
  after the extrinsic was seen in a block, a signature after the proof's mark was
  read, with saves in between; `WorkerInv` says for each position of the worker
  (`Location` looks through a save) which facts about its round are already
  established, and that file and memory hold only signatures of their own round.
  Proved: `TypeOK`, `ProofMarkSound`, `ResultMarkSound`, `SignatureSound`,
  `ResultFollowsProof`, and for the service worker `BatchResumable`.
* `ServiceChallengeProofs` also holds the proofs of `BatchVerify`. The loop's
  position determines the fragments gathered since the last batch (`LoopInv`:
  those from the last multiple of the batch size on) and what has been sent and
  answered (`TeeInv`). The arithmetic is in two lemmas: how `index % number` and
  the last multiple change in one step, and that `calcBatchQuantity` lies between
  1 and the limit. Proved for every limit and every total above it: `BatchBound`,
  `BatchProofsMatch`, `AggregateComplete`.
* `TagCalcProofs`. `KeySound`: the block number is asked for only after a report
  that is in a block (`KeyInv`), so entries are written on two paths that both
  know the tags to be on chain; every other step leaves chain and cache alone.
  `TagsKept` (`TagInv`): as long as nothing has failed, a report is sent only
  when all tags are there, and a reported file is only looked at, so that neither
  the removals nor `checkTag` find anything to do. `PanicNeedsTornRemoval`
  (`IndexInv`): outside the removal loops the indices of the complete tags are
  exactly the numbers up to their count (`Consecutive`), and the tag being
  computed gets the next one; so no list is overrun and none keeps a hole. That a
  new tag leaves the indices consecutive is a lemma on cardinalities; that the
  scan from an incomplete tag finds a first one uses the least element of a set
  of naturals. A removal starts from consecutive indices and ends with no tag;
  only a crash in its middle breaks this, and then `torn` holds. Number of
  fragments, attempts, failures and crashes are arbitrary.
* `IdleSpaceProofs`. What the miner knows of the chain's interval (`Known`: the
  prover's, or before `CheckPois` the one read at the start) is the chain's or
  one accepted extrinsic behind (`OneStep`), because every extrinsic under way
  starts at or below it (`LateInv`): once one is taken no other can be. The open
  update belongs to one goroutine (`Exclusive`), which fixes the prover's interval
  until it is closed (`CertInv`, `ReplInv`); that the gap closes again unless it
  is recorded is `AgreeInv`. Proved: `TypeOK`, `AccReleased`, `Agreement`,
  `NotAhead`, `ChallengedFilesKept`.
* `TeeRecordProofs`. A recorded worker that is not stale serves at its host
  (`RecordInv`); the same is known of the worker about to be saved (`SyncInv`)
  and of the workers a task has found and heard (`UseInv`) unless the host changed
  hands meanwhile. Proved: their types and `AnswerAttributed`.
* `FragmentsProofs`. Until a request is answered, a fragment that has not gone is
  in one of the directories, and after the first look it is in the report
  directory unless it was moved (`GetInv`). A step on the directories either
  removes and moves nothing (`Unwatched`) or tells the request (`Watched`).
  Proved: `FoundUnlessMoved`.
  `KeptWhileAssigned` relates both directories to the positions of all four
  tasks. `Filed` says that a fragment is in the file directory, lost by a named
  accident, or under the copy of a restore, and no step of any task takes it back,
  as long as `StoredInv` holds: only stored files have anything there. A fragment
  of a deal is in the report directory while its report is being sent or still
  under way (`SentInv`), so when the chain takes the report it is kept; the
  `RemoveAll` after a move meets only what is filed, or a report that came late,
  which is an accident in `cause`. What `checkfile` passed over or moved and what
  an order was completed for is filed (`FiledInv`). The report goes on with an
  index only while there is one left to send (`TypeInv`). Proved: `TypeOK`,
  `KeptWhileAssigned`.
* `StartupProofs`. The position of the process fixes which case of `checkMiner` it
  is in (`CaseInv`), and each property has a part by position. `KeyInv`: the key a
  start sends is the chain's or given up, because a key still on its way is the
  one just sent, one in `lost`, or comes after the chain has one (`LateKeys`).
  `CleanInv`: once the process is past `register`, either the account has a
  registration or no extrinsic `Regnstk` is still under way, so that none can
  register it behind the process's back. `ConfInv`: which of the
  fields has been brought in line so far, and that the space is exactly the
  declared one of the configuration. `PaidOnce` is inductive with the types;
  its steps are arithmetic of the rounding to whole TiB, in lemmas on `\div`.
  Proved: `TypeOK`, `KeyAgrees`, `CleanStart`, `AsConfigured`, `PaidOnce`, for any
  sizes, keys, accounts, faults and commands.

Only model-checked: the liveness properties (`DispatcherEnds`, both
`WorkerReturns`, both `Settles`, `ReportMade`, `MovedIn`, `Converges`), which need
fairness and ENABLED, outside the prover's reach. The three findings are
counterexamples of TLC.

## 5. Not modelled

* Generated protobuf code (`pkg/com/pb`) and the gRPC clients around it: each
  method is one call, in the models an answer or a failure.
* PoDR2 and other cryptography, the space prover's accumulators and LevelDB:
  external or pure; `configs/pem.go` is a constant.
* Run status counters, the status page, the logger, the `stat` and `reward`
  commands: single locked assignments or output only.
* The removal of old logs and random files when the disk is full, the random
  challenge files, names of directories, `DownloadFragment` (a failure inside
  `ProveFails`), `calcChallengeFiles` (an outcome of `Fresh`).
* `checkVersion` is not called; `WatchMem` ends the process, a crash to every
  module; `Reconnectrpc` is the end of a series of failing calls.

## 6. Plan

What is left, most useful first:

1. An abstract specification of what the two challenge workers promise for a
   round (a mark only after the block, a result only after a proof), which both
   refine as the dispatcher refines `TaskSlot`.
2. A module composing the periodic tasks of `Node.Start` with the miner state
   and the RPC status; today each task's restart is a fairness condition.
3. `DownloadFragment`, and the two gateways it asks.
