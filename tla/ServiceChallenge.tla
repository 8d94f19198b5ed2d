-------------------------- MODULE ServiceChallenge --------------------------
(***************************************************************************)
(* The service-challenge worker, serviceChallenge of node/chlgservice.go.  *)
(*                                                                         *)
(* How a round is answered depends on the number of challenged fragments:  *)
(*   none                "empty":  a TEE signs for the empty set, then the *)
(*                                 empty proof and the result are sent     *)
(*   at most 5000        "single": the proof is sent, then verified        *)
(*   more                "batch":  the batches are proved and verified     *)
(*                                 first (BatchVerify.tla)                 *)
(* A record of the round found in the service_proof file is "resumed".     *)
(*                                                                         *)
(* Rounds, dispatchers, the chain, the TEEs and the disk are as in         *)
(* IdleChallenge.tla; the locals of the worker's goroutine are one record. *)
(***************************************************************************)
EXTENDS Naturals

CONSTANTS Dispatcher,     \* ChallengeMgt goroutines past their checks
          MaxRound,       \* bound: challenge rounds
          EmptyRounds,    \* rounds with no challenged fragment
          SingleRounds,   \* rounds with at most maxNumberOfSingleVerification
          RoundLength,    \* blocks from one round's start to the next's
          ServiceWindow,  \* ServiceSlip = start + ServiceWindow
          VerifyWindow,   \* VerifySlip  = start + VerifyWindow
          Margin,         \* blocks before VerifySlip at which "single" gives up: 3
          SubmitTries,    \* calls of the extrinsic in one submission: 3
          MaxCrashes      \* bound: crashes of the miner process

ASSUME ConstantAssumption ==
  /\ {MaxRound, RoundLength, ServiceWindow, VerifyWindow, Margin, MaxCrashes}
       \subseteq Nat
  /\ SubmitTries \in Nat \ {0}
  /\ EmptyRounds \cap SingleRounds = {}

Round == 1..MaxRound
None == 0

VARIABLES
  block,       \* chain: latest block number
  round,       \* chain: the open challenge round, None before the first
  proofOn,     \* chain: rounds that hold a proof
  resultOn,    \* chain: rounds that hold a result
  proofTx,     \* history: rounds whose proof an extrinsic put in a block
  resultTx,    \* history: rounds whose result an extrinsic put in a block
  file,        \* disk: the record in the service_proof file
  keyProof,    \* disk: rounds with a cache mark service_chall_proof:<round>
  keyResult,   \* disk: rounds with a cache mark service_chall_result:<round>
  snap,        \* per dispatcher, the round it is about to start a worker for
  w,           \* the worker's locals; pc "off": the token is in the channel
  told,        \* what the last requestBatchVerify of the worker returned
  crashes      \* bound counter

chainVars == <<block, round, proofOn, resultOn, proofTx, resultTx>>
diskVars == <<file, keyProof, keyResult>>
vars == <<block, round, proofOn, resultOn, proofTx, resultTx, file, keyProof,
          keyResult, snap, w, told, crashes>>

\* A record keeps its round and the round its TEE signature (SignatureHex) was
\* given for; NoRecord is a missing or unreadable file.
Record == [start : Round \cup {None}, sig : Round \cup {None}]
NoRecord == [start |-> None, sig |-> None]

PcState ==
  {"off", "load", "removeFile", "deleteProof", "deleteResult", "fresh",
   "emptyVerify", "emptyAnswer", "sigma", "batch", "batchAnswer", "truncate",
   "write", "proofKey", "proofCheck", "proofSend", "proofPut", "emptyRetry",
   "retryAnswer", "verifyKey", "singleVerify", "resultKey", "resultCheck", "resultSend", "resultPut"}

\* chall: chlgStart.  path: the branch of serviceChallenge.  rec:
\* serviceProofRecord.  try: attempt of the submission loop.  after: where the
\* worker goes on when SaveServiceProve returns.
Worker ==
  [pc : PcState, chall : Round \cup {None},
   path : {"none", "resume", "empty", "single", "batch"},
   rec : Record, try : 1..SubmitTries, after : PcState]

Idle == [pc |-> "off", chall |-> None, path |-> "none", rec |-> NoRecord,
         try |-> 1, after |-> "off"]

TypeOK ==
  /\ block \in Nat
  /\ round \in Round \cup {None}
  /\ proofOn \subseteq Round /\ resultOn \subseteq Round
  /\ proofTx \subseteq Round /\ resultTx \subseteq Round
  /\ file \in Record
  /\ keyProof \subseteq Round /\ keyResult \subseteq Round
  /\ snap \in [Dispatcher -> Round \cup {None}]
  /\ w \in Worker
  /\ told \in {"nothing", "answer", "expired"}
  /\ crashes \in 0..MaxCrashes

\* Node.Start on a fresh workspace.
Init ==
  /\ block = 0 /\ round = None
  /\ proofOn = {} /\ resultOn = {} /\ proofTx = {} /\ resultTx = {}
  /\ file = NoRecord /\ keyProof = {} /\ keyResult = {}
  /\ snap = [d \in Dispatcher |-> None]
  /\ w = Idle /\ told = "nothing"
  /\ crashes = 0

Start(r) == r * RoundLength
ServiceSlip(r) == Start(r) + ServiceWindow
VerifySlip(r) == Start(r) + VerifyWindow
-----------------------------------------------------------------------------
(* The chain (external). *)

\* A block is produced; the next round opens at its start block.
Tick ==
  /\ block < Start(MaxRound + 1)
  /\ block' = block + 1
  /\ round' = IF round < MaxRound /\ block + 1 = Start(round + 1)
              THEN round + 1 ELSE round
  /\ UNCHANGED <<proofOn, resultOn, proofTx, resultTx, diskVars, snap, w, told, crashes>>

\* The extrinsic with round p's proof gets into a block; the open round takes it
\* if it has none and its slip has not passed.
ProofInBlock(p) ==
  /\ proofTx' = proofTx \cup {p}
  /\ proofOn' = IF round # None /\ block <= ServiceSlip(round)
                THEN proofOn \cup {round} ELSE proofOn
  /\ UNCHANGED <<block, round, resultOn, resultTx>>

\* The extrinsic with round p's result does; the open round takes it on top of a
\* proof, until its verify slip.
ResultInBlock(p) ==
  /\ resultTx' = resultTx \cup {p}
  /\ resultOn' = IF round \in proofOn /\ block <= VerifySlip(round)
                 THEN resultOn \cup {round} ELSE resultOn
  /\ UNCHANGED <<block, round, proofOn, proofTx>>
-----------------------------------------------------------------------------
(* ChallengeMgt, seen from the worker (ChallengeMgt.tla has the details). *)

\* The service half's guards on the snapshot and the block number.
Due(r) == IF r \in proofOn THEN r \notin resultOn /\ VerifySlip(r) > block
          ELSE ServiceSlip(r) > block

\* A dispatcher passes the guards and the len(serviceChallTaskCh) > 0 test.
TakeSnapshot(d) ==
  /\ w.pc = "off" /\ snap[d] = None
  /\ round # None /\ Due(round)
  /\ snap' = [snap EXCEPT ![d] = round]
  /\ UNCHANGED <<chainVars, diskVars, w, told, crashes>>

\* It receives the token, then or later, and starts the worker.
Launch(d) ==
  /\ w.pc = "off" /\ snap[d] # None
  /\ snap' = [snap EXCEPT ![d] = None]
  /\ w' = [w EXCEPT !.pc = "load", !.chall = snap[d]]
  /\ UNCHANGED <<chainVars, diskVars, told, crashes>>
-----------------------------------------------------------------------------
(* The worker: steps on the record file and the cache. *)

env == <<snap, crashes>>

Goto(l) == w' = [w EXCEPT !.pc = l] /\ UNCHANGED told

\* return: the deferred function puts the token back.
Return == w' = Idle /\ told' = "nothing"

\* SaveServiceProve(record) in branch p, then on at l ("off": return).
SaveThen(record, p, l) ==
  w' = [w EXCEPT !.pc = "truncate", !.after = l, !.rec = record, !.path = p, !.try = 1]

Truncate ==
  /\ w.pc = "truncate"
  /\ file' = NoRecord
  /\ Goto("write")
  /\ UNCHANGED <<chainVars, keyProof, keyResult, env>>

Write ==
  /\ w.pc = "write"
  /\ file' = w.rec
  /\ IF w.after = "off" THEN Return
     ELSE w' = [w EXCEPT !.pc = w.after, !.after = "off"] /\ UNCHANGED told
  /\ UNCHANGED <<chainVars, keyProof, keyResult, env>>

\* LoadServiceProve: no readable record, another round's, or this round's.
Load ==
  /\ w.pc = "load"
  /\ \/ file.start = None /\ Goto("fresh")
     \/ /\ file.start # None /\ file.start # w.chall
        /\ w' = [w EXCEPT !.pc = "removeFile", !.rec = file]
        /\ UNCHANGED told
     \/ /\ file.start = w.chall
        /\ w' = [w EXCEPT !.pc = "proofKey", !.rec = file, !.path = "resume"]
        /\ UNCHANGED told
  /\ UNCHANGED <<chainVars, diskVars, env>>

\* Another round's record: os.Remove, then the record's two cache marks.
RemoveFile ==
  /\ w.pc = "removeFile"
  /\ file' = NoRecord
  /\ Goto("deleteProof")
  /\ UNCHANGED <<chainVars, keyProof, keyResult, env>>

DeleteProofMark ==
  /\ w.pc = "deleteProof"
  /\ keyProof' = keyProof \ {w.rec.start}
  /\ Goto("deleteResult")
  /\ UNCHANGED <<chainVars, file, keyResult, env>>

DeleteResultMark ==
  /\ w.pc = "deleteResult"
  /\ keyResult' = keyResult \ {w.rec.start}
  /\ Goto("fresh")
  /\ UNCHANGED <<chainVars, file, keyProof, env>>
-----------------------------------------------------------------------------
(* The worker: the three branches up to the first save. *)

\* Fault variant of Fresh: SignatureHex of the old record is not cleared.
FreshKeepsSignature ==
  /\ w.pc = "fresh"
  /\ \/ /\ w' = [w EXCEPT !.rec.start = w.chall,
                 !.pc = CASE w.chall \in EmptyRounds  -> "emptyVerify"
                          [] w.chall \in SingleRounds -> "sigma"
                          [] OTHER                    -> "batch"]
        /\ UNCHANGED told
     \/ Return
  /\ UNCHANGED <<chainVars, diskVars, env>>

\* The challenged fragments are collected (an error ends the worker), the record
\* is filled in for this round, and their number selects the branch.
Fresh ==
  /\ w.pc = "fresh"
  /\ \/ /\ w' = [w EXCEPT !.rec = [start |-> w.chall, sig |-> None],
                 !.pc = CASE w.chall \in EmptyRounds  -> "emptyVerify"
                          [] w.chall \in SingleRounds -> "sigma"
                          [] OTHER                    -> "batch"]
        /\ UNCHANGED told
     \/ Return
  /\ UNCHANGED <<chainVars, diskVars, env>>

\* requestBatchVerify gives up with "challenge expired" when the slip it was
\* given has been reached.  It looks at the slip before it asks the TEEs: their
\* answer, up to 20 minutes later, may come after the slip.
Expired(slip) == slip <= block

Signed == [w.rec EXCEPT !.sig = w.chall]

\* verifyEmpty up to the TEEs' answer.  Expired, the record is saved unsigned.
EmptyVerify ==
  /\ w.pc = "emptyVerify"
  /\ \/ ~Expired(ServiceSlip(w.chall)) /\ Goto("emptyAnswer")
     \/ Expired(ServiceSlip(w.chall)) /\ told' = "expired"
        /\ SaveThen(w.rec, "empty", "proofKey")
  /\ UNCHANGED <<chainVars, diskVars, env>>

\* The signature, an answer with fields of the wrong length (the record is saved in
\* any case), or an error of every TEE, after which the slip is looked at again.
EmptyAnswer ==
  /\ w.pc = "emptyAnswer"
  /\ \/ told' = "answer" /\ SaveThen(Signed, "empty", "proofKey")
     \/ told' = "answer" /\ SaveThen(w.rec, "empty", "proofKey")
     \/ Goto("emptyVerify")
  /\ UNCHANGED <<chainVars, diskVars, env>>

\* calcSigma, or its error or an empty proof.
Sigma ==
  /\ w.pc = "sigma"
  /\ \/ SaveThen(w.rec, "single", "proofKey") /\ UNCHANGED told
     \/ Return
  /\ UNCHANGED <<chainVars, diskVars, env>>

\* batchGenProofAndVerify: an error ends the worker, an expired round is one.
Batch ==
  /\ w.pc = "batch"
  /\ \/ ~Expired(ServiceSlip(w.chall)) /\ Goto("batchAnswer")
     \/ Return
  /\ UNCHANGED <<chainVars, diskVars, env>>

\* Fault variant of BatchAnswer: the record is saved without the signature.
BatchSavesUnsigned ==
  /\ w.pc = "batchAnswer"
  /\ \/ told' = "answer" /\ SaveThen(w.rec, "batch", "proofKey")
     \/ Return
  /\ UNCHANGED <<chainVars, diskVars, env>>

\* Proof and aggregated signature, both saved before anything is submitted.
BatchAnswer ==
  /\ w.pc = "batchAnswer"
  /\ \/ told' = "answer" /\ SaveThen(Signed, "batch", "proofKey")
     \/ Return
  /\ UNCHANGED <<chainVars, diskVars, env>>
-----------------------------------------------------------------------------
(* The worker: the proof. *)

\* After the proof is submitted, or was before, or could not be.
AfterProof ==
  CASE w.path = "resume" -> "resultKey"
    [] w.path = "empty" /\ w.rec.sig = None -> "emptyRetry"
    [] OTHER -> "verifyKey"

Proceed == w' = [w EXCEPT !.pc = AfterProof, !.try = 1] /\ UNCHANGED told

\* Cache.Get(service_chall_proof:<chlgStart>)
ProofKey ==
  /\ w.pc = "proofKey"
  /\ IF w.chall \in keyProof THEN Proceed ELSE Goto("proofCheck")
  /\ UNCHANGED <<chainVars, diskVars, env>>

\* submitServiceProof: expired, or the block query failed or is in time.
ProofCheck ==
  /\ w.pc = "proofCheck"
  /\ \/ ServiceSlip(w.chall) < block /\ Proceed
     \/ Goto("proofSend")
  /\ UNCHANGED <<chainVars, diskVars, env>>

\* No block hash: the next attempt, or the submission has failed.
Retry(failed) ==
  IF w.try < SubmitTries
  THEN w' = [w EXCEPT !.try = @ + 1] /\ UNCHANGED told
  ELSE failed

\* Fault variant of ProofSend: the block hash is not looked at.
ProofSendUnchecked ==
  /\ w.pc = "proofSend"
  /\ ProofInBlock(w.chall) \/ UNCHANGED chainVars
  /\ Goto("proofPut")
  /\ UNCHANGED <<diskVars, env>>

\* SubmitServiceProof once.
ProofSend ==
  /\ w.pc = "proofSend"
  /\ \/ ProofInBlock(w.chall) /\ (Goto("proofPut") \/ Retry(Proceed))
     \/ UNCHANGED chainVars /\ Retry(Proceed)
  /\ UNCHANGED <<diskVars, env>>

\* The mark for a block hash; the record is saved after it.
ProofPut ==
  /\ w.pc = "proofPut"
  /\ keyProof' = keyProof \cup {w.chall}
  /\ SaveThen(w.rec, w.path, AfterProof)
  /\ UNCHANGED <<chainVars, file, keyResult, env, told>>
-----------------------------------------------------------------------------
(* The worker: verification and result. *)

\* The retry loop of the empty branch ends at the verify slip.
EmptyExpired ==
  /\ w.pc = "emptyRetry"
  /\ VerifySlip(w.chall) < block
  /\ Return
  /\ UNCHANGED <<chainVars, diskVars, env>>

\* verifyEmpty again, still with the service slip.
EmptyRetry ==
  /\ w.pc = "emptyRetry"
  /\ \/ ~Expired(ServiceSlip(w.chall)) /\ Goto("retryAnswer")
     \/ Expired(ServiceSlip(w.chall)) /\ told' = "expired" /\ UNCHANGED w
  /\ UNCHANGED <<chainVars, diskVars, env>>

\* The signature, which is kept in memory only, or a malformed or no answer.
RetryAnswer ==
  /\ w.pc = "retryAnswer"
  /\ \/ told' = "answer" /\ w' = [w EXCEPT !.pc = "verifyKey", !.rec = Signed]
     \/ Goto("emptyRetry")
  /\ UNCHANGED <<chainVars, diskVars, env>>

\* Fault variant of VerifyKey: the result does not wait for the proof.
VerifyUnproved ==
  /\ w.pc = "verifyKey"
  /\ Goto(IF w.path = "single" THEN "singleVerify" ELSE "resultCheck")
  /\ UNCHANGED <<chainVars, diskVars, env>>

\* Verification and result only once the proof is marked.
VerifyKey ==
  /\ w.pc = "verifyKey"
  /\ IF w.chall \in keyProof
     THEN Goto(IF w.path = "single" THEN "singleVerify" ELSE "resultCheck")
     ELSE Return
  /\ UNCHANGED <<chainVars, diskVars, env>>

\* Fault variant of SingleExpired: the loop goes on.
SingleExpiredContinues ==
  /\ w.pc = "singleVerify"
  /\ VerifySlip(w.chall) < block + Margin
  /\ UNCHANGED vars

\* The loop of the single branch ends Margin blocks before the verify slip.
SingleExpired ==
  /\ w.pc = "singleVerify"
  /\ VerifySlip(w.chall) < block + Margin
  /\ Return
  /\ UNCHANGED <<chainVars, diskVars, env>>

\* onceBatchVerify hands requestBatchVerify the slip 0, which every block has
\* reached: the TEE is never asked and the statements after it are not reached.
SingleVerify ==
  /\ w.pc = "singleVerify"
  /\ Expired(0)
  /\ told' = "expired"
  /\ UNCHANGED <<chainVars, diskVars, env, w>>

\* Resumed: the result is marked, or the record was never signed, or submit it.
ResultKey ==
  /\ w.pc = "resultKey"
  /\ IF w.chall \in keyResult \/ w.rec.sig = None THEN Return ELSE Goto("resultCheck")
  /\ UNCHANGED <<chainVars, diskVars, env>>

\* submitServiceResult: expired, or the block query failed or is in time.
ResultCheck ==
  /\ w.pc = "resultCheck"
  /\ \/ VerifySlip(w.chall) < block /\ Return
     \/ Goto("resultSend")
  /\ UNCHANGED <<chainVars, diskVars, env>>

\* Fault variant of ResultSend: the block hash is not looked at.
ResultSendUnchecked ==
  /\ w.pc = "resultSend"
  /\ ResultInBlock(w.rec.sig) \/ UNCHANGED chainVars
  /\ Goto("resultPut")
  /\ UNCHANGED <<diskVars, env>>

\* SubmitVerifyServiceResult once.
ResultSend ==
  /\ w.pc = "resultSend"
  /\ \/ ResultInBlock(w.rec.sig) /\ (Goto("resultPut") \/ Retry(Return))
     \/ UNCHANGED chainVars /\ Retry(Return)
  /\ UNCHANGED <<diskVars, env>>

\* The result's mark, then the last save.
ResultPut ==
  /\ w.pc = "resultPut"
  /\ keyResult' = keyResult \cup {w.chall}
  /\ SaveThen(w.rec, w.path, "off")
  /\ UNCHANGED <<chainVars, file, keyProof, env, told>>

\* The process dies and is started again on the same workspace (Build keeps the
\* record file and the cache); goroutines and their snapshots are gone.
Crash ==
  /\ crashes < MaxCrashes
  /\ crashes' = crashes + 1
  /\ snap' = [d \in Dispatcher |-> None]
  /\ Return
  /\ UNCHANGED <<chainVars, diskVars>>
-----------------------------------------------------------------------------
WorkerStep ==
  \/ Truncate \/ Write \/ Load \/ RemoveFile \/ DeleteProofMark \/ DeleteResultMark
  \/ Fresh \/ EmptyVerify \/ EmptyAnswer \/ Sigma \/ Batch \/ BatchAnswer
  \/ ProofKey \/ ProofCheck \/ ProofSend \/ ProofPut
  \/ EmptyExpired \/ EmptyRetry \/ RetryAnswer \/ VerifyKey \/ SingleExpired
  \/ SingleVerify \/ ResultKey \/ ResultCheck \/ ResultSend \/ ResultPut

Next ==
  \/ Tick
  \/ \E d \in Dispatcher : TakeSnapshot(d) \/ Launch(d)
  \/ WorkerStep
  \/ Crash

Spec == Init /\ [][Next]_vars

\* The worker's goroutine runs, blocks are produced, and the two loops come to
\* their expiry test with a successful block query again and again
\* (requestBatchVerify itself returns at its slip at the latest).
FairSpec ==
  /\ Spec /\ WF_vars(Tick) /\ WF_vars(WorkerStep)
  /\ WF_vars(EmptyExpired) /\ WF_vars(SingleExpired)
-----------------------------------------------------------------------------
(* Properties. *)

\* A round is marked service_chall_proof only if an extrinsic with its proof is in
\* a block, whatever was lost, retried or interrupted by a crash.
ProofMarkSound == keyProof \subseteq proofTx

\* A round is marked service_chall_result only if a result that was signed for
\* this round is in a block.
ResultMarkSound == keyResult \subseteq resultTx

\* A signature in the record file was given for the record's own round.
SignatureSound == file.sig # None => file.sig = file.start

\* The record of a batch round is on disk only with its signature, so that a
\* resumed worker, which never asks a TEE again, can still submit the result.
BatchResumable ==
  file.start \in Round \ (EmptyRounds \cup SingleRounds) => file.sig = file.start

\* A worker that computed the proof itself submits the result only when the
\* proof is in a block (a resumed worker does not wait for that).
ResultFollowsProof ==
  w.pc = "resultSend" /\ w.path # "resume" => w.chall \in proofTx

\* Every worker returns its token, also when no TEE ever answers.
WorkerReturns == w.pc # "off" ~> w.pc = "off"

\* "challenge expired, RequestBatchVerify failed" is reported only for a round
\* whose service slip has been reached.
ExpiredMeansExpired == told = "expired" => ServiceSlip(w.chall) <= block
-----------------------------------------------------------------------------
(* The inductive invariant behind the safety properties. *)

\* Where the worker is, or will be when its save returns.
Location == IF w.pc \in {"truncate", "write"} THEN w.after ELSE w.pc

BatchRound(r) == r \in Round \ (EmptyRounds \cup SingleRounds)

\* The worker's locals fit the branch and the place it is at.
WorkerInv ==
  /\ w.pc # "off" => w.chall \in Round
  /\ w.pc \in {"off", "load", "removeFile", "deleteProof", "deleteResult", "fresh",
               "emptyVerify", "emptyAnswer", "sigma", "batch", "batchAnswer"}
       <=> w.path = "none"
  /\ w.pc \notin {"off", "load", "removeFile", "deleteProof", "deleteResult", "fresh"}
       => w.rec.start = w.chall
  /\ w.pc \in {"emptyVerify", "emptyAnswer"} => w.chall \in EmptyRounds
  /\ w.pc = "sigma" => w.chall \in SingleRounds /\ w.rec.sig = None
  /\ w.path = "empty" => w.chall \in EmptyRounds
  /\ w.path = "single" => w.chall \in SingleRounds /\ w.rec.sig = None
  /\ w.path = "batch" => w.rec.sig # None
  /\ w.path # "none" /\ BatchRound(w.chall) => w.rec.sig = w.chall
  /\ w.rec.sig # None => w.rec.sig = w.rec.start
  /\ Location = "resultKey" => w.path = "resume"
  /\ Location \in {"emptyRetry", "retryAnswer"} => w.path = "empty"
  /\ Location = "verifyKey" /\ w.rec.sig = None => w.path = "single"
  /\ Location = "proofPut" => w.chall \in proofTx
  /\ Location \in {"resultCheck", "resultSend", "resultPut"} =>
       /\ w.rec.sig # None
       /\ w.path # "resume" => w.chall \in proofTx
  /\ Location = "resultPut" => w.chall \in resultTx
  /\ w.after \in {"off", "proofKey", "emptyRetry", "verifyKey", "resultKey"}
  /\ w.after # "off" => w.pc \in {"truncate", "write"}

IInv ==
  /\ TypeOK /\ WorkerInv
  /\ ProofMarkSound /\ ResultMarkSound /\ SignatureSound /\ BatchResumable
=============================================================================
