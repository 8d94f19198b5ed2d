---------------------------- MODULE IdleChallenge ---------------------------
(***************************************************************************)
(* The idle-challenge worker, idleChallenge of node/chlgidle.go: its proof *)
(* and verification result for one challenge round, the record it keeps in *)
(* the idle_proof file and the two marks it keeps in the LevelDB cache     *)
(* across crashes and restarts, and the extrinsics it sends to the chain.  *)
(*                                                                         *)
(* A round stands for ChallengeElement.Start.  At most one worker body     *)
(* runs at a time (ChallengeMgt.tla, OneWorker); dispatchers may hold the  *)
(* snapshot of an older round when they get to start a worker.  The chain, *)
(* its RPC node and the TEE workers are external: a block query may fail,  *)
(* an extrinsic may be applied, fail inside its block, be in a block that  *)
(* the client never hears of, or be lost; a TEE may not answer.  The disk  *)
(* is reliable except that a crash can tear the rewriting of the file.     *)
(***************************************************************************)
EXTENDS Naturals

CONSTANTS Dispatcher,    \* ChallengeMgt goroutines past their checks
          MaxRound,      \* bound: challenge rounds
          EmptyRounds,   \* rounds whose snapshot has Front = Rear
          RoundLength,   \* blocks from one round's start to the next's
          IdleWindow,    \* IdleSlip   = start + IdleWindow
          VerifyWindow,  \* VerifySlip = start + VerifyWindow
          SubmitTries,   \* calls of the extrinsic in one submission: 3
          MaxCrashes     \* bound: crashes of the miner process

ASSUME ConstantAssumption ==
  /\ {MaxRound, RoundLength, IdleWindow, VerifyWindow, MaxCrashes} \subseteq Nat
  /\ SubmitTries \in Nat \ {0}

Round == 1..MaxRound
None == 0

VARIABLES
  block,       \* chain: latest block number
  round,       \* chain: the open challenge round, None before the first
  proofOn,     \* chain: per round, the round whose proof it holds, or None
  resultOn,    \* chain: per round, the round whose result it holds, or None
  proofTx,     \* history: rounds whose proof an extrinsic put in a block
  resultTx,    \* history: rounds whose result an extrinsic put in a block
  file,        \* disk: the record in the idle_proof file
  keyProof,    \* disk: rounds with a cache mark idle_chall_proof:<round>
  keyResult,   \* disk: rounds with a cache mark idle_chall_result:<round>
  snap,        \* per dispatcher, the round it is about to start a worker for
  pc,          \* the worker's position; "off": the token is in the channel
  chall,       \* challStart of the worker
  path,        \* the branch of idleChallenge it is in
  rec,         \* idleProofRecord in memory
  try,         \* the attempt the submission loop is at
  after,       \* where the worker goes on when SaveIdleProve returns
  crashes      \* bound counter

chainVars == <<block, round, proofOn, resultOn, proofTx, resultTx>>
diskVars == <<file, keyProof, keyResult>>
vars == <<block, round, proofOn, resultOn, proofTx, resultTx, file, keyProof,
          keyResult, snap, pc, chall, path, rec, try, after,
          crashes>>

\* A record keeps its round and the round its TEE signature (TotalSignature)
\* was given for; NoRecord is a missing or unreadable file.
Record == [start : Round \cup {None}, sig : Round \cup {None}]
NoRecord == [start |-> None, sig |-> None]

Path == {"none", "resume", "empty", "full"}
PcState ==
  {"off", "load", "removeFile", "deleteProof", "deleteResult", "fresh", "prove",
   "truncate", "write", "proofKey", "proofCheck", "proofSend", "proofPut",
   "emptyPut", "verifyKey", "verify", "total", "resultKey", "resultCheck",
   "resultSend", "resultPut"}

TypeOK ==
  /\ block \in Nat
  /\ round \in Round \cup {None}
  /\ proofOn \in [Round -> Round \cup {None}]
  /\ resultOn \in [Round -> Round \cup {None}]
  /\ proofTx \subseteq Round /\ resultTx \subseteq Round
  /\ file \in Record
  /\ keyProof \subseteq Round /\ keyResult \subseteq Round
  /\ snap \in [Dispatcher -> Round \cup {None}]
  /\ pc \in PcState /\ path \in Path
  /\ chall \in Round \cup {None}
  /\ rec \in Record
  /\ try \in 1..SubmitTries
  /\ after \in PcState
  /\ crashes \in 0..MaxCrashes

\* Node.Start on a fresh workspace.
Init ==
  /\ block = 0 /\ round = None
  /\ proofOn = [r \in Round |-> None] /\ resultOn = [r \in Round |-> None]
  /\ proofTx = {} /\ resultTx = {}
  /\ file = NoRecord /\ keyProof = {} /\ keyResult = {}
  /\ snap = [d \in Dispatcher |-> None]
  /\ pc = "off" /\ chall = None /\ path = "none"
  /\ rec = NoRecord /\ try = 1 /\ after = "off"
  /\ crashes = 0

Start(r) == r * RoundLength
IdleSlip(r) == Start(r) + IdleWindow
VerifySlip(r) == Start(r) + VerifyWindow
-----------------------------------------------------------------------------
(* The chain (external). *)

\* A block is produced; the next round opens at its start block.
Tick ==
  /\ block < Start(MaxRound + 1)
  /\ block' = block + 1
  /\ round' = IF round < MaxRound /\ block + 1 = Start(round + 1)
              THEN round + 1 ELSE round
  /\ UNCHANGED <<proofOn, resultOn, proofTx, resultTx, file, keyProof, keyResult,
                 snap, pc, chall, path, rec, try, after, crashes>>

\* submit_idle_proof is applied to the open round: none yet, not past its slip.
TakesProof == round # None /\ proofOn[round] = None /\ block <= IdleSlip(round)

\* submit_verify_idle_result is applied: a proof, no result, not past its slip.
TakesResult ==
  /\ round # None
  /\ proofOn[round] # None /\ resultOn[round] = None
  /\ block <= VerifySlip(round)

\* The extrinsic with round p's proof gets into a block.
ProofInBlock(p) ==
  /\ proofTx' = proofTx \cup {p}
  /\ proofOn' = IF TakesProof THEN [proofOn EXCEPT ![round] = p] ELSE proofOn
  /\ UNCHANGED <<block, round, resultOn, resultTx>>

\* The extrinsic with the result that round p's signature vouches for does.
ResultInBlock(p) ==
  /\ resultTx' = resultTx \cup {p}
  /\ resultOn' = IF TakesResult THEN [resultOn EXCEPT ![round] = p] ELSE resultOn
  /\ UNCHANGED <<block, round, proofOn, proofTx>>
-----------------------------------------------------------------------------
(* ChallengeMgt, seen from the worker (ChallengeMgt.tla has the details). *)

\* The idle half's guards on the snapshot and the block number.
Due(r) ==
  IF proofOn[r] = None THEN IdleSlip(r) > block
  ELSE resultOn[r] = None /\ VerifySlip(r) > block

\* A dispatcher passes the guards and the len(idleChallTaskCh) > 0 test.
TakeSnapshot(d) ==
  /\ pc = "off" /\ snap[d] = None
  /\ round # None /\ Due(round)
  /\ snap' = [snap EXCEPT ![d] = round]
  /\ UNCHANGED <<block, round, proofOn, resultOn, proofTx, resultTx, file, keyProof,
                 keyResult, pc, chall, path, rec, try, after, crashes>>

\* It receives the token, then or later, and starts the worker.
Launch(d) ==
  /\ pc = "off" /\ snap[d] # None
  /\ snap' = [snap EXCEPT ![d] = None]
  /\ chall' = snap[d] /\ pc' = "load"
  /\ UNCHANGED <<block, round, proofOn, resultOn, proofTx, resultTx, file, keyProof,
                 keyResult, path, rec, try, after, crashes>>
-----------------------------------------------------------------------------
(* The worker. *)

environment == <<snap, crashes>>

\* The worker goes on at l, within the branch p of idleChallenge.
Goto(l) == pc' = l /\ UNCHANGED <<chall, path, rec, try, after>>

\* return: the deferred function puts the token back.
Return ==
  /\ pc' = "off" /\ chall' = None /\ path' = "none"
  /\ rec' = NoRecord /\ try' = 1 /\ after' = "off"

\* SaveIdleProve(record), then on at l.
SaveThen(record, p, l) ==
  /\ pc' = "truncate" /\ after' = l
  /\ rec' = record /\ path' = p
  /\ try' = 1 /\ UNCHANGED chall

Truncate ==
  /\ pc = "truncate"
  /\ file' = NoRecord
  /\ Goto("write")
  /\ UNCHANGED <<chainVars, keyProof, keyResult, environment>>

\* The file is written; the worker goes on, or returns where nothing follows.
Write ==
  /\ pc = "write"
  /\ file' = rec
  /\ IF after = "off" THEN Return
     ELSE pc' = after /\ after' = "off" /\ UNCHANGED <<chall, path, rec, try>>
  /\ UNCHANGED <<chainVars, keyProof, keyResult, environment>>

\* LoadIdleProve: no readable record, another round's, or this round's.
Load ==
  /\ pc = "load"
  /\ CASE file.start = None -> Goto("fresh")
       [] file.start # None /\ file.start # chall ->
            /\ pc' = "removeFile" /\ rec' = file
            /\ UNCHANGED <<chall, path, try, after>>
       [] file.start = chall ->
            /\ pc' = "proofKey" /\ rec' = file /\ path' = "resume"
            /\ UNCHANGED <<chall, try, after>>
  /\ UNCHANGED <<chainVars, diskVars, environment>>

\* Another round's record: os.Remove, then the record's two cache marks.
RemoveFile ==
  /\ pc = "removeFile"
  /\ file' = NoRecord
  /\ Goto("deleteProof")
  /\ UNCHANGED <<chainVars, keyProof, keyResult, environment>>

DeleteProofMark ==
  /\ pc = "deleteProof"
  /\ keyProof' = keyProof \ {rec.start}
  /\ Goto("deleteResult")
  /\ UNCHANGED <<chainVars, file, keyResult, environment>>

DeleteResultMark ==
  /\ pc = "deleteResult"
  /\ keyResult' = keyResult \ {rec.start}
  /\ Goto("fresh")
  /\ UNCHANGED <<chainVars, file, keyProof, environment>>

\* Fault variant of Fresh: TotalSignature of the old record is not cleared.
FreshKeepsSignature ==
  /\ pc = "fresh"
  /\ \/ /\ rec' = [rec EXCEPT !.start = chall]
        /\ IF chall \in EmptyRounds
           THEN pc' = "proofKey" /\ path' = "empty"
           ELSE pc' = "prove" /\ path' = "full"
        /\ UNCHANGED <<chall, try, after>>
     \/ Return
  /\ UNCHANGED <<chainVars, diskVars, environment>>

\* The record is filled in for this round; a missing RSA key or a failing
\* SetChallengeState ends the worker; an empty range needs no space proof.
Fresh ==
  /\ pc = "fresh"
  /\ \/ /\ rec' = [start |-> chall, sig |-> None]
        /\ IF chall \in EmptyRounds
           THEN pc' = "proofKey" /\ path' = "empty"
           ELSE pc' = "prove" /\ path' = "full"
        /\ UNCHANGED <<chall, try, after>>
     \/ Return
  /\ UNCHANGED <<chainVars, diskVars, environment>>

\* The ProveSpace loop and the first save, or an error.
Prove ==
  /\ pc = "prove"
  /\ SaveThen(rec, "full", "proofKey") \/ Return
  /\ UNCHANGED <<chainVars, diskVars, environment>>

\* After the proof is submitted, or was before, or could not be.
AfterProof ==
  CASE path = "resume" -> pc' = "resultKey" /\ try' = 1 /\ UNCHANGED <<chall, path, rec, after>>
    [] path = "full"   -> pc' = "verifyKey" /\ try' = 1 /\ UNCHANGED <<chall, path, rec, after>>
    [] path = "empty"  -> SaveThen(rec, "empty", "off")

\* Cache.Get(idle_chall_proof:<challStart>)
ProofKey ==
  /\ pc = "proofKey"
  /\ IF chall \in keyProof THEN AfterProof ELSE Goto("proofCheck")
  /\ UNCHANGED <<chainVars, diskVars, environment>>

\* submitIdleProof: expired, or the block query failed or is in time.
ProofCheck ==
  /\ pc = "proofCheck"
  /\ \/ IdleSlip(chall) < block /\ AfterProof
     \/ Goto("proofSend")
  /\ UNCHANGED <<chainVars, diskVars, environment>>

\* No block hash: the next attempt, or the submission has failed.
Retry(failed) ==
  IF try < SubmitTries
  THEN try' = try + 1 /\ UNCHANGED <<pc, chall, path, rec, after>>
  ELSE failed

\* Fault variant of ProofSend: the block hash is not looked at.
ProofSendUnchecked ==
  /\ pc = "proofSend"
  /\ ProofInBlock(chall) \/ UNCHANGED chainVars
  /\ Goto("proofPut")
  /\ UNCHANGED <<diskVars, environment>>

\* SubmitIdleProof once.
ProofSend ==
  /\ pc = "proofSend"
  /\ \/ ProofInBlock(chall) /\ (Goto("proofPut") \/ Retry(AfterProof))
     \/ UNCHANGED chainVars /\ Retry(AfterProof)
  /\ UNCHANGED <<diskVars, environment>>

\* Fault variant of ProofPut: the result is marked along with every proof.
ProofPutMarksBoth ==
  /\ pc = "proofPut"
  /\ keyProof' = keyProof \cup {chall}
  /\ Goto("emptyPut")
  /\ UNCHANGED <<chainVars, file, keyResult, environment>>

\* The mark for a block hash; the record is saved after it.
ProofPut ==
  /\ pc = "proofPut"
  /\ keyProof' = keyProof \cup {chall}
  /\ CASE path = "resume" -> SaveThen(rec, "resume", "resultKey")
       [] path = "full"   -> SaveThen(rec, "full", "verifyKey")
       [] path = "empty"  -> Goto("emptyPut")
  /\ UNCHANGED <<chainVars, file, keyResult, environment>>

\* An empty range needs no result either: its mark is set with the proof's.
EmptyPut ==
  /\ pc = "emptyPut"
  /\ keyResult' = keyResult \cup {chall}
  /\ SaveThen(rec, "empty", "off")
  /\ UNCHANGED <<chainVars, file, keyProof, environment>>

\* Fault variant of VerifyKey: verification does not wait for the proof.
VerifyUnproved ==
  /\ pc = "verifyKey"
  /\ Goto("verify")
  /\ UNCHANGED <<chainVars, diskVars, environment>>

\* Verification is asked for only once the proof is marked.
VerifyKey ==
  /\ pc = "verifyKey"
  /\ IF chall \in keyProof THEN Goto("verify") ELSE Return
  /\ UNCHANGED <<chainVars, diskVars, environment>>

\* Fault variant of VerifyExpired: an expired round is tried again.
VerifyExpiredContinues ==
  /\ pc = "verify"
  /\ VerifySlip(chall) <= block
  /\ UNCHANGED vars

\* verifyIdleProof: the round's verify slip has passed.
VerifyExpired ==
  /\ pc = "verify"
  /\ VerifySlip(chall) <= block
  /\ Return
  /\ UNCHANGED <<chainVars, diskVars, environment>>

\* In time, or the block query failed; a TEE answers for every file block and
\* the record is saved.
VerifyBlocks ==
  /\ pc = "verify"
  /\ SaveThen(rec, "full", "total")
  /\ UNCHANGED <<chainVars, diskVars, environment>>

\* RequestVerifySpaceTotal: signed, or on with the next TEE.
VerifyTotal ==
  /\ pc = "total"
  /\ SaveThen([rec EXCEPT !.sig = chall], "full", "resultCheck") \/ Goto("verify")
  /\ UNCHANGED <<chainVars, diskVars, environment>>

\* Resumed: the result is marked, or the record was never signed, or submit it.
ResultKey ==
  /\ pc = "resultKey"
  /\ IF chall \in keyResult \/ rec.sig = None THEN Return ELSE Goto("resultCheck")
  /\ UNCHANGED <<chainVars, diskVars, environment>>

\* submitIdleResult: expired, or the block query failed or is in time.
ResultCheck ==
  /\ pc = "resultCheck"
  /\ \/ VerifySlip(chall) < block /\ Return
     \/ Goto("resultSend")
  /\ UNCHANGED <<chainVars, diskVars, environment>>

\* SubmitVerifyIdleResult once.
ResultSend ==
  /\ pc = "resultSend"
  /\ \/ ResultInBlock(rec.sig) /\ (Goto("resultPut") \/ Retry(Return))
     \/ UNCHANGED chainVars /\ Retry(Return)
  /\ UNCHANGED <<diskVars, environment>>

\* The result's mark, then the last save.
ResultPut ==
  /\ pc = "resultPut"
  /\ keyResult' = keyResult \cup {chall}
  /\ SaveThen(rec, path, "off")
  /\ UNCHANGED <<chainVars, file, keyProof, environment>>

Worker ==
  \/ Truncate \/ Write \/ Load \/ RemoveFile \/ DeleteProofMark \/ DeleteResultMark
  \/ Fresh \/ Prove \/ ProofKey \/ ProofCheck \/ ProofSend \/ ProofPut \/ EmptyPut
  \/ VerifyKey \/ VerifyExpired \/ VerifyBlocks \/ VerifyTotal
  \/ ResultKey \/ ResultCheck \/ ResultSend \/ ResultPut

\* The process dies and is started again on the same workspace (Build keeps the
\* record file and the cache); goroutines and their snapshots are gone.
Crash ==
  /\ crashes < MaxCrashes
  /\ crashes' = crashes + 1
  /\ snap' = [d \in Dispatcher |-> None]
  /\ Return
  /\ UNCHANGED <<chainVars, diskVars>>
-----------------------------------------------------------------------------
Next ==
  \/ Tick
  \/ \E d \in Dispatcher : TakeSnapshot(d) \/ Launch(d)
  \/ Worker
  \/ Crash

Spec == Init /\ [][Next]_vars

\* The worker's goroutine runs; blocks are produced; and not every block query
\* of the verification loop fails (Reconnectrpc of node/node.go).
FairSpec ==
  Spec /\ WF_vars(Worker) /\ WF_vars(Tick) /\ SF_vars(VerifyExpired)
-----------------------------------------------------------------------------
(* Properties. *)

\* A round is marked idle_chall_proof only if an extrinsic with that round's
\* proof is in a block: the mark stops every later submission of the proof.
ProofMarkSound == keyProof \subseteq proofTx

\* A round is marked idle_chall_result only if its result is in a block, or its
\* range was empty and its proof is.
ResultMarkSound ==
  \A r \in keyResult : r \in resultTx \/ (r \in EmptyRounds /\ r \in proofTx)

\* A signature in the record file belongs to the record's own round, and that
\* round's proof was in a block before the signature was asked for.
SignatureSound ==
  file.sig # None => file.sig = file.start /\ file.start \in proofTx

\* A verification result is sent only for a round whose proof is in a block, and
\* never for an empty range, also when the record is resumed after a crash.
ResultFollowsProof == resultTx \subseteq proofTx \ EmptyRounds

\* Every worker returns its token: the loop over the TEEs ends at the verify slip.
WorkerReturns == pc # "off" ~> pc = "off"
-----------------------------------------------------------------------------
(* The inductive invariant behind the safety properties. *)

\* Where the worker is, or will be when its save returns.
Location == IF pc \in {"truncate", "write"} THEN after ELSE pc

\* A signature is its record's own, of a proved round with a range to prove.
Signed(r) == r.sig # None => /\ r.sig = r.start
                             /\ r.start \in proofTx \ EmptyRounds

\* The worker's locals fit the branch and the place it is at.
WorkerInv ==
  /\ pc # "off" => chall \in Round
  /\ IF pc \in {"off", "load", "removeFile", "deleteProof", "deleteResult", "fresh"}
     THEN path = "none"
     ELSE rec.start = chall /\ path # "none"
  /\ path = "full" => chall \notin EmptyRounds
  /\ path = "empty" => chall \in EmptyRounds
  /\ Location \in {"prove", "verifyKey", "verify", "total"} => path = "full"
  /\ Location \in {"verify", "total"} => chall \in proofTx
  /\ Location \in {"proofPut", "emptyPut"} => chall \in proofTx
  /\ Location = "emptyPut" => path = "empty"
  /\ Location \in {"resultCheck", "resultSend", "resultPut"} => rec.sig # None
  /\ Location = "resultPut" => chall \in resultTx
  /\ after \in {"off", "proofKey", "verifyKey", "total", "resultKey", "resultCheck"}

IInv ==
  /\ TypeOK /\ WorkerInv
  /\ Signed(file) /\ Signed(rec)
  /\ ProofMarkSound /\ ResultMarkSound /\ ResultFollowsProof
=============================================================================
