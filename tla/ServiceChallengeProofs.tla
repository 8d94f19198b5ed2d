----------------------- MODULE ServiceChallengeProofs -----------------------
(***************************************************************************)
(* Proofs about ServiceChallenge: for every number of rounds of each kind, *)
(* dispatchers, attempts and crashes, and every choice of windows, the     *)
(* marks, the record and the submitted results are sound.                  *)
(***************************************************************************)
EXTENDS ServiceChallenge, BatchVerify, Integers, FiniteSetTheorems, TLAPS

\* Round numbers and the "no round" value 0 are distinct naturals.
LEMMA RoundFacts == Round \subseteq Nat /\ None \notin Round /\ None \in Nat
  BY ConstantAssumption DEF Round, None

\* The attempts of a submission are counted from 1 to SubmitTries.
LEMMA TryFacts ==
  /\ 1 \in 1..SubmitTries
  /\ \A t \in 1..SubmitTries : t < SubmitTries => t + 1 \in 1..SubmitTries
  BY ConstantAssumption

\* The worker's locals after a step of the same goroutine, field by field.
Becomes(l, p, r, t, a) ==
  /\ w' \in Worker
  /\ w'.pc = l /\ w'.chall = w.chall /\ w'.path = p /\ w'.rec = r
  /\ w'.try = t /\ w'.after = a

\* The record of a round whose proof is to be computed.
Filled == [start |-> w.chall, sig |-> None]

\* The locals of a worker that has returned.
LEMMA IdleFacts == Idle \in Worker
  BY RoundFacts, TryFacts DEF Idle, Worker, PcState, Record, NoRecord

\* The record with the TEE's signature for the worker's round.
LEMMA SignedFacts ==
  ASSUME w \in Worker, w.chall \in Round
  PROVE  Signed \in Record /\ Signed.start = w.rec.start /\ Signed.sig = w.chall
  BY DEF Signed, Worker, Record

\* What each kind of update of the worker's locals leaves in them.
LEMMA SaveThenFacts ==
  ASSUME w \in Worker, NEW r \in Record, NEW p \in {"empty", "single", "batch"},
         SaveThen(r, p, "proofKey")
  PROVE  Becomes("truncate", p, r, 1, "proofKey")
  <1>1. w' \in Worker
    BY TryFacts DEF SaveThen, Worker, PcState
  <1>2. QED
    BY <1>1 DEF SaveThen, Worker, Becomes

\* The worker moves on with another record: fresh, loaded or just signed.
LEMMA RecFacts ==
  ASSUME w \in Worker, NEW l \in PcState, NEW r \in Record,
         w' = [w EXCEPT !.pc = l, !.rec = r]
  PROVE  Becomes(l, w.path, r, w.try, w.after)
  <1>1. w' \in Worker
    BY DEF Worker
  <1>2. QED
    BY <1>1 DEF Worker, Becomes

\* The worker resumes from the record of an earlier worker of the round.
LEMMA ResumeFacts ==
  ASSUME w \in Worker, NEW r \in Record,
         w' = [w EXCEPT !.pc = "proofKey", !.rec = r, !.path = "resume"]
  PROVE  Becomes("proofKey", "resume", r, w.try, w.after)
  <1>1. w' \in Worker
    BY DEF Worker, PcState
  <1>2. QED
    BY <1>1 DEF Worker, Becomes

\* The worker starts counting attempts anew.
LEMMA RetryFacts ==
  ASSUME w \in Worker, NEW l \in PcState, w' = [w EXCEPT !.pc = l, !.try = 1]
  PROVE  Becomes(l, w.path, w.rec, 1, w.after)
  <1>1. w' \in Worker
    BY TryFacts DEF Worker
  <1>2. QED
    BY <1>1 DEF Worker, Becomes

\* SaveServiceProve returns to its caller.
LEMMA ResumeAfterFacts ==
  ASSUME w \in Worker, w' = [w EXCEPT !.pc = w.after, !.after = "off"]
  PROVE  Becomes(w.after, w.path, w.rec, w.try, "off")
  <1>1. w' \in Worker
    BY DEF Worker, PcState
  <1>2. QED
    BY <1>1 DEF Worker, Becomes

\* Where the worker goes on once the proof has been dealt with.
LEMMA AfterProofFacts ==
  /\ AfterProof \in {"resultKey", "emptyRetry", "verifyKey"}
  /\ AfterProof = "resultKey" => w.path = "resume"
  /\ AfterProof = "emptyRetry" => w.path = "empty"
  /\ AfterProof = "verifyKey" =>
       w.path # "resume" /\ (w.path = "empty" => w.rec.sig # None)
  BY DEF AfterProof

\* Node.Start on a fresh workspace satisfies the invariant.
LEMMA InitInv == Init => IInv
  BY RoundFacts, TryFacts, ConstantAssumption
  DEF Init, IInv, TypeOK, WorkerInv, Location, BatchRound, ProofMarkSound,
      ResultMarkSound, SignatureSound, BatchResumable, Worker, Record, NoRecord,
      PcState, Idle

\* Blocks, dispatchers and stuttering leave the disk and the worker's record alone.
LEMMA OutsideInv ==
  ASSUME IInv,
         Tick \/ UNCHANGED vars \/ \E d \in Dispatcher : TakeSnapshot(d) \/ Launch(d)
  PROVE  IInv'
  <1>1. CASE Tick
    <2>1. round' \in Round \cup {None} /\ block' \in Nat
      BY <1>1, ConstantAssumption DEF IInv, TypeOK, Tick, Round, None
    <2>2. UNCHANGED <<proofOn, resultOn, proofTx, resultTx, file, keyProof, keyResult,
                      snap, w, told, crashes>>
      BY <1>1 DEF Tick, diskVars
    <2>3. QED
      BY <2>1, <2>2 DEF IInv, TypeOK, WorkerInv, Location, ProofMarkSound,
         ResultMarkSound, SignatureSound, BatchResumable
  <1>2. CASE UNCHANGED vars
    BY <1>2 DEF IInv, TypeOK, WorkerInv, Location, ProofMarkSound, ResultMarkSound,
       SignatureSound, BatchResumable, vars
  <1>3. ASSUME NEW d \in Dispatcher, TakeSnapshot(d) PROVE IInv'
    BY <1>3 DEF IInv, TypeOK, WorkerInv, Location, ProofMarkSound, ResultMarkSound,
       SignatureSound, BatchResumable, TakeSnapshot, chainVars, diskVars
  <1>4. ASSUME NEW d \in Dispatcher, Launch(d) PROVE IInv'
    <2>1. TypeOK'
      BY <1>4 DEF IInv, TypeOK, Launch, Worker, PcState, chainVars, diskVars
    <2>2. WorkerInv'
      BY <1>4 DEF IInv, TypeOK, Launch, Worker, WorkerInv, Location, BatchRound,
         chainVars, diskVars
    <2>3. QED
      BY <1>4, <2>1, <2>2 DEF IInv, Launch, ProofMarkSound, ResultMarkSound,
         SignatureSound, BatchResumable, chainVars, diskVars
  <1>5. QED
    BY <1>1, <1>2, <1>3, <1>4

\* A crash keeps the disk and the chain.
LEMMA CrashInv == IInv /\ Crash => IInv'
  BY RoundFacts, TryFacts, ConstantAssumption
  DEF IInv, TypeOK, Crash, Return, Idle, WorkerInv, Location, BatchRound,
      ProofMarkSound, ResultMarkSound, SignatureSound, BatchResumable, Worker,
      PcState, Record, NoRecord, chainVars, diskVars

\* Each step of serviceChallenge preserves the invariant: first what the step does
\* to the worker's locals, then each part of the invariant from that.
LEMMA WorkerStepInv == IInv /\ WorkerStep => IInv'
  <1> SUFFICES ASSUME IInv, WorkerStep PROVE IInv'
    OBVIOUS
  <1> USE RoundFacts, TryFacts DEF chainVars, diskVars, env
  <1>0. /\ w \in Worker /\ w.rec \in Record /\ file \in Record
        /\ w.path \in {"none", "resume", "empty", "single", "batch"}
        /\ Filled \in Record /\ Filled.start = w.chall /\ Filled.sig = None
    BY DEF IInv, TypeOK, Worker, Record, Filled
  <1>1. CASE Truncate
    <2>1. Becomes("write", w.path, w.rec, w.try, w.after)
      BY <1>1, <1>0 DEF IInv, WorkerInv, Worker, Record, PcState, Becomes,
         Truncate, Goto
    <2>2. TypeOK'
      BY <1>1, <2>1 DEF IInv, TypeOK, WorkerInv, Worker, Becomes, Record,
         NoRecord, Truncate, Goto
    <2>3. WorkerInv'
      BY <1>1, <1>0, <2>1 DEF IInv, WorkerInv, Location, BatchRound,
         Becomes, Record, Truncate
    <2>4. (ProofMarkSound /\ ResultMarkSound /\ SignatureSound /\ BatchResumable)'
      BY <1>1, <1>0 DEF IInv, WorkerInv, Location, BatchRound,
         ProofMarkSound, ResultMarkSound, SignatureSound, BatchResumable,
         NoRecord, Truncate
    <2>5. QED
      BY <2>2, <2>3, <2>4 DEF IInv
  <1>2. CASE Write
    <2>0. \/ w' = Idle
          \/ w' = [w EXCEPT !.pc = w.after, !.after = "off"] /\ w.after # "off"
      BY <1>2 DEF Write, Return
    <2>1. \/ w' = Idle
          \/ Becomes(w.after, w.path, w.rec, w.try, "off") /\ w.after # "off"
      <3>2. w' = [w EXCEPT !.pc = w.after, !.after = "off"]
            => Becomes(w.after, w.path, w.rec, w.try, "off")
        BY <1>0, ResumeAfterFacts
      <3>3. QED
        BY <2>0, <3>2
    <2>2. TypeOK'
      BY <1>2, <2>1, IdleFacts DEF IInv, TypeOK, WorkerInv, Worker, Becomes,
         Record, Write, Return
    <2>3. WorkerInv'
      <3>1. CASE w' = Idle
        BY <1>0, <3>1 DEF WorkerInv, Location, BatchRound, Idle, NoRecord
      <3>2. CASE Becomes(w.after, w.path, w.rec, w.try, "off") /\ w.after # "off"
        BY <1>2, <1>0, <3>2 DEF IInv, WorkerInv, Location, BatchRound,
           Becomes, Record, Write
      <3>3. QED
        BY <2>1, <3>1, <3>2
    <2>4. (ProofMarkSound /\ ResultMarkSound /\ SignatureSound /\ BatchResumable)'
      BY <1>2, <1>0 DEF IInv, WorkerInv, Location, BatchRound,
         ProofMarkSound, ResultMarkSound, SignatureSound, BatchResumable,
         Write
    <2>5. QED
      BY <2>2, <2>3, <2>4 DEF IInv
  <1>3. CASE Load
    <2>0. \/ w' = [w EXCEPT !.pc = "fresh"]
          \/ w' = [w EXCEPT !.pc = "removeFile", !.rec = file]
          \/ w' = [w EXCEPT !.pc = "proofKey", !.rec = file, !.path = "resume"]
               /\ file.start = w.chall
      BY <1>3 DEF Load, Goto
    <2>1. \/ Becomes("fresh", w.path, w.rec, w.try, w.after)
          \/ Becomes("removeFile", w.path, file, w.try, w.after)
          \/ Becomes("proofKey", "resume", file, w.try, w.after)
               /\ file.start = w.chall
      <3>1. w' = [w EXCEPT !.pc = "fresh"]
            => Becomes("fresh", w.path, w.rec, w.try, w.after)
        BY <1>3, <1>0 DEF IInv, WorkerInv, Worker, Record, PcState,
           Becomes, Load
      <3>2. w' = [w EXCEPT !.pc = "removeFile", !.rec = file]
            => Becomes("removeFile", w.path, file, w.try, w.after)
        BY <1>0, RecFacts DEF PcState
      <3>3. w' = [w EXCEPT !.pc = "proofKey", !.rec = file, !.path = "resume"]
            => Becomes("proofKey", "resume", file, w.try, w.after)
        BY <1>0, ResumeFacts
      <3>4. QED
        BY <2>0, <3>1, <3>2, <3>3
    <2>2. TypeOK'
      BY <1>3, <2>1 DEF IInv, TypeOK, WorkerInv, Worker, Becomes, Record,
         Load, Goto
    <2>3. WorkerInv'
      <3>1. CASE Becomes("fresh", w.path, w.rec, w.try, w.after)
        BY <1>3, <1>0, <3>1 DEF IInv, WorkerInv, Location, BatchRound,
           BatchResumable, SignatureSound, Becomes, Record, Load
      <3>2. CASE Becomes("removeFile", w.path, file, w.try, w.after)
        BY <1>3, <1>0, <3>2 DEF IInv, WorkerInv, Location, BatchRound,
           BatchResumable, SignatureSound, Becomes, Record, Load
      <3>3. CASE Becomes("proofKey", "resume", file, w.try, w.after)
                   /\ file.start = w.chall
        BY <1>3, <1>0, <3>3 DEF IInv, WorkerInv, Location, BatchRound,
           BatchResumable, SignatureSound, Becomes, Record, Load
      <3>4. QED
        BY <2>1, <3>1, <3>2, <3>3
    <2>4. (ProofMarkSound /\ ResultMarkSound /\ SignatureSound /\ BatchResumable)'
      BY <1>3, <1>0 DEF IInv, WorkerInv, Location, BatchRound,
         ProofMarkSound, ResultMarkSound, SignatureSound, BatchResumable,
         Load
    <2>5. QED
      BY <2>2, <2>3, <2>4 DEF IInv
  <1>4. CASE RemoveFile
    <2>1. Becomes("deleteProof", w.path, w.rec, w.try, w.after)
      BY <1>4, <1>0 DEF IInv, WorkerInv, Worker, Record, PcState, Becomes,
         RemoveFile, Goto
    <2>2. TypeOK'
      BY <1>4, <2>1 DEF IInv, TypeOK, WorkerInv, Worker, Becomes, Record,
         NoRecord, RemoveFile, Goto
    <2>3. WorkerInv'
      BY <1>4, <1>0, <2>1 DEF IInv, WorkerInv, Location, BatchRound,
         Becomes, Record, RemoveFile
    <2>4. (ProofMarkSound /\ ResultMarkSound /\ SignatureSound /\ BatchResumable)'
      BY <1>4, <1>0 DEF IInv, WorkerInv, Location, BatchRound,
         ProofMarkSound, ResultMarkSound, SignatureSound, BatchResumable,
         NoRecord, RemoveFile
    <2>5. QED
      BY <2>2, <2>3, <2>4 DEF IInv
  <1>5. CASE DeleteProofMark
    <2>1. Becomes("deleteResult", w.path, w.rec, w.try, w.after)
      BY <1>5, <1>0 DEF IInv, WorkerInv, Worker, Record, PcState, Becomes,
         DeleteProofMark, Goto
    <2>2. TypeOK'
      BY <1>5, <2>1 DEF IInv, TypeOK, WorkerInv, Worker, Becomes, Record,
         DeleteProofMark, Goto
    <2>3. WorkerInv'
      BY <1>5, <1>0, <2>1 DEF IInv, WorkerInv, Location, BatchRound,
         Becomes, Record, DeleteProofMark
    <2>4. (ProofMarkSound /\ ResultMarkSound /\ SignatureSound /\ BatchResumable)'
      BY <1>5, <1>0 DEF IInv, WorkerInv, Location, BatchRound,
         ProofMarkSound, ResultMarkSound, SignatureSound, BatchResumable,
         DeleteProofMark
    <2>5. QED
      BY <2>2, <2>3, <2>4 DEF IInv
  <1>6. CASE DeleteResultMark
    <2>1. Becomes("fresh", w.path, w.rec, w.try, w.after)
      BY <1>6, <1>0 DEF IInv, WorkerInv, Worker, Record, PcState, Becomes,
         DeleteResultMark, Goto
    <2>2. TypeOK'
      BY <1>6, <2>1 DEF IInv, TypeOK, WorkerInv, Worker, Becomes, Record,
         DeleteResultMark, Goto
    <2>3. WorkerInv'
      BY <1>6, <1>0, <2>1 DEF IInv, WorkerInv, Location, BatchRound,
         Becomes, Record, DeleteResultMark
    <2>4. (ProofMarkSound /\ ResultMarkSound /\ SignatureSound /\ BatchResumable)'
      BY <1>6, <1>0 DEF IInv, WorkerInv, Location, BatchRound,
         ProofMarkSound, ResultMarkSound, SignatureSound, BatchResumable,
         DeleteResultMark
    <2>5. QED
      BY <2>2, <2>3, <2>4 DEF IInv
  <1>7. CASE Fresh
    <2>0. \/ w' = Idle
          \/ w' = [w EXCEPT !.pc = "emptyVerify", !.rec = Filled]
               /\ w.chall \in EmptyRounds
          \/ w' = [w EXCEPT !.pc = "sigma", !.rec = Filled]
               /\ w.chall \in SingleRounds
          \/ w' = [w EXCEPT !.pc = "batch", !.rec = Filled]
      BY <1>7 DEF Fresh, Return, Filled
    <2>1. \/ w' = Idle
          \/ Becomes("emptyVerify", w.path, Filled, w.try, w.after)
               /\ w.chall \in EmptyRounds
          \/ Becomes("sigma", w.path, Filled, w.try, w.after)
               /\ w.chall \in SingleRounds
          \/ Becomes("batch", w.path, Filled, w.try, w.after)
      <3>2. w' = [w EXCEPT !.pc = "emptyVerify", !.rec = Filled]
            => Becomes("emptyVerify", w.path, Filled, w.try, w.after)
        BY <1>0, RecFacts DEF PcState
      <3>3. w' = [w EXCEPT !.pc = "sigma", !.rec = Filled]
            => Becomes("sigma", w.path, Filled, w.try, w.after)
        BY <1>0, RecFacts DEF PcState
      <3>4. w' = [w EXCEPT !.pc = "batch", !.rec = Filled]
            => Becomes("batch", w.path, Filled, w.try, w.after)
        BY <1>0, RecFacts DEF PcState
      <3>5. QED
        BY <2>0, <3>2, <3>3, <3>4
    <2>2. TypeOK'
      BY <1>7, <2>1, IdleFacts DEF IInv, TypeOK, WorkerInv, Worker, Becomes,
         Record, Fresh, Return
    <2>3. WorkerInv'
      <3>1. CASE w' = Idle
        BY <1>0, <3>1 DEF WorkerInv, Location, BatchRound, Idle, NoRecord
      <3>2. CASE Becomes("emptyVerify", w.path, Filled, w.try, w.after)
                   /\ w.chall \in EmptyRounds
        BY <1>7, <1>0, <3>2 DEF IInv, WorkerInv, Location, BatchRound,
           Becomes, Record, Fresh
      <3>3. CASE Becomes("sigma", w.path, Filled, w.try, w.after)
                   /\ w.chall \in SingleRounds
        BY <1>7, <1>0, <3>3 DEF IInv, WorkerInv, Location, BatchRound,
           Becomes, Record, Fresh
      <3>4. CASE Becomes("batch", w.path, Filled, w.try, w.after)
        BY <1>7, <1>0, <3>4 DEF IInv, WorkerInv, Location, BatchRound,
           Becomes, Record, Fresh
      <3>5. QED
        BY <2>1, <3>1, <3>2, <3>3, <3>4
    <2>4. (ProofMarkSound /\ ResultMarkSound /\ SignatureSound /\ BatchResumable)'
      BY <1>7, <1>0 DEF IInv, WorkerInv, Location, BatchRound,
         ProofMarkSound, ResultMarkSound, SignatureSound, BatchResumable,
         Fresh
    <2>5. QED
      BY <2>2, <2>3, <2>4 DEF IInv
  <1>8. CASE EmptyVerify
    <2>0. \/ w' = [w EXCEPT !.pc = "emptyAnswer"]
          \/ SaveThen(w.rec, "empty", "proofKey")
      BY <1>8 DEF EmptyVerify, Goto
    <2>1. \/ Becomes("emptyAnswer", w.path, w.rec, w.try, w.after)
          \/ Becomes("truncate", "empty", w.rec, 1, "proofKey")
      <3>1. w' = [w EXCEPT !.pc = "emptyAnswer"]
            => Becomes("emptyAnswer", w.path, w.rec, w.try, w.after)
        BY <1>8, <1>0 DEF IInv, WorkerInv, Worker, Record, PcState,
           Becomes, EmptyVerify
      <3>2. SaveThen(w.rec, "empty", "proofKey")
            => Becomes("truncate", "empty", w.rec, 1, "proofKey")
        BY <1>0, SaveThenFacts
      <3> QED
        BY <2>0, <3>1, <3>2
    <2>2. TypeOK'
      BY <1>8, <2>1, SignedFacts DEF IInv, TypeOK, WorkerInv, Worker,
         Becomes, Record, PcState, EmptyVerify, SaveThen, Goto
    <2>3. WorkerInv'
      <3>1. CASE Becomes("emptyAnswer", w.path, w.rec, w.try, w.after)
        BY <1>8, <1>0, <3>1, SignedFacts DEF IInv, WorkerInv, Location,
           BatchRound, Becomes, Record, EmptyVerify
      <3>2. CASE Becomes("truncate", "empty", w.rec, 1, "proofKey")
        BY <1>8, <1>0, <3>2, SignedFacts DEF IInv, WorkerInv, Location,
           BatchRound, Becomes, Record, EmptyVerify
      <3> QED
        BY <2>1, <3>1, <3>2
    <2>4. (ProofMarkSound /\ ResultMarkSound /\ SignatureSound /\ BatchResumable)'
      BY <1>8, <1>0 DEF IInv, WorkerInv, Location, BatchRound,
         ProofMarkSound, ResultMarkSound, SignatureSound, BatchResumable,
         EmptyVerify
    <2>5. QED
      BY <2>2, <2>3, <2>4 DEF IInv
  <1>9. CASE EmptyAnswer
    <2>0. \/ SaveThen(Signed, "empty", "proofKey")
          \/ SaveThen(w.rec, "empty", "proofKey")
          \/ w' = [w EXCEPT !.pc = "emptyVerify"]
      BY <1>9 DEF EmptyAnswer, Goto
    <2>1. \/ Becomes("truncate", "empty", Signed, 1, "proofKey")
          \/ Becomes("truncate", "empty", w.rec, 1, "proofKey")
          \/ Becomes("emptyVerify", w.path, w.rec, w.try, w.after)
      <3>1. SaveThen(Signed, "empty", "proofKey")
            => Becomes("truncate", "empty", Signed, 1, "proofKey")
        BY <1>9, <1>0, SignedFacts, SaveThenFacts DEF IInv, WorkerInv, Location, EmptyAnswer
      <3>2. SaveThen(w.rec, "empty", "proofKey")
            => Becomes("truncate", "empty", w.rec, 1, "proofKey")
        BY <1>0, SaveThenFacts
      <3>3. w' = [w EXCEPT !.pc = "emptyVerify"]
            => Becomes("emptyVerify", w.path, w.rec, w.try, w.after)
        BY <1>9, <1>0 DEF IInv, WorkerInv, Worker, Record, PcState,
           Becomes, EmptyAnswer
      <3> QED
        BY <2>0, <3>1, <3>2, <3>3
    <2>2. TypeOK'
      BY <1>9, <2>1, SignedFacts DEF IInv, TypeOK, WorkerInv, Worker,
         Becomes, Record, PcState, EmptyAnswer, SaveThen, Goto
    <2>3. WorkerInv'
      <3>1. CASE Becomes("truncate", "empty", Signed, 1, "proofKey")
        BY <1>9, <1>0, <3>1, SignedFacts DEF IInv, WorkerInv, Location,
           BatchRound, Becomes, Record, EmptyAnswer
      <3>2. CASE Becomes("truncate", "empty", w.rec, 1, "proofKey")
        BY <1>9, <1>0, <3>2, SignedFacts DEF IInv, WorkerInv, Location,
           BatchRound, Becomes, Record, EmptyAnswer
      <3>3. CASE Becomes("emptyVerify", w.path, w.rec, w.try, w.after)
        BY <1>9, <1>0, <3>3, SignedFacts DEF IInv, WorkerInv, Location,
           BatchRound, Becomes, Record, EmptyAnswer
      <3> QED
        BY <2>1, <3>1, <3>2, <3>3
    <2>4. (ProofMarkSound /\ ResultMarkSound /\ SignatureSound /\ BatchResumable)'
      BY <1>9, <1>0 DEF IInv, WorkerInv, Location, BatchRound,
         ProofMarkSound, ResultMarkSound, SignatureSound, BatchResumable,
         EmptyAnswer
    <2>5. QED
      BY <2>2, <2>3, <2>4 DEF IInv
  <1>10. CASE Sigma
    <2>0. \/ w' = Idle
          \/ SaveThen(w.rec, "single", "proofKey")
      BY <1>10 DEF Sigma, Return
    <2>1. \/ w' = Idle
          \/ Becomes("truncate", "single", w.rec, 1, "proofKey")
      <3>2. SaveThen(w.rec, "single", "proofKey")
            => Becomes("truncate", "single", w.rec, 1, "proofKey")
        BY <1>0, SaveThenFacts
      <3>3. QED
        BY <2>0, <3>2
    <2>2. TypeOK'
      BY <1>10, <2>1, IdleFacts DEF IInv, TypeOK, WorkerInv, Worker, Becomes,
         Record, Sigma, SaveThen, Return
    <2>3. WorkerInv'
      <3>1. CASE w' = Idle
        BY <1>0, <3>1 DEF WorkerInv, Location, BatchRound, Idle, NoRecord
      <3>2. CASE Becomes("truncate", "single", w.rec, 1, "proofKey")
        BY <1>10, <1>0, <3>2 DEF IInv, WorkerInv, Location, BatchRound,
           Becomes, Record, Sigma
      <3>3. QED
        BY <2>1, <3>1, <3>2
    <2>4. (ProofMarkSound /\ ResultMarkSound /\ SignatureSound /\ BatchResumable)'
      BY <1>10, <1>0 DEF IInv, WorkerInv, Location, BatchRound,
         ProofMarkSound, ResultMarkSound, SignatureSound, BatchResumable,
         Sigma
    <2>5. QED
      BY <2>2, <2>3, <2>4 DEF IInv
  <1>11. CASE Batch
    <2>0. \/ w' = Idle
          \/ w' = [w EXCEPT !.pc = "batchAnswer"]
      BY <1>11 DEF Batch, Goto, Return
    <2>1. \/ w' = Idle
          \/ Becomes("batchAnswer", w.path, w.rec, w.try, w.after)
      <3>1. w' = [w EXCEPT !.pc = "batchAnswer"]
            => Becomes("batchAnswer", w.path, w.rec, w.try, w.after)
        BY <1>11, <1>0 DEF IInv, WorkerInv, Worker, Record, PcState,
           Becomes, Batch
      <3> QED
        BY <2>0, <3>1
    <2>2. TypeOK'
      BY <1>11, <2>1, IdleFacts, SignedFacts DEF IInv, TypeOK, WorkerInv, Worker,
         Becomes, Record, PcState, Batch, SaveThen, Goto, Return
    <2>3. WorkerInv'
      <3>1. CASE w' = Idle
        BY <1>0, <3>1 DEF WorkerInv, Location, BatchRound, Idle, NoRecord
      <3>2. CASE Becomes("batchAnswer", w.path, w.rec, w.try, w.after)
        BY <1>11, <1>0, <3>2, SignedFacts DEF IInv, WorkerInv, Location,
           BatchRound, Becomes, Record, Batch
      <3> QED
        BY <2>1, <3>1, <3>2
    <2>4. (ProofMarkSound /\ ResultMarkSound /\ SignatureSound /\ BatchResumable)'
      BY <1>11, <1>0 DEF IInv, WorkerInv, Location, BatchRound,
         ProofMarkSound, ResultMarkSound, SignatureSound, BatchResumable,
         Batch
    <2>5. QED
      BY <2>2, <2>3, <2>4 DEF IInv
  <1>12. CASE BatchAnswer
    <2>0. \/ w' = Idle
          \/ SaveThen(Signed, "batch", "proofKey")
      BY <1>12 DEF BatchAnswer, Return
    <2>1. \/ w' = Idle
          \/ Becomes("truncate", "batch", Signed, 1, "proofKey")
      <3>1. SaveThen(Signed, "batch", "proofKey")
            => Becomes("truncate", "batch", Signed, 1, "proofKey")
        BY <1>12, <1>0, SignedFacts, SaveThenFacts DEF IInv, WorkerInv, Location, BatchAnswer
      <3> QED
        BY <2>0, <3>1
    <2>2. TypeOK'
      BY <1>12, <2>1, IdleFacts, SignedFacts DEF IInv, TypeOK, WorkerInv, Worker,
         Becomes, Record, PcState, BatchAnswer, SaveThen, Return
    <2>3. WorkerInv'
      <3>1. CASE w' = Idle
        BY <1>0, <3>1 DEF WorkerInv, Location, BatchRound, Idle, NoRecord
      <3>2. CASE Becomes("truncate", "batch", Signed, 1, "proofKey")
        BY <1>12, <1>0, <3>2, SignedFacts DEF IInv, WorkerInv, Location,
           BatchRound, Becomes, Record, BatchAnswer
      <3> QED
        BY <2>1, <3>1, <3>2
    <2>4. (ProofMarkSound /\ ResultMarkSound /\ SignatureSound /\ BatchResumable)'
      BY <1>12, <1>0 DEF IInv, WorkerInv, Location, BatchRound,
         ProofMarkSound, ResultMarkSound, SignatureSound, BatchResumable,
         BatchAnswer
    <2>5. QED
      BY <2>2, <2>3, <2>4 DEF IInv
  <1>13. CASE ProofKey
    <2>0. \/ w' = [w EXCEPT !.pc = AfterProof, !.try = 1]
          \/ w' = [w EXCEPT !.pc = "proofCheck"]
      BY <1>13 DEF ProofKey, Proceed, Goto
    <2>1. \/ Becomes(AfterProof, w.path, w.rec, 1, w.after)
          \/ Becomes("proofCheck", w.path, w.rec, w.try, w.after)
      <3>1. w' = [w EXCEPT !.pc = AfterProof, !.try = 1]
            => Becomes(AfterProof, w.path, w.rec, 1, w.after)
        BY <1>0, AfterProofFacts, RetryFacts DEF PcState
      <3>2. w' = [w EXCEPT !.pc = "proofCheck"]
            => Becomes("proofCheck", w.path, w.rec, w.try, w.after)
        BY <1>13, <1>0, AfterProofFacts DEF IInv, WorkerInv, Worker,
           Record, PcState, Becomes, ProofKey
      <3>3. QED
        BY <2>0, <3>1, <3>2
    <2>2. TypeOK'
      BY <1>13, <2>1, AfterProofFacts DEF IInv, TypeOK, WorkerInv, Worker,
         Becomes, Record, ProofKey, Proceed, Goto
    <2>3. WorkerInv'
      <3>1. CASE Becomes(AfterProof, w.path, w.rec, 1, w.after)
        BY <1>13, <1>0, <3>1, AfterProofFacts DEF IInv, WorkerInv,
           Location, BatchRound, Becomes, Record, ProofKey
      <3>2. CASE Becomes("proofCheck", w.path, w.rec, w.try, w.after)
        BY <1>13, <1>0, <3>2, AfterProofFacts DEF IInv, WorkerInv,
           Location, BatchRound, Becomes, Record, ProofKey
      <3>3. QED
        BY <2>1, <3>1, <3>2
    <2>4. (ProofMarkSound /\ ResultMarkSound /\ SignatureSound /\ BatchResumable)'
      BY <1>13, <1>0 DEF IInv, WorkerInv, Location, BatchRound,
         ProofMarkSound, ResultMarkSound, SignatureSound, BatchResumable,
         ProofKey
    <2>5. QED
      BY <2>2, <2>3, <2>4 DEF IInv
  <1>14. CASE ProofCheck
    <2>0. \/ w' = [w EXCEPT !.pc = AfterProof, !.try = 1]
          \/ w' = [w EXCEPT !.pc = "proofSend"]
      BY <1>14 DEF ProofCheck, Proceed, Goto
    <2>1. \/ Becomes(AfterProof, w.path, w.rec, 1, w.after)
          \/ Becomes("proofSend", w.path, w.rec, w.try, w.after)
      <3>1. w' = [w EXCEPT !.pc = AfterProof, !.try = 1]
            => Becomes(AfterProof, w.path, w.rec, 1, w.after)
        BY <1>0, AfterProofFacts, RetryFacts DEF PcState
      <3>2. w' = [w EXCEPT !.pc = "proofSend"]
            => Becomes("proofSend", w.path, w.rec, w.try, w.after)
        BY <1>14, <1>0, AfterProofFacts DEF IInv, WorkerInv, Worker,
           Record, PcState, Becomes, ProofCheck
      <3>3. QED
        BY <2>0, <3>1, <3>2
    <2>2. TypeOK'
      BY <1>14, <2>1, AfterProofFacts DEF IInv, TypeOK, WorkerInv, Worker,
         Becomes, Record, ProofCheck, Proceed, Goto
    <2>3. WorkerInv'
      <3>1. CASE Becomes(AfterProof, w.path, w.rec, 1, w.after)
        BY <1>14, <1>0, <3>1, AfterProofFacts DEF IInv, WorkerInv,
           Location, BatchRound, Becomes, Record, ProofCheck
      <3>2. CASE Becomes("proofSend", w.path, w.rec, w.try, w.after)
        BY <1>14, <1>0, <3>2, AfterProofFacts DEF IInv, WorkerInv,
           Location, BatchRound, Becomes, Record, ProofCheck
      <3>3. QED
        BY <2>1, <3>1, <3>2
    <2>4. (ProofMarkSound /\ ResultMarkSound /\ SignatureSound /\ BatchResumable)'
      BY <1>14, <1>0 DEF IInv, WorkerInv, Location, BatchRound,
         ProofMarkSound, ResultMarkSound, SignatureSound, BatchResumable,
         ProofCheck
    <2>5. QED
      BY <2>2, <2>3, <2>4 DEF IInv
  <1>15. CASE ProofSend
    <2>0. \/ w' = [w EXCEPT !.pc = "proofPut"] /\ proofTx' = proofTx \cup {w.chall}
          \/ w' = [w EXCEPT !.try = w.try + 1] /\ w.try < SubmitTries
          \/ w' = [w EXCEPT !.pc = AfterProof, !.try = 1]
      BY <1>15 DEF ProofSend, Goto, Retry, Proceed, ProofInBlock
    <2>1. \/ Becomes("proofPut", w.path, w.rec, w.try, w.after)
               /\ proofTx' = proofTx \cup {w.chall}
          \/ Becomes(w.pc, w.path, w.rec, w.try + 1, w.after) /\ w.try < SubmitTries
          \/ Becomes(AfterProof, w.path, w.rec, 1, w.after)
      <3>1. w' = [w EXCEPT !.pc = "proofPut"]
            => Becomes("proofPut", w.path, w.rec, w.try, w.after)
        BY <1>15, <1>0, AfterProofFacts DEF IInv, WorkerInv, Worker,
           Record, PcState, Becomes, ProofSend
      <3>2. w' = [w EXCEPT !.try = w.try + 1] /\ w.try < SubmitTries
            => Becomes(w.pc, w.path, w.rec, w.try + 1, w.after)
                 /\ w.try < SubmitTries
        BY <1>15, <1>0, AfterProofFacts DEF IInv, WorkerInv, Worker,
           Record, PcState, Becomes, ProofSend
      <3>3. w' = [w EXCEPT !.pc = AfterProof, !.try = 1]
            => Becomes(AfterProof, w.path, w.rec, 1, w.after)
        BY <1>0, AfterProofFacts, RetryFacts DEF PcState
      <3>4. QED
        BY <2>0, <3>1, <3>2, <3>3
    <2>2. TypeOK'
      BY <1>15, <2>1, AfterProofFacts DEF IInv, TypeOK, WorkerInv, Worker,
         Becomes, Record, ProofSend, Goto, Retry, Proceed, ProofInBlock
    <2>3. WorkerInv'
      <3>1. CASE Becomes("proofPut", w.path, w.rec, w.try, w.after)
                   /\ proofTx' = proofTx \cup {w.chall}
        BY <1>15, <1>0, <3>1, AfterProofFacts DEF IInv, WorkerInv,
           Location, BatchRound, Becomes, Record, ProofSend, ProofInBlock
      <3>2. CASE Becomes(w.pc, w.path, w.rec, w.try + 1, w.after)
                   /\ w.try < SubmitTries
        BY <1>15, <1>0, <3>2, AfterProofFacts DEF IInv, WorkerInv,
           Location, BatchRound, Becomes, Record, ProofSend, ProofInBlock
      <3>3. CASE Becomes(AfterProof, w.path, w.rec, 1, w.after)
        BY <1>15, <1>0, <3>3, AfterProofFacts DEF IInv, WorkerInv,
           Location, BatchRound, Becomes, Record, ProofSend, ProofInBlock
      <3>4. QED
        BY <2>1, <3>1, <3>2, <3>3
    <2>4. (ProofMarkSound /\ ResultMarkSound /\ SignatureSound /\ BatchResumable)'
      BY <1>15, <1>0 DEF IInv, WorkerInv, Location, BatchRound,
         ProofMarkSound, ResultMarkSound, SignatureSound, BatchResumable,
         ProofSend, ProofInBlock
    <2>5. QED
      BY <2>2, <2>3, <2>4 DEF IInv
  <1>16. CASE ProofPut
    <2>1. Becomes("truncate", w.path, w.rec, 1, AfterProof)
      BY <1>16, <1>0, AfterProofFacts DEF IInv, WorkerInv, Worker, Record,
         PcState, Becomes, ProofPut, SaveThen
    <2>2. TypeOK'
      BY <1>16, <2>1, AfterProofFacts DEF IInv, TypeOK, WorkerInv, Worker,
         Becomes, Record, ProofPut, SaveThen
    <2>3. WorkerInv'
      BY <1>16, <1>0, <2>1, AfterProofFacts DEF IInv, WorkerInv, Location,
         BatchRound, Becomes, Record, ProofPut
    <2>4. (ProofMarkSound /\ ResultMarkSound /\ SignatureSound /\ BatchResumable)'
      BY <1>16, <1>0 DEF IInv, WorkerInv, Location, BatchRound,
         ProofMarkSound, ResultMarkSound, SignatureSound, BatchResumable,
         ProofPut
    <2>5. QED
      BY <2>2, <2>3, <2>4 DEF IInv
  <1>17. CASE EmptyExpired
    <2>1. w' = Idle
      BY <1>17, <1>0 DEF IInv, WorkerInv, Worker, Record, PcState, Becomes,
         EmptyExpired, Return
    <2>2. TypeOK'
      BY <1>17, <2>1, IdleFacts DEF IInv, TypeOK, WorkerInv, Worker,
         Becomes, Record, EmptyExpired, Return
    <2>3. WorkerInv'
      BY <1>17, <1>0, <2>1 DEF WorkerInv, Location, BatchRound, Idle,
         NoRecord
    <2>4. (ProofMarkSound /\ ResultMarkSound /\ SignatureSound /\ BatchResumable)'
      BY <1>17, <1>0 DEF IInv, WorkerInv, Location, BatchRound,
         ProofMarkSound, ResultMarkSound, SignatureSound, BatchResumable,
         EmptyExpired
    <2>5. QED
      BY <2>2, <2>3, <2>4 DEF IInv
  <1>18. CASE EmptyRetry
    <2>0. \/ w' = [w EXCEPT !.pc = "retryAnswer"]
          \/ w' = w
      BY <1>18 DEF EmptyRetry, Goto
    <2>1. \/ Becomes("retryAnswer", w.path, w.rec, w.try, w.after)
          \/ w' = w
      <3>1. w' = [w EXCEPT !.pc = "retryAnswer"]
            => Becomes("retryAnswer", w.path, w.rec, w.try, w.after)
        BY <1>18, <1>0 DEF IInv, WorkerInv, Worker, Record, PcState,
           Becomes, EmptyRetry
      <3> QED
        BY <2>0, <3>1
    <2>2. TypeOK'
      BY <1>18, <2>1, SignedFacts DEF IInv, TypeOK, WorkerInv, Worker,
         Becomes, Record, PcState, EmptyRetry, SaveThen, Goto
    <2>3. WorkerInv'
      <3>1. CASE Becomes("retryAnswer", w.path, w.rec, w.try, w.after)
        BY <1>18, <1>0, <3>1, SignedFacts DEF IInv, WorkerInv, Location,
           BatchRound, Becomes, Record, EmptyRetry
      <3>2. CASE w' = w
        BY <1>18, <1>0, <3>2, SignedFacts DEF IInv, WorkerInv, Location,
           BatchRound, Becomes, Record, EmptyRetry
      <3> QED
        BY <2>1, <3>1, <3>2
    <2>4. (ProofMarkSound /\ ResultMarkSound /\ SignatureSound /\ BatchResumable)'
      BY <1>18, <1>0 DEF IInv, WorkerInv, Location, BatchRound,
         ProofMarkSound, ResultMarkSound, SignatureSound, BatchResumable,
         EmptyRetry
    <2>5. QED
      BY <2>2, <2>3, <2>4 DEF IInv
  <1>19. CASE RetryAnswer
    <2>0. \/ w' = [w EXCEPT !.pc = "verifyKey", !.rec = Signed]
          \/ w' = [w EXCEPT !.pc = "emptyRetry"]
      BY <1>19 DEF RetryAnswer, Goto
    <2>1. \/ Becomes("verifyKey", w.path, Signed, w.try, w.after)
          \/ Becomes("emptyRetry", w.path, w.rec, w.try, w.after)
      <3>1. w' = [w EXCEPT !.pc = "verifyKey", !.rec = Signed]
            => Becomes("verifyKey", w.path, Signed, w.try, w.after)
        BY <1>19, <1>0, SignedFacts, RecFacts DEF IInv, WorkerInv, Location, PcState, RetryAnswer
      <3>2. w' = [w EXCEPT !.pc = "emptyRetry"]
            => Becomes("emptyRetry", w.path, w.rec, w.try, w.after)
        BY <1>19, <1>0 DEF IInv, WorkerInv, Worker, Record, PcState,
           Becomes, RetryAnswer
      <3> QED
        BY <2>0, <3>1, <3>2
    <2>2. TypeOK'
      BY <1>19, <2>1, SignedFacts DEF IInv, TypeOK, WorkerInv, Worker,
         Becomes, Record, PcState, RetryAnswer, SaveThen, Goto
    <2>3. WorkerInv'
      <3>1. CASE Becomes("verifyKey", w.path, Signed, w.try, w.after)
        BY <1>19, <1>0, <3>1, SignedFacts DEF IInv, WorkerInv, Location,
           BatchRound, Becomes, Record, RetryAnswer
      <3>2. CASE Becomes("emptyRetry", w.path, w.rec, w.try, w.after)
        BY <1>19, <1>0, <3>2, SignedFacts DEF IInv, WorkerInv, Location,
           BatchRound, Becomes, Record, RetryAnswer
      <3> QED
        BY <2>1, <3>1, <3>2
    <2>4. (ProofMarkSound /\ ResultMarkSound /\ SignatureSound /\ BatchResumable)'
      BY <1>19, <1>0 DEF IInv, WorkerInv, Location, BatchRound,
         ProofMarkSound, ResultMarkSound, SignatureSound, BatchResumable,
         RetryAnswer
    <2>5. QED
      BY <2>2, <2>3, <2>4 DEF IInv
  <1>20. CASE VerifyKey
    <2>0. \/ w' = Idle
          \/ w' = [w EXCEPT !.pc = "singleVerify"] /\ w.path = "single"
          \/ w' = [w EXCEPT !.pc = "resultCheck"]
               /\ w.path # "single" /\ w.chall \in keyProof
      BY <1>20 DEF VerifyKey, Goto, Return
    <2>1. \/ w' = Idle
          \/ Becomes("singleVerify", w.path, w.rec, w.try, w.after)
               /\ w.path = "single"
          \/ Becomes("resultCheck", w.path, w.rec, w.try, w.after)
               /\ w.path # "single" /\ w.chall \in keyProof
      <3>2. w' = [w EXCEPT !.pc = "singleVerify"]
            => Becomes("singleVerify", w.path, w.rec, w.try, w.after)
        BY <1>20, <1>0 DEF IInv, WorkerInv, Worker, Record, PcState,
           Becomes, VerifyKey
      <3>3. w' = [w EXCEPT !.pc = "resultCheck"]
            => Becomes("resultCheck", w.path, w.rec, w.try, w.after)
        BY <1>20, <1>0 DEF IInv, WorkerInv, Worker, Record, PcState,
           Becomes, VerifyKey
      <3>4. QED
        BY <2>0, <3>2, <3>3
    <2>2. TypeOK'
      BY <1>20, <2>1, IdleFacts DEF IInv, TypeOK, WorkerInv, Worker,
         Becomes, Record, VerifyKey, Goto, Return
    <2>3. WorkerInv'
      <3>1. CASE w' = Idle
        BY <1>0, <3>1 DEF WorkerInv, Location, BatchRound, Idle, NoRecord
      <3>2. CASE Becomes("singleVerify", w.path, w.rec, w.try, w.after)
                   /\ w.path = "single"
        BY <1>20, <1>0, <3>2 DEF IInv, WorkerInv, Location, BatchRound,
           ProofMarkSound, Becomes, Record, VerifyKey
      <3>3. CASE Becomes("resultCheck", w.path, w.rec, w.try, w.after)
                   /\ w.path # "single" /\ w.chall \in keyProof
        BY <1>20, <1>0, <3>3 DEF IInv, WorkerInv, Location, BatchRound,
           ProofMarkSound, Becomes, Record, VerifyKey
      <3>4. QED
        BY <2>1, <3>1, <3>2, <3>3
    <2>4. (ProofMarkSound /\ ResultMarkSound /\ SignatureSound /\ BatchResumable)'
      BY <1>20, <1>0 DEF IInv, WorkerInv, Location, BatchRound,
         ProofMarkSound, ResultMarkSound, SignatureSound, BatchResumable,
         VerifyKey
    <2>5. QED
      BY <2>2, <2>3, <2>4 DEF IInv
  <1>21. CASE SingleExpired
    <2>1. w' = Idle
      BY <1>21, <1>0 DEF IInv, WorkerInv, Worker, Record, PcState, Becomes,
         SingleExpired, Return
    <2>2. TypeOK'
      BY <1>21, <2>1, IdleFacts DEF IInv, TypeOK, WorkerInv, Worker,
         Becomes, Record, SingleExpired, Return
    <2>3. WorkerInv'
      BY <1>21, <1>0, <2>1 DEF WorkerInv, Location, BatchRound, Idle,
         NoRecord
    <2>4. (ProofMarkSound /\ ResultMarkSound /\ SignatureSound /\ BatchResumable)'
      BY <1>21, <1>0 DEF IInv, WorkerInv, Location, BatchRound,
         ProofMarkSound, ResultMarkSound, SignatureSound, BatchResumable,
         SingleExpired
    <2>5. QED
      BY <2>2, <2>3, <2>4 DEF IInv
  <1>22. CASE SingleVerify
    <2>1. w' = w
      BY <1>22, <1>0 DEF IInv, WorkerInv, Worker, Record, PcState, Becomes,
         SingleVerify
    <2>2. TypeOK'
      BY <1>22, <2>1 DEF IInv, TypeOK, WorkerInv, Worker, Becomes, Record,
         SingleVerify
    <2>3. WorkerInv'
      BY <1>22, <1>0, <2>1 DEF IInv, WorkerInv, Location, BatchRound,
         Becomes, Record, SingleVerify
    <2>4. (ProofMarkSound /\ ResultMarkSound /\ SignatureSound /\ BatchResumable)'
      BY <1>22, <1>0 DEF IInv, WorkerInv, Location, BatchRound,
         ProofMarkSound, ResultMarkSound, SignatureSound, BatchResumable,
         SingleVerify
    <2>5. QED
      BY <2>2, <2>3, <2>4 DEF IInv
  <1>23. CASE ResultKey
    <2>0. \/ w' = Idle
          \/ w' = [w EXCEPT !.pc = "resultCheck"] /\ w.rec.sig # None
      BY <1>23 DEF ResultKey, Goto, Return
    <2>1. \/ w' = Idle
          \/ Becomes("resultCheck", w.path, w.rec, w.try, w.after)
               /\ w.rec.sig # None
      <3>2. w' = [w EXCEPT !.pc = "resultCheck"]
            => Becomes("resultCheck", w.path, w.rec, w.try, w.after)
        BY <1>23, <1>0 DEF IInv, WorkerInv, Worker, Record, PcState,
           Becomes, ResultKey
      <3>3. QED
        BY <2>0, <3>2
    <2>2. TypeOK'
      BY <1>23, <2>1, IdleFacts DEF IInv, TypeOK, WorkerInv, Worker,
         Becomes, Record, ResultKey, Goto, Return
    <2>3. WorkerInv'
      <3>1. CASE w' = Idle
        BY <1>0, <3>1 DEF WorkerInv, Location, BatchRound, Idle, NoRecord
      <3>2. CASE Becomes("resultCheck", w.path, w.rec, w.try, w.after)
                   /\ w.rec.sig # None
        BY <1>23, <1>0, <3>2 DEF IInv, WorkerInv, Location, BatchRound,
           Becomes, Record, ResultKey
      <3>3. QED
        BY <2>1, <3>1, <3>2
    <2>4. (ProofMarkSound /\ ResultMarkSound /\ SignatureSound /\ BatchResumable)'
      BY <1>23, <1>0 DEF IInv, WorkerInv, Location, BatchRound,
         ProofMarkSound, ResultMarkSound, SignatureSound, BatchResumable,
         ResultKey
    <2>5. QED
      BY <2>2, <2>3, <2>4 DEF IInv
  <1>24. CASE ResultCheck
    <2>0. \/ w' = Idle
          \/ w' = [w EXCEPT !.pc = "resultSend"]
      BY <1>24 DEF ResultCheck, Goto, Return
    <2>1. \/ w' = Idle
          \/ Becomes("resultSend", w.path, w.rec, w.try, w.after)
      <3>2. w' = [w EXCEPT !.pc = "resultSend"]
            => Becomes("resultSend", w.path, w.rec, w.try, w.after)
        BY <1>24, <1>0 DEF IInv, WorkerInv, Worker, Record, PcState,
           Becomes, ResultCheck
      <3>3. QED
        BY <2>0, <3>2
    <2>2. TypeOK'
      BY <1>24, <2>1, IdleFacts DEF IInv, TypeOK, WorkerInv, Worker,
         Becomes, Record, ResultCheck, Goto, Return
    <2>3. WorkerInv'
      <3>1. CASE w' = Idle
        BY <1>0, <3>1 DEF WorkerInv, Location, BatchRound, Idle, NoRecord
      <3>2. CASE Becomes("resultSend", w.path, w.rec, w.try, w.after)
        BY <1>24, <1>0, <3>2 DEF IInv, WorkerInv, Location, BatchRound,
           Becomes, Record, ResultCheck
      <3>3. QED
        BY <2>1, <3>1, <3>2
    <2>4. (ProofMarkSound /\ ResultMarkSound /\ SignatureSound /\ BatchResumable)'
      BY <1>24, <1>0 DEF IInv, WorkerInv, Location, BatchRound,
         ProofMarkSound, ResultMarkSound, SignatureSound, BatchResumable,
         ResultCheck
    <2>5. QED
      BY <2>2, <2>3, <2>4 DEF IInv
  <1>25. CASE ResultSend
    <2>0. \/ w' = Idle
          \/ w' = [w EXCEPT !.pc = "resultPut"]
               /\ resultTx' = resultTx \cup {w.rec.sig}
          \/ w' = [w EXCEPT !.try = w.try + 1] /\ w.try < SubmitTries
      BY <1>25 DEF ResultSend, Goto, Retry, Return, ResultInBlock
    <2>1. \/ w' = Idle
          \/ Becomes("resultPut", w.path, w.rec, w.try, w.after)
               /\ resultTx' = resultTx \cup {w.rec.sig}
          \/ Becomes(w.pc, w.path, w.rec, w.try + 1, w.after) /\ w.try < SubmitTries
      <3>2. w' = [w EXCEPT !.pc = "resultPut"]
            => Becomes("resultPut", w.path, w.rec, w.try, w.after)
        BY <1>25, <1>0 DEF IInv, WorkerInv, Worker, Record, PcState,
           Becomes, ResultSend
      <3>3. w' = [w EXCEPT !.try = w.try + 1] /\ w.try < SubmitTries
            => Becomes(w.pc, w.path, w.rec, w.try + 1, w.after)
                 /\ w.try < SubmitTries
        BY <1>25, <1>0 DEF IInv, WorkerInv, Worker, Record, PcState,
           Becomes, ResultSend
      <3>4. QED
        BY <2>0, <3>2, <3>3
    <2>2. TypeOK'
      BY <1>25, <2>1, IdleFacts DEF IInv, TypeOK, WorkerInv, Location,
         Worker, Becomes, Record, ResultSend, Goto, Retry, Return,
         ResultInBlock
    <2>3. WorkerInv'
      <3>1. CASE w' = Idle
        BY <1>0, <3>1 DEF WorkerInv, Location, BatchRound, Idle, NoRecord
      <3>2. CASE Becomes("resultPut", w.path, w.rec, w.try, w.after)
                   /\ resultTx' = resultTx \cup {w.rec.sig}
        BY <1>25, <1>0, <3>2 DEF IInv, WorkerInv, Location, BatchRound,
           Becomes, Record, ResultSend, ResultInBlock
      <3>3. CASE Becomes(w.pc, w.path, w.rec, w.try + 1, w.after)
                   /\ w.try < SubmitTries
        BY <1>25, <1>0, <3>3 DEF IInv, WorkerInv, Location, BatchRound,
           Becomes, Record, ResultSend, ResultInBlock
      <3>4. QED
        BY <2>1, <3>1, <3>2, <3>3
    <2>4. (ProofMarkSound /\ ResultMarkSound /\ SignatureSound /\ BatchResumable)'
      BY <1>25, <1>0 DEF IInv, WorkerInv, Location, BatchRound,
         ProofMarkSound, ResultMarkSound, SignatureSound, BatchResumable,
         ResultSend, ResultInBlock
    <2>5. QED
      BY <2>2, <2>3, <2>4 DEF IInv
  <1>26. CASE ResultPut
    <2>1. Becomes("truncate", w.path, w.rec, 1, "off")
      BY <1>26, <1>0 DEF IInv, WorkerInv, Worker, Record, PcState, Becomes,
         ResultPut, SaveThen
    <2>2. TypeOK'
      BY <1>26, <2>1 DEF IInv, TypeOK, WorkerInv, Worker, Becomes, Record,
         ResultPut, SaveThen
    <2>3. WorkerInv'
      BY <1>26, <1>0, <2>1 DEF IInv, WorkerInv, Location, BatchRound,
         Becomes, Record, ResultPut
    <2>4. (ProofMarkSound /\ ResultMarkSound /\ SignatureSound /\ BatchResumable)'
      BY <1>26, <1>0 DEF IInv, WorkerInv, Location, BatchRound,
         ProofMarkSound, ResultMarkSound, SignatureSound, BatchResumable,
         ResultPut
    <2>5. QED
      BY <2>2, <2>3, <2>4 DEF IInv
  <1>27. QED
    BY <1>1, <1>2, <1>3, <1>4, <1>5, <1>6, <1>7, <1>8, <1>9, <1>10, <1>11,
       <1>12, <1>13, <1>14, <1>15, <1>16, <1>17, <1>18, <1>19, <1>20, <1>21, <1>22,
       <1>23, <1>24, <1>25, <1>26 DEF WorkerStep

\* IInv, and with it every safety property of the worker, always holds.
LEMMA Invariant == Spec => []IInv
  <1>1. IInv /\ [Next]_vars => IInv'
    BY OutsideInv, CrashInv, WorkerStepInv DEF Next
  <1>2. QED
    BY <1>1, InitInv, PTL DEF Spec

\* Type correctness of the model; the attempts stay within SubmitTries.
THEOREM TypeCorrect == Spec => []TypeOK
  <1>1. IInv => TypeOK
    BY DEF IInv
  <1>2. QED
    BY <1>1, Invariant, PTL

\* A proof mark always has an extrinsic with the proof in a block behind it.
THEOREM ProofMarksAreSound == Spec => []ProofMarkSound
  <1>1. IInv => ProofMarkSound
    BY DEF IInv
  <1>2. QED
    BY <1>1, Invariant, PTL

\* A result mark always has an extrinsic with a result signed for its round in a
\* block behind it.
THEOREM ResultMarksAreSound == Spec => []ResultMarkSound
  <1>1. IInv => ResultMarkSound
    BY DEF IInv
  <1>2. QED
    BY <1>1, Invariant, PTL

\* The signature in the record file is the record's own.
THEOREM SignaturesAreSound == Spec => []SignatureSound
  <1>1. IInv => SignatureSound
    BY DEF IInv
  <1>2. QED
    BY <1>1, Invariant, PTL

\* A batch round's record on disk always carries its signature.
THEOREM BatchesAreResumable == Spec => []BatchResumable
  <1>1. IInv => BatchResumable
    BY DEF IInv
  <1>2. QED
    BY <1>1, Invariant, PTL

\* Only a resumed worker can submit a result without its proof in a block.
THEOREM ResultsFollowProofs == Spec => []ResultFollowsProof
  <1>1. IInv => ResultFollowsProof
    BY DEF IInv, WorkerInv, Location, ResultFollowsProof
  <1>2. QED
    BY <1>1, Invariant, PTL
-----------------------------------------------------------------------------
(***************************************************************************)
(* BatchVerify, the loop behind the worker's Batch step, for every number  *)
(* of fragments and every maxNumberOfSingleVerification: TLC checks small  *)
(* numbers, the code's is 5000.                                            *)
(***************************************************************************)

\* A number that is no multiple of b is one further from the last multiple than the
\* number before it.
LEMMA ModStep ==
  ASSUME NEW m \in Nat \ {0}, NEW b \in Nat \ {0}, m % b # 0
  PROVE  m % b = ((m - 1) % b) + 1
<1> DEFINE j == m \div b  k == (m - 1) \div b
<1>1. /\ j \in Int /\ m = b * j + (m % b) /\ m % b \in 1..(b - 1)
  OBVIOUS
<1>2. /\ k \in Int /\ m - 1 = b * k + ((m - 1) % b) /\ (m - 1) % b \in 0..(b - 1)
  OBVIOUS
<1> HIDE DEF j, k
<1>3. ~(j >= k + 1)
  <2> SUFFICES ASSUME j >= k + 1 PROVE FALSE
    OBVIOUS
  <2>1. b * j >= b * (k + 1)
    BY <1>1, <1>2
  <2>2. b * (k + 1) = b * k + b
    BY <1>2
  <2> QED  BY <1>1, <1>2, <2>1, <2>2
<1>4. ~(k >= j + 1)
  <2> SUFFICES ASSUME k >= j + 1 PROVE FALSE
    OBVIOUS
  <2>1. b * k >= b * (j + 1)
    BY <1>1, <1>2
  <2>2. b * (j + 1) = b * j + b
    BY <1>1
  <2> QED  BY <1>1, <1>2, <2>1, <2>2
<1>5. j = k
  BY <1>1, <1>2, <1>3, <1>4
<1> QED  BY <1>1, <1>2, <1>5

\* A batch has at least one fragment and at most maxNumberOfSingleVerification.
LEMMA BatchRange ==
  ASSUME NEW n \in Nat, n > MaxSingle
  PROVE  calcBatchQuantity(n) \in 1..MaxSingle
<1>1. MaxSingle \in Nat /\ MaxSingle >= 1
  BY BatchAssumption
<1> DEFINE q == n \div MaxSingle  d == q + 1  k == n \div d
<1>2. q \in Nat /\ n < MaxSingle * q + MaxSingle
  BY <1>1
<1>3. MaxSingle * d = MaxSingle * q + MaxSingle
  BY <1>1, <1>2
<1>4. d \in Nat /\ d >= 1
  BY <1>2
<1> HIDE DEF q, d
<1>5. k \in Nat /\ n >= d * k
  BY <1>4
<1> HIDE DEF k
<1>6. k < MaxSingle
  <2> SUFFICES ASSUME k >= MaxSingle PROVE FALSE
    BY <1>1, <1>5
  <2>1. d * k >= d * MaxSingle
    BY <1>1, <1>4, <1>5
  <2>2. d * MaxSingle = MaxSingle * d
    BY <1>1, <1>4
  <2>3. d * k \in Nat /\ MaxSingle * d \in Nat
    BY <1>1, <1>4, <1>5
  <2> QED  BY <1>2, <1>3, <1>5, <2>1, <2>2, <2>3
<1>7. calcBatchQuantity(n) = k + 1
  BY DEF calcBatchQuantity, q, d, k
<1> QED  BY <1>1, <1>5, <1>6, <1>7

LEMMA BatchFacts ==
  ASSUME BatchInv
  PROVE  /\ BatchSize \in 1..MaxSingle /\ MaxSingle \in Nat /\ MaxTotal \in Nat
         /\ total \in Nat /\ total >= 1 /\ total <= MaxTotal /\ index \in Nat /\ index >= 1
         /\ (index - 1) % BatchSize \in 0..(BatchSize - 1)
         /\ index % BatchSize \in 0..(BatchSize - 1)
         /\ (index - 1) % BatchSize <= index - 1
<1>1. /\ MaxSingle \in Nat /\ MaxTotal \in Nat
      /\ total \in Nat /\ total >= 1 /\ total <= MaxTotal /\ index \in Nat /\ index >= 1
      /\ total > MaxSingle
  BY BatchAssumption DEF BatchInv, BatchTypeOK, Fragment
<1>2. BatchSize \in 1..MaxSingle
  BY <1>1, BatchRange DEF BatchSize
<1> HIDE DEF BatchSize
<1>3. (index - 1) % BatchSize \in 0..(BatchSize - 1) /\ index % BatchSize \in 0..(BatchSize - 1)
  BY <1>1, <1>2
<1>4. (index - 1) % BatchSize <= index - 1
  <2> DEFINE i == index - 1
  <2>1. i \in Nat /\ BatchSize \in Nat /\ BatchSize >= 1
    BY <1>1, <1>2
  <2> HIDE DEF i
  <2>2. i \div BatchSize \in Nat /\ i = BatchSize * (i \div BatchSize) + (i % BatchSize)
    BY <2>1
  <2>3. BatchSize * (i \div BatchSize) \in Nat
    BY <2>1, <2>2
  <2>4. i % BatchSize \in Nat
    BY <2>1
  <2>5. i % BatchSize <= i
    BY <2>1, <2>2, <2>3, <2>4
  <2> QED  BY <2>5 DEF i
<1> QED  BY <1>1, <1>2, <1>3, <1>4
-----------------------------------------------------------------------------
\* A full batch stays within the bound, whatever was collected before.
LEMMA Bounded ==
  ASSUME BatchInv, pc = "prove", index <= total
  PROVE  Cardinality(names \cup {index}) <= MaxSingle
<1>1. /\ names = (LastAnswered + 1)..LastProved
      /\ LastAnswered = (index - 1) - ((index - 1) % BatchSize) /\ LastProved = index - 1
  BY DEF BatchInv, LoopInv, LastAnswered, LastProved
<1> DEFINE a == (index - 1) - ((index - 1) % BatchSize)
<1>2. a \in Nat /\ a <= index - 1 /\ index - a <= BatchSize /\ index \in Nat /\ BatchSize \in Nat
      /\ BatchSize <= MaxSingle /\ MaxSingle \in Nat
  BY BatchFacts
<1>3. names = (a + 1)..(index - 1)
  BY <1>1
<1> HIDE DEF a
<1>4. names \cup {index} = (a + 1)..index
  BY <1>2, <1>3
<1>5. Cardinality((a + 1)..index) = index - a
  BY <1>2, FS_Interval
<1>6. Cardinality(names \cup {index}) = index - a
  BY <1>4, <1>5
<1> QED  BY <1>2, <1>6

LEMMA ProveStep == ASSUME BatchInv, Prove PROVE BatchInv'
<1>1. /\ pc = "prove" /\ index <= total
      /\ names' = names \cup {index} /\ sigma' = sigma \cup {index}
      /\ onChain' = onChain \cup {index}
      /\ UNCHANGED <<total, history, usedTee, orders>>
  BY DEF Prove
<1>2. BatchSize' = BatchSize
  BY <1>1 DEF BatchSize
<1>3. \/ index % BatchSize = 0 /\ pc' = "request" /\ index' = index
      \/ index % BatchSize # 0 /\ pc' = "prove" /\ index' = index + 1
  BY <1>1 DEF Prove, BatchSize
<1>4. BatchTypeOK'
  <2>1. index \in Fragment /\ index' \in 1..(MaxTotal + 1)
    BY <1>1, <1>3, BatchFacts DEF Fragment
  <2> QED  BY <1>1, <1>3, <2>1 DEF BatchInv, BatchTypeOK
<1>5. BatchBound'
  BY <1>1, Bounded DEF BatchInv, BatchBound
<1>6. BatchProofsMatch' /\ TeeInv'
  BY <1>1 DEF BatchInv, BatchProofsMatch, TeeInv
<1>7. LoopInv'
  <2> DEFINE a == (index - 1) - ((index - 1) % BatchSize)
  <2>1. a \in Nat /\ a <= index - 1 /\ index \in Nat /\ index >= 1 /\ total \in Nat
    BY BatchFacts
  <2>2. LastAnswered = a /\ LastProved = index - 1
    BY <1>1 DEF LastAnswered, LastProved
  <2>3. LastProved' = index
    BY <1>1, <1>3, <2>1 DEF LastProved
  <2>4. LastAnswered' = a
    <3>1. CASE index' = index /\ pc' = "request"
      BY <1>2, <3>1 DEF LastAnswered
    <3>2. CASE index % BatchSize # 0 /\ index' = index + 1 /\ pc' = "prove"
      <4>1. LastAnswered' = index - (index % BatchSize)
        BY <1>2, <2>1, <3>2 DEF LastAnswered
      <4>2. BatchSize \in Nat \ {0} /\ index \in Nat \ {0}
        BY BatchFacts
      <4>3. index % BatchSize = ((index - 1) % BatchSize) + 1
        BY <3>2, <4>2, ModStep
      <4> HIDE DEF BatchSize
      <4>4. (index - 1) % BatchSize \in Int
        BY <4>2
      <4> QED  BY <2>1, <4>1, <4>3, <4>4
    <3> QED  BY <1>3, <3>1, <3>2
  <2>5. names = (a + 1)..(index - 1) /\ onChain = 1..(index - 1)
    BY <1>1, <2>2 DEF BatchInv, LoopInv
  <2>6. Answered' = 1..a /\ Stacked' = 1..a
    BY <1>1, <2>2 DEF BatchInv, LoopInv, Answered, Stacked
  <2> HIDE DEF a
  <2>7. names' = (a + 1)..index /\ onChain' = 1..index
    BY <1>1, <2>1, <2>5
  <2>8. index' <= total' + 1 /\ (pc' = "request" => index' % BatchSize' = 0)
    BY <1>1, <1>2, <1>3, <2>1
  <2>9. pc' \notin {"aggregate", "done"}
    BY <1>3
  <2> QED  BY <2>3, <2>4, <2>6, <2>7, <2>8, <2>9 DEF LoopInv
<1>8. total' > MaxSingle
  BY <1>1 DEF BatchInv
<1> QED  BY <1>4, <1>5, <1>6, <1>7, <1>8 DEF BatchInv

\* The steps that end the function early.
LEMMA FailStep == ASSUME BatchInv, ProveFails \/ RequestFails PROVE BatchInv'
<1>1. /\ pc' = "failed"
      /\ UNCHANGED <<total, index, names, sigma, onChain, history, usedTee>>
  BY DEF ProveFails, RequestFails
<1>2. orders' \subseteq Fragment
  <2>1. orders' = orders \/ (index <= total /\ orders' = orders \cup {index})
    BY DEF ProveFails, RequestFails
  <2>2. index <= total => index \in Fragment
    BY BatchFacts DEF Fragment
  <2> QED  BY <2>1, <2>2 DEF BatchInv, BatchTypeOK
<1>3. BatchTypeOK'
  BY <1>1, <1>2 DEF BatchInv, BatchTypeOK
<1>4. BatchBound' /\ BatchProofsMatch' /\ TeeInv' /\ total' > MaxSingle
  BY <1>1 DEF BatchInv, BatchBound, BatchProofsMatch, TeeInv
<1> QED  BY <1>1, <1>3, <1>4 DEF BatchInv

\* Steps after which the batches and the position are the same.
LEMMA OnlyPc ==
  ASSUME BatchInv, UNCHANGED <<total, index, names, sigma, onChain, history, usedTee, orders>>,
         pc' \in {"prove", "request", "aggregate", "done", "failed"}
  PROVE  /\ BatchTypeOK' /\ BatchBound' /\ BatchProofsMatch' /\ TeeInv' /\ total' > MaxSingle
         /\ BatchSize' = BatchSize /\ Answered' = Answered /\ Stacked' = Stacked
<1>1. BatchTypeOK'
  BY DEF BatchInv, BatchTypeOK
<1>2. BatchBound' /\ BatchProofsMatch' /\ TeeInv' /\ total' > MaxSingle
  BY DEF BatchInv, BatchBound, BatchProofsMatch, TeeInv
<1>3. BatchSize' = BatchSize /\ Answered' = Answered /\ Stacked' = Stacked
  BY DEF BatchSize, Answered, Stacked
<1> QED  BY <1>1, <1>2, <1>3

LEMMA LoopEndsStep == ASSUME BatchInv, LoopEnds PROVE BatchInv'
<1>1. /\ pc = "prove" /\ index > total /\ pc' = (IF names # {} THEN "request" ELSE "aggregate")
      /\ UNCHANGED <<total, index, names, sigma, onChain, history, usedTee, orders>>
  BY DEF LoopEnds
<1>2. /\ BatchTypeOK' /\ BatchBound' /\ BatchProofsMatch' /\ TeeInv' /\ total' > MaxSingle
      /\ BatchSize' = BatchSize /\ Answered' = Answered /\ Stacked' = Stacked
  BY <1>1, OnlyPc
<1> DEFINE a == (index - 1) - ((index - 1) % BatchSize)
<1>3. a \in Nat /\ a <= index - 1 /\ index \in Nat /\ total \in Nat /\ index = total + 1
  <2>1. index <= total + 1
    BY <1>1 DEF BatchInv, LoopInv
  <2> QED  BY <1>1, <2>1, BatchFacts
<1>4. LastAnswered = a /\ LastProved = index - 1
  BY <1>1 DEF LastAnswered, LastProved
<1>5. LastProved' = index - 1
  BY <1>1, <1>3 DEF LastProved
<1>6. LastAnswered' = a
  <2>1. CASE pc' = "request"
    BY <1>1, <1>2, <2>1 DEF LastAnswered
  <2>2. CASE pc' = "aggregate"
    <3>1. (a + 1)..(index - 1) = {}
      BY <1>1, <1>4, <2>2 DEF BatchInv, LoopInv
    <3>2. LastAnswered' = total
      BY <1>1, <2>2 DEF LastAnswered
    <3> HIDE DEF a
    <3>3. a >= index - 1
      BY <1>3, <3>1
    <3> QED  BY <1>3, <3>2, <3>3
  <2> QED  BY <1>1, <2>1, <2>2
<1>7. LoopInv'
  BY <1>1, <1>2, <1>3, <1>4, <1>5, <1>6 DEF BatchInv, LoopInv
<1> QED  BY <1>2, <1>7 DEF BatchInv

LEMMA AggregateStep == ASSUME BatchInv, Aggregate PROVE BatchInv'
<1>1. /\ pc = "aggregate" /\ pc' = "done"
      /\ UNCHANGED <<total, index, names, sigma, onChain, history, usedTee, orders>>
  BY DEF Aggregate
<1>2. /\ BatchTypeOK' /\ BatchBound' /\ BatchProofsMatch' /\ TeeInv' /\ total' > MaxSingle
      /\ Answered' = Answered /\ Stacked' = Stacked
  BY <1>1, OnlyPc
<1>3. LastProved' = LastProved /\ LastAnswered' = LastAnswered
  BY <1>1 DEF LastProved, LastAnswered
<1>4. LoopInv'
  BY <1>1, <1>2, <1>3 DEF BatchInv, LoopInv
<1> QED  BY <1>2, <1>4 DEF BatchInv

\* An answered batch joins the history; the next one starts after it.
LEMMA AnswerStep == ASSUME BatchInv, NEW t \in Tee, Answer(t) PROVE BatchInv'
<1> DEFINE v == [names |-> names, sigma |-> sigma, bloom |-> Stacked \cup names, tee |-> t]
<1>1. /\ pc = "request" /\ t \in Tees /\ history' = Append(history, v)
      /\ usedTee' = t /\ names' = {} /\ sigma' = {}
      /\ UNCHANGED <<total, onChain, orders>>
  BY DEF Answer
<1>2. \/ index > total /\ pc' = "aggregate" /\ index' = index
      \/ index <= total /\ pc' = "prove" /\ index' = index + 1
  BY BatchFacts DEF Answer
<1>3. LoopInv
  BY <1>1 DEF BatchInv
<1> DEFINE a == (index - 1) - ((index - 1) % BatchSize)  p == LastProved
<1>4. a \in Nat /\ a <= index - 1 /\ index \in Nat /\ index >= 1 /\ total \in Nat /\ p \in Nat /\ a <= p
      /\ p <= total /\ total <= MaxTotal /\ MaxTotal \in Nat
  <2>1. index <= total + 1
    BY <1>3 DEF LoopInv
  <2>2. a \in Nat /\ a <= index - 1 /\ index \in Nat /\ index >= 1 /\ total \in Nat
        /\ total <= MaxTotal /\ MaxTotal \in Nat
    BY BatchFacts
  <2> HIDE DEF a
  <2>3. p \in Nat /\ a <= p /\ p <= total
    BY <2>1, <2>2 DEF LastProved
  <2> QED  BY <2>2, <2>3
<1>5. LastAnswered = a
  BY <1>1 DEF LastAnswered
<1>6. names = (a + 1)..p /\ Answered = 1..a /\ Stacked = 1..a /\ onChain = 1..p
  BY <1>3, <1>5 DEF LoopInv
<1>7. BatchSize' = BatchSize
  BY <1>1 DEF BatchSize
<1>8. LastProved' = p /\ LastAnswered' = p
  <2>1. CASE index > total /\ pc' = "aggregate" /\ index' = index
    <3>1. index = total + 1
      BY <1>3, <1>4, <2>1 DEF LoopInv
    <3> QED  BY <1>1, <1>4, <2>1, <3>1 DEF LastProved, LastAnswered
  <2>2. CASE index <= total /\ pc' = "prove" /\ index' = index + 1
    <3>1. index % BatchSize = 0
      BY <1>1, <1>3, <1>4, <2>2 DEF LoopInv
    <3>2. LastAnswered' = index - (index % BatchSize)
      BY <1>4, <1>7, <2>2 DEF LastAnswered
    <3> QED  BY <1>1, <1>4, <2>2, <3>1, <3>2 DEF LastProved
  <2> QED  BY <1>2, <2>1, <2>2
<1> HIDE DEF a, p
<1>9. history \in Seq(Verified) /\ Len(history) \in Nat
  BY DEF BatchInv, BatchTypeOK
<1>10. Stacked \subseteq Fragment /\ names \subseteq Fragment /\ sigma \subseteq Fragment
  BY <1>4, <1>6 DEF Fragment, BatchInv, BatchTypeOK
<1>11. v \in Verified
  BY <1>10 DEF Verified
<1>12. v.names = names /\ v.sigma = sigma /\ v.bloom = Stacked \cup names /\ v.tee = t
  OBVIOUS
<1> HIDE DEF v
<1>13. /\ history' \in Seq(Verified) /\ Len(history') = Len(history) + 1
       /\ history'[Len(history')] = v
       /\ \A k \in 1..Len(history) : history'[k] = history[k]
  BY <1>1, <1>9, <1>11
<1>14. BatchTypeOK'
  <2>1. index' \in 1..(MaxTotal + 1) /\ pc' \in {"prove", "request", "aggregate", "done", "failed"}
    BY <1>2, <1>4 DEF BatchInv, BatchTypeOK
  <2> QED  BY <1>1, <1>13, <2>1 DEF BatchInv, BatchTypeOK
<1>15. BatchBound'
  <2>1. Cardinality(names') <= MaxSingle
    BY <1>1, FS_EmptySet, BatchFacts
  <2>2. \A k \in 1..Len(history') : Cardinality(history'[k].names) <= MaxSingle
    BY <1>9, <1>12, <1>13 DEF BatchInv, BatchBound
  <2> QED  BY <2>1, <2>2 DEF BatchBound
<1>16. BatchProofsMatch'
  <2>1. \A k \in 1..Len(history') : history'[k].sigma = history'[k].names
    BY <1>9, <1>12, <1>13 DEF BatchInv, BatchProofsMatch
  <2>2. \A k \in 1..Len(history) : history[k].names \cap names = {}
    <3>1. SUFFICES ASSUME NEW k \in 1..Len(history) PROVE history[k].names \cap names = {}
      OBVIOUS
    <3>2. history[k].names \subseteq Answered
      BY DEF Answered
    <3> QED  BY <1>4, <1>6, <3>2
  <2>3. \A j, k \in 1..Len(history') : j # k => history'[j].names \cap history'[k].names = {}
    <3>1. SUFFICES ASSUME NEW j \in 1..Len(history'), NEW k \in 1..Len(history'), j # k
                   PROVE  history'[j].names \cap history'[k].names = {}
      OBVIOUS
    <3>2. CASE j \in 1..Len(history) /\ k \in 1..Len(history)
      BY <1>13, <3>1, <3>2 DEF BatchInv, BatchProofsMatch
    <3>3. CASE j = Len(history') /\ k \in 1..Len(history)
      BY <1>12, <1>13, <2>2, <3>3
    <3>4. CASE k = Len(history') /\ j \in 1..Len(history)
      BY <1>12, <1>13, <2>2, <3>4
    <3> QED  BY <1>9, <1>13, <3>1, <3>2, <3>3, <3>4
  <2> QED  BY <1>1, <2>1, <2>3 DEF BatchProofsMatch
<1>17. TeeInv'
  <2>1. \A k \in 1..Len(history) : history[k].tee = t
    <3>1. SUFFICES ASSUME NEW k \in 1..Len(history) PROVE history[k].tee = t
      OBVIOUS
    <3>2. history # <<>>
      BY <1>9
    <3> QED  BY <1>1, <3>2 DEF BatchInv, TeeInv, Tees
  <2>2. \A k \in 1..Len(history') : history'[k].tee = t
    BY <1>9, <1>12, <1>13, <2>1
  <2> QED  BY <1>1, <2>2, BatchAssumption DEF TeeInv
<1>18. Answered' = 1..p /\ Stacked' = 1..p
  <2>1. (1..a) \cup ((a + 1)..p) = 1..p
    BY <1>4
  <2>2. Answered' = Answered \cup names
    <3>1. \A x : x \in Answered' <=> \E k \in 1..Len(history') : x \in history'[k].names
      BY DEF Answered
    <3>2. \A x : x \in Answered <=> \E k \in 1..Len(history) : x \in history[k].names
      BY DEF Answered
    <3>3. \A x : x \in Answered' => x \in Answered \/ x \in names
      BY <1>9, <1>12, <1>13, <3>1, <3>2
    <3>4. \A x \in names : x \in Answered'
      BY <1>9, <1>12, <1>13, <3>1
    <3>5. \A x \in Answered : x \in Answered'
      BY <1>9, <1>13, <3>1, <3>2
    <3> QED  BY <3>3, <3>4, <3>5
  <2>3. history' # <<>>
    BY <1>9, <1>13
  <2>4. Stacked' = Stacked \cup names
    BY <1>12, <1>13, <2>3 DEF Stacked
  <2> QED  BY <1>6, <2>1, <2>2, <2>4
<1>19. LoopInv'
  <2>1. (p + 1)..p = {}
    BY <1>4
  <2>2. index' <= total' + 1 /\ pc' # "request" /\ (pc' \in {"aggregate", "done"} => index' = total' + 1)
    BY <1>1, <1>2, <1>3, <1>4 DEF LoopInv
  <2> QED  BY <1>1, <1>6, <1>8, <1>18, <2>1, <2>2 DEF LoopInv
<1> QED  BY <1>1, <1>14, <1>15, <1>16, <1>17, <1>19 DEF BatchInv
-----------------------------------------------------------------------------
LEMMA BatchInitInv == BatchInit => BatchInv
<1> SUFFICES ASSUME BatchInit PROVE BatchInv
  OBVIOUS
<1>1. /\ pc = "prove" /\ total \in Fragment /\ total > MaxSingle /\ index = 1
      /\ names = {} /\ sigma = {} /\ onChain = {} /\ history = <<>> /\ orders = {}
      /\ usedTee = NoTee
  BY DEF BatchInit
<1>2. total \in Nat /\ total >= 1 /\ MaxSingle \in Nat /\ MaxTotal \in Nat
  BY <1>1, BatchAssumption DEF Fragment
<1>3. BatchTypeOK
  BY <1>1, <1>2 DEF BatchTypeOK
<1>4. BatchBound /\ BatchProofsMatch /\ TeeInv
  BY <1>1, <1>2, FS_EmptySet DEF BatchBound, BatchProofsMatch, TeeInv
<1>5. LoopInv
  <2>1. BatchSize \in 1..MaxSingle
    BY <1>1, <1>2, BatchRange DEF BatchSize
  <2>2. 0 % BatchSize = 0
    <3> HIDE DEF BatchSize
    <3> QED  BY <1>2, <2>1
  <2>3. LastAnswered = 0 /\ LastProved = 0
    BY <1>1, <1>2, <2>2 DEF LastAnswered, LastProved
  <2>4. Answered = {} /\ Stacked = {}
    BY <1>1 DEF Answered, Stacked
  <2>5. 1..0 = {}
    OBVIOUS
  <2> QED  BY <1>1, <1>2, <2>3, <2>4, <2>5 DEF LoopInv
<1> QED  BY <1>1, <1>3, <1>4, <1>5 DEF BatchInv

LEMMA BatchNextInv == BatchInv /\ [BatchNext]_batchVars => BatchInv'
<1> SUFFICES ASSUME BatchInv, [BatchNext]_batchVars PROVE BatchInv'
  OBVIOUS
<1>1. CASE UNCHANGED batchVars
  <2>1. UNCHANGED <<pc, total, index, names, sigma, onChain, history, usedTee, orders>>
    BY <1>1 DEF batchVars
  <2>2. /\ BatchTypeOK' /\ BatchBound' /\ BatchProofsMatch' /\ TeeInv' /\ total' > MaxSingle
        /\ BatchSize' = BatchSize /\ Answered' = Answered /\ Stacked' = Stacked
    BY <2>1, OnlyPc DEF BatchInv, BatchTypeOK
  <2>3. LastProved' = LastProved /\ LastAnswered' = LastAnswered
    BY <2>1, <2>2 DEF LastProved, LastAnswered
  <2>4. pc # "failed" => LoopInv'
    BY <2>1, <2>2, <2>3 DEF BatchInv, LoopInv
  <2> QED  BY <2>1, <2>2, <2>4 DEF BatchInv
<1> QED  BY <1>1, ProveStep, FailStep, LoopEndsStep, AggregateStep, AnswerStep DEF BatchNext

LEMMA InvAggregate == ASSUME BatchInv PROVE AggregateComplete
<1> SUFFICES ASSUME pc \in {"aggregate", "done"}
             PROVE  /\ history # <<>> /\ usedTee # NoTee
                    /\ onChain = 1..total
                    /\ UNION {history[k].names : k \in 1..Len(history)} = 1..total
                    /\ Stacked = 1..total
                    /\ \A k \in 1..Len(history) : history[k].tee = usedTee
  BY DEF AggregateComplete
<1>1. LoopInv /\ index = total + 1 /\ total \in Nat /\ total >= 1
  BY BatchFacts DEF BatchInv, LoopInv
<1>2. LastAnswered = total /\ LastProved = total
  BY <1>1 DEF LastAnswered, LastProved
<1>3. onChain = 1..total /\ Answered = 1..total /\ Stacked = 1..total
  BY <1>1, <1>2 DEF LoopInv
<1>4. history # <<>>
  <2>1. 1 \in 1..total
    BY <1>1
  <2> QED  BY <1>3, <2>1 DEF Stacked
<1> QED  BY <1>3, <1>4 DEF BatchInv, TeeInv, Answered

\* No request to a TEE carries more than maxNumberOfSingleVerification fragments
\* (calcBatchQuantity and the loop of batchGenProofAndVerify, chlgservice.go).
THEOREM BatchesAreBounded == BatchSpec => []BatchBound
<1>1. BatchInv => BatchBound
  BY DEF BatchInv
<1> QED  BY <1>1, BatchInitInv, BatchNextInv, PTL DEF BatchSpec

\* The proof sent with a batch aggregates exactly the batch's fragments, and no
\* fragment is in two batches.
THEOREM BatchProofsAreMatched == BatchSpec => []BatchProofsMatch
<1>1. BatchInv => BatchProofsMatch
  BY DEF BatchInv
<1> QED  BY <1>1, BatchInitInv, BatchNextInv, PTL DEF BatchSpec

\* When the signatures are aggregated, batches, submitted proof and bloom filter cover
\* every challenged fragment, for any rest left by the division into batches.
THEOREM AggregatesAreComplete == BatchSpec => []AggregateComplete
<1>1. BatchInv => AggregateComplete
  BY InvAggregate
<1> QED  BY <1>1, BatchInitInv, BatchNextInv, PTL DEF BatchSpec
=============================================================================
