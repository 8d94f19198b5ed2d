------------------------ MODULE IdleChallengeProofs -------------------------
(***************************************************************************)
(* Proofs about IdleChallenge: for every number of rounds, dispatchers,    *)
(* attempts and crashes, and every choice of windows and empty ranges, the *)
(* marks, the record and the submitted results are sound.                  *)
(***************************************************************************)
EXTENDS IdleChallenge, TLAPS

\* Round numbers and the "no round" value 0 are distinct naturals.
LEMMA RoundFacts == Round \subseteq Nat /\ None \notin Round /\ None \in Nat
  BY ConstantAssumption DEF Round, None

\* The attempts of a submission are counted from 1 to SubmitTries.
LEMMA TryFacts ==
  /\ 1 \in 1..SubmitTries
  /\ \A t \in 1..SubmitTries : t < SubmitTries => t + 1 \in 1..SubmitTries
  BY ConstantAssumption

\* Node.Start on a fresh workspace satisfies the invariant.
LEMMA InitInv == Init => IInv
  BY RoundFacts, ConstantAssumption
  DEF Init, IInv, TypeOK, WorkerInv, Signed, Location, ProofMarkSound,
      ResultMarkSound, ResultFollowsProof, Record, NoRecord, PcState, Path

\* A stuttering step preserves it.
LEMMA StutterInv ==
  ASSUME IInv, UNCHANGED vars
  PROVE  IInv'
  BY DEF IInv, vars, TypeOK, WorkerInv, Signed, Location, ProofMarkSound,
      ResultMarkSound, ResultFollowsProof

\* A new block leaves everything but the block and the round alone.
LEMMA TickInv == IInv /\ Tick => IInv'
  <1> SUFFICES ASSUME IInv, Tick PROVE IInv'
    OBVIOUS
  <1>a. round' \in Round \cup {None} /\ block' \in Nat
    BY ConstantAssumption DEF IInv, TypeOK, Tick, Round, None
  <1>1. TypeOK'
    BY <1>a DEF IInv, TypeOK, Tick
  <1>2. QED
    BY <1>1 DEF IInv, Tick, WorkerInv, Signed, Location, ProofMarkSound,
      ResultMarkSound, ResultFollowsProof

\* Dispatchers only choose the round of the next worker.
LEMMA DispatchInv ==
  ASSUME IInv, NEW d \in Dispatcher, TakeSnapshot(d) \/ Launch(d)
  PROVE  IInv'
  <1>1. CASE TakeSnapshot(d)
    BY <1>1 DEF IInv, TypeOK, TakeSnapshot, WorkerInv, Signed, Location,
       ProofMarkSound, ResultMarkSound, ResultFollowsProof
  <1>2. CASE Launch(d)
    <2>1. TypeOK'
      BY <1>2 DEF IInv, TypeOK, Launch, PcState
    <2>2. WorkerInv'
      BY <1>2 DEF IInv, TypeOK, Launch, WorkerInv, Location
    <2>3. QED
      BY <1>2, <2>1, <2>2
      DEF IInv, Launch, Signed, ProofMarkSound, ResultMarkSound, ResultFollowsProof
  <1>3. QED
    BY <1>1, <1>2

\* A crash keeps the disk and the chain.
LEMMA CrashInv == IInv /\ Crash => IInv'
  BY RoundFacts, ConstantAssumption
  DEF IInv, TypeOK, Crash, Return, WorkerInv, Signed, Location, ProofMarkSound,
      ResultMarkSound, ResultFollowsProof, PcState, Path, Record, NoRecord,
      chainVars, diskVars

\* Where idleChallenge goes on once the proof has been dealt with.
LEMMA AfterProofFacts ==
  ASSUME IInv, pc \in {"proofKey", "proofCheck", "proofSend"}, AfterProof
  PROVE  /\ pc' \in PcState /\ after' \in PcState /\ try' \in 1..SubmitTries
         /\ path' = path /\ rec' = rec /\ chall' = chall
  <1>1. path \in {"resume", "full", "empty"}
    BY DEF IInv, TypeOK, WorkerInv, Path
  <1>2. after \in PcState
    BY DEF IInv, TypeOK
  <1>3. QED
    BY <1>1, <1>2, TryFacts DEF AfterProof, SaveThen, PcState

\* Each step of idleChallenge preserves the invariant.
LEMMA WorkerStepInv == IInv /\ Worker => IInv'
  <1> SUFFICES ASSUME IInv, Worker PROVE IInv'
    OBVIOUS
  <1> USE RoundFacts, TryFacts DEF chainVars, diskVars, environment
  <1>1. CASE Truncate
    <2>1. TypeOK'
      BY <1>1 DEF IInv, TypeOK, WorkerInv, Record, NoRecord, PcState, Path, Truncate,
         Goto
    <2>2. WorkerInv'
      BY <1>1 DEF IInv, TypeOK, WorkerInv, Location, Signed, Record, NoRecord, Path,
         PcState,
         ProofMarkSound, Truncate, Goto
    <2>3. Signed(file)' /\ Signed(rec)'
      BY <1>1 DEF IInv, TypeOK, WorkerInv, Location, Signed, Record, NoRecord, Path,
         Truncate, Goto
    <2>4. (ProofMarkSound /\ ResultMarkSound /\ ResultFollowsProof)'
      BY <1>1 DEF IInv, TypeOK, WorkerInv, Location, Signed, Path,
         ProofMarkSound, ResultMarkSound, ResultFollowsProof, Truncate, Goto
    <2>5. QED
      BY <2>1, <2>2, <2>3, <2>4 DEF IInv
  <1>2. CASE Write
    <2>1. TypeOK'
      BY <1>2 DEF IInv, TypeOK, WorkerInv, Record, NoRecord, PcState, Path, Write,
         Return
    <2>2. WorkerInv'
      BY <1>2 DEF IInv, TypeOK, WorkerInv, Location, Signed, Record, NoRecord, Path,
         PcState,
         ProofMarkSound, Write, Return
    <2>3. Signed(file)' /\ Signed(rec)'
      BY <1>2 DEF IInv, TypeOK, WorkerInv, Location, Signed, Record, NoRecord, Path,
         Write, Return
    <2>4. (ProofMarkSound /\ ResultMarkSound /\ ResultFollowsProof)'
      BY <1>2 DEF IInv, TypeOK, WorkerInv, Location, Signed, Path,
         ProofMarkSound, ResultMarkSound, ResultFollowsProof, Write, Return
    <2>5. QED
      BY <2>1, <2>2, <2>3, <2>4 DEF IInv
  <1>3. CASE Load
    <2>1. TypeOK'
      BY <1>3 DEF IInv, TypeOK, WorkerInv, Record, NoRecord, PcState, Path, Load, Goto
    <2>2. WorkerInv'
      BY <1>3 DEF IInv, TypeOK, WorkerInv, Location, Signed, Record, NoRecord, Path,
         PcState,
         ProofMarkSound, Load, Goto
    <2>3. Signed(file)' /\ Signed(rec)'
      BY <1>3 DEF IInv, TypeOK, WorkerInv, Location, Signed, Record, NoRecord, Path,
         Load, Goto
    <2>4. (ProofMarkSound /\ ResultMarkSound /\ ResultFollowsProof)'
      BY <1>3 DEF IInv, TypeOK, WorkerInv, Location, Signed, Path,
         ProofMarkSound, ResultMarkSound, ResultFollowsProof, Load, Goto
    <2>5. QED
      BY <2>1, <2>2, <2>3, <2>4 DEF IInv
  <1>4. CASE RemoveFile
    <2>1. TypeOK'
      BY <1>4 DEF IInv, TypeOK, WorkerInv, Record, NoRecord, PcState, Path,
         RemoveFile, Goto
    <2>2. WorkerInv'
      BY <1>4 DEF IInv, TypeOK, WorkerInv, Location, Signed, Record, NoRecord, Path,
         PcState,
         ProofMarkSound, RemoveFile, Goto
    <2>3. Signed(file)' /\ Signed(rec)'
      BY <1>4 DEF IInv, TypeOK, WorkerInv, Location, Signed, Record, NoRecord, Path,
         RemoveFile, Goto
    <2>4. (ProofMarkSound /\ ResultMarkSound /\ ResultFollowsProof)'
      BY <1>4 DEF IInv, TypeOK, WorkerInv, Location, Signed, Path,
         ProofMarkSound, ResultMarkSound, ResultFollowsProof, RemoveFile, Goto
    <2>5. QED
      BY <2>1, <2>2, <2>3, <2>4 DEF IInv
  <1>5. CASE DeleteProofMark
    <2>1. TypeOK'
      <3>1. pc' \in PcState
        BY <1>5 DEF PcState, DeleteProofMark, Goto
      <3>2. QED
        BY <1>5, <3>1 DEF IInv, TypeOK, DeleteProofMark, Goto
    <2>2. WorkerInv'
      BY <1>5 DEF IInv, TypeOK, WorkerInv, Location, Signed, Record, NoRecord, Path,
         PcState,
         ProofMarkSound, DeleteProofMark, Goto
    <2>3. Signed(file)' /\ Signed(rec)'
      BY <1>5 DEF IInv, TypeOK, WorkerInv, Location, Signed, Record, NoRecord, Path,
         DeleteProofMark, Goto
    <2>4. (ProofMarkSound /\ ResultMarkSound /\ ResultFollowsProof)'
      BY <1>5 DEF IInv, TypeOK, WorkerInv, Location, Signed, Path,
         ProofMarkSound, ResultMarkSound, ResultFollowsProof, DeleteProofMark, Goto
    <2>5. QED
      BY <2>1, <2>2, <2>3, <2>4 DEF IInv
  <1>6. CASE DeleteResultMark
    <2>1. TypeOK'
      <3>1. pc' \in PcState
        BY <1>6 DEF PcState, DeleteResultMark, Goto
      <3>2. QED
        BY <1>6, <3>1 DEF IInv, TypeOK, DeleteResultMark, Goto
    <2>2. WorkerInv'
      BY <1>6 DEF IInv, TypeOK, WorkerInv, Location, Signed, Record, NoRecord, Path,
         PcState,
         ProofMarkSound, DeleteResultMark, Goto
    <2>3. Signed(file)' /\ Signed(rec)'
      BY <1>6 DEF IInv, TypeOK, WorkerInv, Location, Signed, Record, NoRecord, Path,
         DeleteResultMark, Goto
    <2>4. (ProofMarkSound /\ ResultMarkSound /\ ResultFollowsProof)'
      BY <1>6 DEF IInv, TypeOK, WorkerInv, Location, Signed, Path,
         ProofMarkSound, ResultMarkSound, ResultFollowsProof, DeleteResultMark, Goto
    <2>5. QED
      BY <2>1, <2>2, <2>3, <2>4 DEF IInv
  <1>7. CASE Fresh
    <2>1. TypeOK'
      BY <1>7 DEF IInv, TypeOK, WorkerInv, Record, NoRecord, PcState, Path, Fresh,
         Return
    <2>2. WorkerInv'
      BY <1>7 DEF IInv, TypeOK, WorkerInv, Location, Signed, Record, NoRecord, Path,
         PcState,
         ProofMarkSound, Fresh, Return
    <2>3. Signed(file)' /\ Signed(rec)'
      BY <1>7 DEF IInv, TypeOK, WorkerInv, Location, Signed, Record, NoRecord, Path,
         Fresh, Return
    <2>4. (ProofMarkSound /\ ResultMarkSound /\ ResultFollowsProof)'
      BY <1>7 DEF IInv, TypeOK, WorkerInv, Location, Signed, Path,
         ProofMarkSound, ResultMarkSound, ResultFollowsProof, Fresh, Return
    <2>5. QED
      BY <2>1, <2>2, <2>3, <2>4 DEF IInv
  <1>8. CASE Prove
    <2>1. TypeOK'
      BY <1>8 DEF IInv, TypeOK, WorkerInv, Record, NoRecord, PcState, Path, Prove,
         SaveThen, Return
    <2>2. WorkerInv'
      BY <1>8 DEF IInv, TypeOK, WorkerInv, Location, Signed, Record, NoRecord, Path,
         PcState,
         ProofMarkSound, Prove, SaveThen, Return
    <2>3. Signed(file)' /\ Signed(rec)'
      BY <1>8 DEF IInv, TypeOK, WorkerInv, Location, Signed, Record, NoRecord, Path,
         Prove, SaveThen, Return
    <2>4. (ProofMarkSound /\ ResultMarkSound /\ ResultFollowsProof)'
      BY <1>8 DEF IInv, TypeOK, WorkerInv, Location, Signed, Path,
         ProofMarkSound, ResultMarkSound, ResultFollowsProof, Prove, SaveThen, Return
    <2>5. QED
      BY <2>1, <2>2, <2>3, <2>4 DEF IInv
  <1>9. CASE ProofKey
    <2>1. TypeOK'
      <3>1. CASE AfterProof
        BY <1>9, <3>1, AfterProofFacts DEF IInv, TypeOK, ProofKey
      <3>2. CASE Goto("proofCheck")
        BY <1>9, <3>2 DEF IInv, TypeOK, PcState, ProofKey, Goto
      <3>3. QED
        BY <1>9, <3>1, <3>2 DEF ProofKey
    <2>2. WorkerInv'
      BY <1>9 DEF IInv, TypeOK, WorkerInv, Location, Signed, Record, NoRecord, Path,
         PcState,
         ProofMarkSound, ProofKey, AfterProof, SaveThen, Goto
    <2>3. Signed(file)' /\ Signed(rec)'
      BY <1>9 DEF IInv, TypeOK, WorkerInv, Location, Signed, Record, NoRecord, Path,
         ProofKey, AfterProof, SaveThen, Goto
    <2>4. (ProofMarkSound /\ ResultMarkSound /\ ResultFollowsProof)'
      BY <1>9 DEF IInv, TypeOK, WorkerInv, Location, Signed, Path,
         ProofMarkSound, ResultMarkSound, ResultFollowsProof, ProofKey, AfterProof, SaveThen, Goto
    <2>5. QED
      BY <2>1, <2>2, <2>3, <2>4 DEF IInv
  <1>10. CASE ProofCheck
    <2>1. TypeOK'
      <3>1. CASE AfterProof
        BY <1>10, <3>1, AfterProofFacts DEF IInv, TypeOK, ProofCheck
      <3>2. CASE Goto("proofSend")
        BY <1>10, <3>2 DEF IInv, TypeOK, PcState, ProofCheck, Goto
      <3>3. QED
        BY <1>10, <3>1, <3>2 DEF ProofCheck
    <2>2. WorkerInv'
      BY <1>10 DEF IInv, TypeOK, WorkerInv, Location, Signed, Record, NoRecord, Path,
         PcState,
         ProofMarkSound, ProofCheck, AfterProof, SaveThen, Goto
    <2>3. Signed(file)' /\ Signed(rec)'
      BY <1>10 DEF IInv, TypeOK, WorkerInv, Location, Signed, Record, NoRecord, Path,
         ProofCheck, AfterProof, SaveThen, Goto
    <2>4. (ProofMarkSound /\ ResultMarkSound /\ ResultFollowsProof)'
      BY <1>10 DEF IInv, TypeOK, WorkerInv, Location, Signed, Path,
         ProofMarkSound, ResultMarkSound, ResultFollowsProof, ProofCheck, AfterProof, SaveThen, Goto
    <2>5. QED
      BY <2>1, <2>2, <2>3, <2>4 DEF IInv
  <1>11. CASE ProofSend
    <2>1. TypeOK'
      <3>1. chall \in Round /\ path \in {"resume", "full", "empty"}
        BY <1>11 DEF IInv, TypeOK, WorkerInv, Path, ProofSend
      <3>2. /\ proofTx' \subseteq Round
            /\ proofOn' \in [Round -> Round \cup {None}]
            /\ UNCHANGED <<block, round, resultOn, resultTx>>
        BY <1>11, <3>1 DEF IInv, TypeOK, ProofSend, ProofInBlock, TakesProof
      <3>3. CASE Goto("proofPut")
        BY <1>11, <3>2, <3>3 DEF IInv, TypeOK, PcState, ProofSend, Goto
      <3>4. CASE Retry(AfterProof)
        <4>1. /\ try' \in 1..SubmitTries
              /\ pc' \in PcState /\ after' \in PcState
              /\ path' = path /\ rec' = rec /\ chall' = chall
          BY <1>11, <3>1, <3>4
          DEF IInv, TypeOK, PcState, ProofSend, Retry, AfterProof, SaveThen
        <4>2. QED
          BY <1>11, <3>2, <4>1 DEF IInv, TypeOK, ProofSend
      <3>5. QED
        BY <1>11, <3>3, <3>4 DEF ProofSend
    <2>2. WorkerInv'
      BY <1>11 DEF IInv, TypeOK, WorkerInv, Location, Signed, Record, NoRecord, Path,
         PcState,
         ProofMarkSound, ProofSend, ProofInBlock, Retry, AfterProof, SaveThen, Goto
    <2>3. Signed(file)' /\ Signed(rec)'
      BY <1>11 DEF IInv, TypeOK, WorkerInv, Location, Signed, Record, NoRecord, Path,
         ProofSend, ProofInBlock, Retry, AfterProof, SaveThen, Goto
    <2>4. (ProofMarkSound /\ ResultMarkSound /\ ResultFollowsProof)'
      BY <1>11 DEF IInv, TypeOK, WorkerInv, Location, Signed, Path,
         ProofMarkSound, ResultMarkSound, ResultFollowsProof, ProofSend, ProofInBlock, Retry, AfterProof, SaveThen, Goto
    <2>5. QED
      BY <2>1, <2>2, <2>3, <2>4 DEF IInv
  <1>12. CASE ProofPut
    <2>1. TypeOK'
      <3>1. chall \in Round /\ path \in {"resume", "full", "empty"}
        BY <1>12 DEF IInv, TypeOK, WorkerInv, Path, ProofPut
      <3>2. /\ pc' \in PcState /\ after' \in PcState /\ try' \in 1..SubmitTries
            /\ path' = path /\ rec' = rec /\ chall' = chall
        BY <1>12, <3>1 DEF IInv, TypeOK, PcState, ProofPut, SaveThen, Goto
      <3>3. QED
        BY <1>12, <3>1, <3>2 DEF IInv, TypeOK, ProofPut
    <2>2. WorkerInv'
      BY <1>12 DEF IInv, TypeOK, WorkerInv, Location, Signed, Record, NoRecord, Path,
         PcState,
         ProofMarkSound, ProofPut, SaveThen, Goto
    <2>3. Signed(file)' /\ Signed(rec)'
      BY <1>12 DEF IInv, TypeOK, WorkerInv, Location, Signed, Record, NoRecord, Path,
         ProofPut, SaveThen, Goto
    <2>4. (ProofMarkSound /\ ResultMarkSound /\ ResultFollowsProof)'
      BY <1>12 DEF IInv, TypeOK, WorkerInv, Location, Signed, Path,
         ProofMarkSound, ResultMarkSound, ResultFollowsProof, ProofPut, SaveThen, Goto
    <2>5. QED
      BY <2>1, <2>2, <2>3, <2>4 DEF IInv
  <1>13. CASE EmptyPut
    <2>1. TypeOK'
      BY <1>13 DEF IInv, TypeOK, WorkerInv, Record, NoRecord, PcState, Path,
         EmptyPut, SaveThen
    <2>2. WorkerInv'
      BY <1>13 DEF IInv, TypeOK, WorkerInv, Location, Signed, Record, NoRecord, Path,
         PcState,
         ProofMarkSound, EmptyPut, SaveThen
    <2>3. Signed(file)' /\ Signed(rec)'
      BY <1>13 DEF IInv, TypeOK, WorkerInv, Location, Signed, Record, NoRecord, Path,
         EmptyPut, SaveThen
    <2>4. (ProofMarkSound /\ ResultMarkSound /\ ResultFollowsProof)'
      BY <1>13 DEF IInv, TypeOK, WorkerInv, Location, Signed, Path,
         ProofMarkSound, ResultMarkSound, ResultFollowsProof, EmptyPut, SaveThen
    <2>5. QED
      BY <2>1, <2>2, <2>3, <2>4 DEF IInv
  <1>14. CASE VerifyKey
    <2>1. TypeOK'
      BY <1>14 DEF IInv, TypeOK, WorkerInv, Record, NoRecord, PcState, Path,
         VerifyKey, Goto, Return
    <2>2. WorkerInv'
      BY <1>14 DEF IInv, TypeOK, WorkerInv, Location, Signed, Record, NoRecord, Path,
         PcState,
         ProofMarkSound, VerifyKey, Goto, Return
    <2>3. Signed(file)' /\ Signed(rec)'
      BY <1>14 DEF IInv, TypeOK, WorkerInv, Location, Signed, Record, NoRecord, Path,
         VerifyKey, Goto, Return
    <2>4. (ProofMarkSound /\ ResultMarkSound /\ ResultFollowsProof)'
      BY <1>14 DEF IInv, TypeOK, WorkerInv, Location, Signed, Path,
         ProofMarkSound, ResultMarkSound, ResultFollowsProof, VerifyKey, Goto, Return
    <2>5. QED
      BY <2>1, <2>2, <2>3, <2>4 DEF IInv
  <1>15. CASE VerifyExpired
    <2>1. TypeOK'
      BY <1>15 DEF IInv, TypeOK, WorkerInv, Record, NoRecord, PcState, Path,
         VerifyExpired, Return
    <2>2. WorkerInv'
      BY <1>15 DEF IInv, TypeOK, WorkerInv, Location, Signed, Record, NoRecord, Path,
         PcState,
         ProofMarkSound, VerifyExpired, Return
    <2>3. Signed(file)' /\ Signed(rec)'
      BY <1>15 DEF IInv, TypeOK, WorkerInv, Location, Signed, Record, NoRecord, Path,
         VerifyExpired, Return
    <2>4. (ProofMarkSound /\ ResultMarkSound /\ ResultFollowsProof)'
      BY <1>15 DEF IInv, TypeOK, WorkerInv, Location, Signed, Path,
         ProofMarkSound, ResultMarkSound, ResultFollowsProof, VerifyExpired, Return
    <2>5. QED
      BY <2>1, <2>2, <2>3, <2>4 DEF IInv
  <1>16. CASE VerifyBlocks
    <2>1. TypeOK'
      BY <1>16 DEF IInv, TypeOK, WorkerInv, Record, NoRecord, PcState, Path,
         VerifyBlocks, SaveThen
    <2>2. WorkerInv'
      BY <1>16 DEF IInv, TypeOK, WorkerInv, Location, Signed, Record, NoRecord, Path,
         PcState,
         ProofMarkSound, VerifyBlocks, SaveThen
    <2>3. Signed(file)' /\ Signed(rec)'
      BY <1>16 DEF IInv, TypeOK, WorkerInv, Location, Signed, Record, NoRecord, Path,
         VerifyBlocks, SaveThen
    <2>4. (ProofMarkSound /\ ResultMarkSound /\ ResultFollowsProof)'
      BY <1>16 DEF IInv, TypeOK, WorkerInv, Location, Signed, Path,
         ProofMarkSound, ResultMarkSound, ResultFollowsProof, VerifyBlocks, SaveThen
    <2>5. QED
      BY <2>1, <2>2, <2>3, <2>4 DEF IInv
  <1>17. CASE VerifyTotal
    <2>1. TypeOK'
      BY <1>17 DEF IInv, TypeOK, WorkerInv, Record, NoRecord, PcState, Path,
         VerifyTotal, SaveThen, Goto
    <2>2. WorkerInv'
      BY <1>17 DEF IInv, TypeOK, WorkerInv, Location, Signed, Record, NoRecord, Path,
         PcState,
         ProofMarkSound, VerifyTotal, SaveThen, Goto
    <2>3. Signed(file)' /\ Signed(rec)'
      BY <1>17 DEF IInv, TypeOK, WorkerInv, Location, Signed, Record, NoRecord, Path,
         VerifyTotal, SaveThen, Goto
    <2>4. (ProofMarkSound /\ ResultMarkSound /\ ResultFollowsProof)'
      BY <1>17 DEF IInv, TypeOK, WorkerInv, Location, Signed, Path,
         ProofMarkSound, ResultMarkSound, ResultFollowsProof, VerifyTotal, SaveThen, Goto
    <2>5. QED
      BY <2>1, <2>2, <2>3, <2>4 DEF IInv
  <1>18. CASE ResultKey
    <2>1. TypeOK'
      BY <1>18 DEF IInv, TypeOK, WorkerInv, Record, NoRecord, PcState, Path,
         ResultKey, Goto, Return
    <2>2. WorkerInv'
      BY <1>18 DEF IInv, TypeOK, WorkerInv, Location, Signed, Record, NoRecord, Path,
         PcState,
         ProofMarkSound, ResultKey, Goto, Return
    <2>3. Signed(file)' /\ Signed(rec)'
      BY <1>18 DEF IInv, TypeOK, WorkerInv, Location, Signed, Record, NoRecord, Path,
         ResultKey, Goto, Return
    <2>4. (ProofMarkSound /\ ResultMarkSound /\ ResultFollowsProof)'
      BY <1>18 DEF IInv, TypeOK, WorkerInv, Location, Signed, Path,
         ProofMarkSound, ResultMarkSound, ResultFollowsProof, ResultKey, Goto, Return
    <2>5. QED
      BY <2>1, <2>2, <2>3, <2>4 DEF IInv
  <1>19. CASE ResultCheck
    <2>1. TypeOK'
      BY <1>19 DEF IInv, TypeOK, WorkerInv, Record, NoRecord, PcState, Path,
         ResultCheck, Goto, Return
    <2>2. WorkerInv'
      BY <1>19 DEF IInv, TypeOK, WorkerInv, Location, Signed, Record, NoRecord, Path,
         PcState,
         ProofMarkSound, ResultCheck, Goto, Return
    <2>3. Signed(file)' /\ Signed(rec)'
      BY <1>19 DEF IInv, TypeOK, WorkerInv, Location, Signed, Record, NoRecord, Path,
         ResultCheck, Goto, Return
    <2>4. (ProofMarkSound /\ ResultMarkSound /\ ResultFollowsProof)'
      BY <1>19 DEF IInv, TypeOK, WorkerInv, Location, Signed, Path,
         ProofMarkSound, ResultMarkSound, ResultFollowsProof, ResultCheck, Goto, Return
    <2>5. QED
      BY <2>1, <2>2, <2>3, <2>4 DEF IInv
  <1>20. CASE ResultSend
    <2>1. TypeOK'
      <3>1. chall \in Round /\ rec.sig \in Round
        BY <1>20 DEF IInv, TypeOK, WorkerInv, Location, Record, ResultSend
      <3>2. /\ resultTx' \subseteq Round
            /\ resultOn' \in [Round -> Round \cup {None}]
            /\ UNCHANGED <<block, round, proofOn, proofTx>>
        BY <1>20, <3>1 DEF IInv, TypeOK, ResultSend, ResultInBlock, TakesResult
      <3>3. CASE Goto("resultPut")
        BY <1>20, <3>2, <3>3 DEF IInv, TypeOK, PcState, ResultSend, Goto
      <3>4. CASE Retry(Return)
        <4>1. /\ try' \in 1..SubmitTries
              /\ pc' \in PcState /\ after' \in PcState /\ path' \in Path
              /\ rec' \in Record /\ chall' \in Round \cup {None}
          BY <1>20, <3>4
          DEF IInv, TypeOK, PcState, Path, Record, NoRecord, ResultSend, Retry, Return
        <4>2. QED
          BY <1>20, <3>2, <4>1 DEF IInv, TypeOK, ResultSend
      <3>5. QED
        BY <1>20, <3>3, <3>4 DEF ResultSend
    <2>2. WorkerInv'
      BY <1>20 DEF IInv, TypeOK, WorkerInv, Location, Signed, Record, NoRecord, Path,
         PcState,
         ProofMarkSound, ResultSend, ResultInBlock, Retry, Goto, Return
    <2>3. Signed(file)' /\ Signed(rec)'
      BY <1>20 DEF IInv, TypeOK, WorkerInv, Location, Signed, Record, NoRecord, Path,
         ResultSend, ResultInBlock, Retry, Goto, Return
    <2>4. (ProofMarkSound /\ ResultMarkSound /\ ResultFollowsProof)'
      BY <1>20 DEF IInv, TypeOK, WorkerInv, Location, Signed, Path,
         ProofMarkSound, ResultMarkSound, ResultFollowsProof, ResultSend, ResultInBlock, Retry, Goto, Return
    <2>5. QED
      BY <2>1, <2>2, <2>3, <2>4 DEF IInv
  <1>21. CASE ResultPut
    <2>1. TypeOK'
      BY <1>21 DEF IInv, TypeOK, WorkerInv, Record, NoRecord, PcState, Path,
         ResultPut, SaveThen
    <2>2. WorkerInv'
      BY <1>21 DEF IInv, TypeOK, WorkerInv, Location, Signed, Record, NoRecord, Path,
         PcState,
         ProofMarkSound, ResultPut, SaveThen
    <2>3. Signed(file)' /\ Signed(rec)'
      BY <1>21 DEF IInv, TypeOK, WorkerInv, Location, Signed, Record, NoRecord, Path,
         ResultPut, SaveThen
    <2>4. (ProofMarkSound /\ ResultMarkSound /\ ResultFollowsProof)'
      BY <1>21 DEF IInv, TypeOK, WorkerInv, Location, Signed, Path,
         ProofMarkSound, ResultMarkSound, ResultFollowsProof, ResultPut, SaveThen
    <2>5. QED
      BY <2>1, <2>2, <2>3, <2>4 DEF IInv
  <1>22. QED
    BY <1>1, <1>2, <1>3, <1>4, <1>5, <1>6, <1>7, <1>8, <1>9, <1>10, <1>11, <1>12,
       <1>13, <1>14, <1>15, <1>16, <1>17, <1>18, <1>19, <1>20, <1>21 DEF Worker
\* Every step of the specification preserves the invariant.
LEMMA NextInv == IInv /\ [Next]_vars => IInv'
  <1> SUFFICES ASSUME IInv, [Next]_vars PROVE IInv'
    OBVIOUS
  <1>1. CASE Tick
    BY <1>1, TickInv
  <1>2. CASE \E d \in Dispatcher : TakeSnapshot(d) \/ Launch(d)
    BY <1>2, DispatchInv
  <1>3. CASE Worker
    BY <1>3, WorkerStepInv
  <1>4. CASE Crash
    BY <1>4, CrashInv
  <1>5. CASE UNCHANGED vars
    BY <1>5, StutterInv
  <1>6. QED
    BY <1>1, <1>2, <1>3, <1>4, <1>5 DEF Next

\* The inductive invariant holds throughout.
LEMMA Invariant == Spec => []IInv
  BY InitInv, NextInv, PTL DEF Spec

\* The worker's variables, the record file, the marks and the chain keep their
\* types whatever crashes, retries and stale dispatches happen.
THEOREM TypeCorrect == Spec => []TypeOK
  <1>1. IInv => TypeOK
    BY DEF IInv
  <1>2. QED
    BY <1>1, Invariant, PTL

\* A round marked as proved in the cache has its proof in a block.
THEOREM ProofMarksAreSound == Spec => []ProofMarkSound
  <1>1. IInv => ProofMarkSound
    BY DEF IInv
  <1>2. QED
    BY <1>1, Invariant, PTL

\* A round marked as resulted has its result in a block, or was empty and has its
\* proof in a block.
THEOREM ResultMarksAreSound == Spec => []ResultMarkSound
  <1>1. IInv => ResultMarkSound
    BY DEF IInv
  <1>2. QED
    BY <1>1, Invariant, PTL

\* A signature kept across restarts is the record's own and follows its proof.
THEOREM SignaturesAreSound == Spec => []SignatureSound
  <1>1. IInv => SignatureSound
    BY DEF IInv, Signed, SignatureSound
  <1>2. QED
    BY <1>1, Invariant, PTL

\* Results are sent only for rounds whose proof is in a block.
THEOREM ResultsFollowProofs == Spec => []ResultFollowsProof
  <1>1. IInv => ResultFollowsProof
    BY DEF IInv
  <1>2. QED
    BY <1>1, Invariant, PTL
=============================================================================
