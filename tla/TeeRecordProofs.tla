--------------------------- MODULE TeeRecordProofs ---------------------------
(***************************************************************************)
(* AnswerAttributed of TeeRecord, for every set of workers and hosts.      *)
(***************************************************************************)
EXTENDS TeeRecord, TLAPS

\* A normalised endpoint is normalised already: SaveTee may be given either.
LEMMA Normalised == \A h \in Host : ProcessTeeEndpoint(h) = h
<1> SUFFICES ASSUME NEW h \in Host PROVE ProcessTeeEndpoint(h) = h
  OBVIOUS
<1>1. PICK e \in Announced : h = ProcessTeeEndpoint(e)
  BY DEF Host
<1>2. h.port # 0 /\ h = [scheme |-> "none", name |-> h.name, port |-> h.port]
  BY <1>1, ConstantsAssumption DEF ProcessTeeEndpoint
<1> QED  BY <1>2 DEF ProcessTeeEndpoint

\* An announced endpoint normalises to a host.
LEMMA ToHost == \A e \in Announced : ProcessTeeEndpoint(e) \in Host
  BY DEF Host

\* What the states of the two tasks hold.
LEMMA SyncFacts ==
  ASSUME sync \in {Idle} \cup SyncList \cup SyncOne
  PROVE  /\ sync.pc \in {"priority", "next"} => sync \in SyncList /\ sync.todo \subseteq Tee
         /\ sync.pc \in {"identity", "save"} => sync \in SyncOne
<1>1. Idle.pc = "idle"
  BY DEF Idle
<1> QED  BY <1>1 DEF SyncList, SyncOne

LEMMA UseFacts ==
  ASSUME use \in {Idle} \cup UseOne
  PROVE  /\ use.pc # "idle" => use \in UseOne
         /\ use \in UseOne => /\ use.host \in Host
                              /\ use.key \in Tee \cup {None} /\ use.by \in Tee \cup {None}
<1>1. Idle.pc = "idle"
  BY DEF Idle
<1> QED  BY <1>1 DEF UseOne

LEMMA SyncOneFacts ==
  ASSUME NEW s \in SyncOne
  PROVE  /\ s.todo \subseteq Tee /\ s.tee \in Tee /\ s.host \in Host
         /\ [s EXCEPT !.pc = "save"] \in SyncOne
         /\ [s EXCEPT !.pc = "save"].pc = "save"
         /\ [s EXCEPT !.pc = "save"].host = s.host /\ [s EXCEPT !.pc = "save"].tee = s.tee
  BY DEF SyncOne
-----------------------------------------------------------------------------
(* Steps that leave the record, the hosts and one of the tasks alone. *)

LEMMA SyncOnly ==
  ASSUME IInv, sync' \in {Idle} \cup SyncList \cup SyncOne, SyncInv',
         UNCHANGED <<workers, serves, teeList, use, stale>>
  PROVE  IInv'
<1>1. RecordType' /\ TaskType' /\ RecordInv'
  BY DEF IInv, RecordType, TaskType, RecordInv
<1>2. UseInv' /\ AnswerAttributed'
  BY DEF IInv, UseInv, AnswerAttributed
<1> QED  BY <1>1, <1>2 DEF IInv

LEMMA UseOnly ==
  ASSUME IInv, use' \in {Idle} \cup UseOne, UseInv', AnswerAttributed',
         UNCHANGED <<workers, serves, teeList, sync, stale>>
  PROVE  IInv'
  BY DEF IInv, RecordType, TaskType, RecordInv, SyncInv

LEMMA SyncStartStep == ASSUME IInv, SyncStart PROVE IInv'
<1>1. sync' \in SyncList
  BY DEF SyncStart, SyncList, GetAllTeePubkeyHex, Recorded
<1>2. sync'.pc # "save"
  BY <1>1 DEF SyncList
<1> QED  BY <1>1, <1>2, SyncOnly DEF SyncStart, SyncInv

LEMMA SyncQueryStep == ASSUME IInv, SyncQuery PROVE IInv'
<1>1. sync \in SyncList /\ sync.todo \subseteq Tee
  BY SyncFacts DEF IInv, TaskType, SyncQuery
<1>2. PICK t \in sync.todo :
        \/ /\ workers[t] # None
           /\ sync' = [pc |-> "identity", todo |-> sync.todo \ {t}, tee |-> t,
                       host |-> ProcessTeeEndpoint(workers[t]), moved |-> FALSE]
        \/ sync' = [sync EXCEPT !.todo = @ \ {t}]
  BY DEF SyncQuery
<1>3. CASE sync' = [sync EXCEPT !.todo = @ \ {t}]
  <2>1. sync' \in SyncList /\ sync'.pc # "save"
    BY <1>1, <1>3 DEF SyncList
  <2> QED  BY <2>1, SyncOnly DEF SyncQuery, SyncInv
<1>4. CASE /\ workers[t] # None
           /\ sync' = [pc |-> "identity", todo |-> sync.todo \ {t}, tee |-> t,
                       host |-> ProcessTeeEndpoint(workers[t]), moved |-> FALSE]
  <2>1. t \in Tee /\ workers[t] \in Announced
    BY <1>1, <1>4 DEF IInv, RecordType
  <2>2. ProcessTeeEndpoint(workers[t]) \in Host
    BY <2>1, ToHost
  <2>3. sync' \in SyncOne /\ sync'.pc # "save"
    BY <1>1, <1>4, <2>1, <2>2 DEF SyncOne
  <2> QED  BY <2>3, SyncOnly DEF SyncQuery, SyncInv
<1> QED  BY <1>2, <1>3, <1>4

LEMMA SyncReturnStep == ASSUME IInv, SyncReturn PROVE IInv'
<1>1. sync' = Idle /\ sync'.pc # "save"
  BY DEF SyncReturn, Idle
<1> QED  BY <1>1, SyncOnly DEF SyncReturn, SyncInv

\* A configured worker is saved unchecked, and is stale from then on.
LEMMA SyncPriorityStep == ASSUME IInv, SyncPriority PROVE IInv'
<1>1. sync \in SyncList /\ sync.todo \subseteq Tee
  BY SyncFacts DEF IInv, TaskType, SyncPriority
<1>2. PICK t \in sync.todo :
        /\ sync' = [sync EXCEPT !.todo = @ \ {t}]
        /\ \/ workers[t] # None /\ SaveTee(t, workers[t]) /\ stale' = stale \cup {t}
           \/ UNCHANGED <<teeList, stale>>
  BY DEF SyncPriority
<1>3. sync' \in SyncList /\ sync'.pc # "save"
  BY <1>1, <1>2 DEF SyncList
<1>4. UNCHANGED <<workers, serves, use>>
  BY DEF SyncPriority
<1>5. CASE UNCHANGED <<teeList, stale>>
  BY <1>3, <1>4, <1>5, SyncOnly DEF SyncInv
<1>6. CASE workers[t] # None /\ SaveTee(t, workers[t]) /\ stale' = stale \cup {t}
  <2>1. t \in Tee /\ workers[t] \in Announced
    BY <1>1, <1>6 DEF IInv, RecordType
  <2>2. ProcessTeeEndpoint(workers[t]) \in Host
    BY <2>1, ToHost
  <2>3. RecordType' /\ RecordInv'
    BY <1>4, <1>6, <2>1, <2>2 DEF IInv, RecordType, RecordInv, SaveTee
  <2>4. TaskType' /\ SyncInv'
    BY <1>3, <1>4 DEF IInv, TaskType, SyncInv
  <2>5. UseInv' /\ AnswerAttributed'
    BY <1>4 DEF IInv, UseInv, AnswerAttributed
  <2> QED  BY <2>3, <2>4, <2>5 DEF IInv
<1> QED  BY <1>2, <1>5, <1>6

LEMMA SyncIdentityStep == ASSUME IInv, SyncIdentity PROVE IInv'
<1>1. sync \in SyncOne
  BY SyncFacts DEF IInv, TaskType, SyncIdentity
<1>2. UNCHANGED <<workers, serves, use, stale>>
  BY DEF SyncIdentity
<1>3. SyncGoOn => sync' \in SyncList /\ sync'.pc # "save"
  <2>1. sync.todo \subseteq Tee
    BY <1>1, SyncOneFacts
  <2> QED  BY <2>1 DEF SyncGoOn, SyncList
<1>4. CASE SyncGoOn /\ UNCHANGED teeList
  BY <1>2, <1>3, <1>4, SyncOnly DEF SyncInv
<1>5. CASE serves[sync.host] = sync.tee /\ sync' = [sync EXCEPT !.pc = "save"] /\ UNCHANGED teeList
  <2>1. sync' \in SyncOne /\ sync'.host = sync.host /\ sync'.tee = sync.tee
    BY <1>1, <1>5, SyncOneFacts
  <2> QED  BY <1>2, <1>5, <2>1, SyncOnly DEF SyncInv
<1>6. CASE SyncGoOn /\ DeleteTee(sync.tee)
  <2>1. sync.tee \in Tee
    BY <1>1, SyncOneFacts
  <2>2. RecordType' /\ RecordInv'
    BY <1>2, <1>6, <2>1 DEF IInv, RecordType, RecordInv, DeleteTee
  <2>3. TaskType' /\ SyncInv'
    BY <1>2, <1>3, <1>6 DEF IInv, TaskType, SyncInv
  <2>4. UseInv' /\ AnswerAttributed'
    BY <1>2 DEF IInv, UseInv, AnswerAttributed
  <2> QED  BY <2>2, <2>3, <2>4 DEF IInv
<1> QED  BY <1>4, <1>5, <1>6 DEF SyncIdentity

\* The worker saved was heard at the host, which has not changed hands since or has
\* been noted to.
LEMMA SyncSaveStep == ASSUME IInv, SyncSave PROVE IInv'
<1>1. sync \in SyncOne
  BY SyncFacts DEF IInv, TaskType, SyncSave
<1>2. sync.tee \in Tee /\ sync.host \in Host
  BY <1>1, SyncOneFacts
<1>3. UNCHANGED <<workers, serves, use>>
  BY DEF SyncSave
<1>4. sync' \in SyncList /\ sync'.pc # "save"
  BY <1>1, SyncOneFacts DEF SyncSave, SyncGoOn, SyncList
<1>5. teeList' = [teeList EXCEPT ![sync.tee] = sync.host]
  BY <1>2, Normalised DEF SyncSave, SaveTee
<1>6. RecordType'
  BY <1>2, <1>3, <1>5 DEF IInv, RecordType, SyncSave
<1>7. RecordInv'
  <2>1. sync.moved \/ serves[sync.host] = sync.tee
    BY DEF IInv, SyncInv, SyncSave
  <2>2. sync.tee \notin stale' => serves[sync.host] = sync.tee
    BY <2>1 DEF SyncSave
  <2>3. \A t \in Tee \ {sync.tee} : t \notin stale' => t \notin stale
    BY DEF SyncSave
  <2> QED  BY <1>2, <1>3, <1>5, <2>2, <2>3 DEF IInv, RecordType, RecordInv
<1>8. TaskType' /\ SyncInv'
  BY <1>3, <1>4 DEF IInv, TaskType, SyncInv
<1>9. UseInv' /\ AnswerAttributed'
  BY <1>3 DEF IInv, UseInv, AnswerAttributed
<1> QED  BY <1>6, <1>7, <1>8, <1>9 DEF IInv
-----------------------------------------------------------------------------
LEMMA UseStartStep == ASSUME IInv, UseStart PROVE IInv'
<1>1. PICK h \in Host, l \in {"lookup", "ask"} :
        use' = [pc |-> l, host |-> h, key |-> None, by |-> None, moved |-> Suspect(h)]
  BY DEF UseStart
<1>2. Suspect(h) \in BOOLEAN
  BY DEF Suspect
<1>3. use' \in UseOne
  BY <1>1, <1>2 DEF UseOne
<1>4. use'.key = None /\ use'.by = None
  BY <1>1
<1> QED  BY <1>3, <1>4, UseOnly DEF UseStart, UseInv, AnswerAttributed

\* The worker found serves at the host unless it is stale.
LEMMA UseLookupStep == ASSUME IInv, UseLookup PROVE IInv'
<1>1. use \in UseOne /\ use.host \in Host /\ use.by \in Tee \cup {None} /\ use.pc = "lookup"
  BY UseFacts DEF IInv, TaskType, UseLookup
<1>2. CASE use' = Idle
  <2>1. use'.pc = "idle"
    BY <1>2 DEF Idle
  <2> QED  BY <1>2, <2>1, UseOnly DEF UseLookup, UseInv, AnswerAttributed
<1>3. CASE \E t \in GetTeePubkeyByEndpoint(use.host) :
             use' = [use EXCEPT !.pc = IF use.by = None THEN "ask" ELSE "done", !.key = t,
                                !.moved = @ \/ t \in stale]
  <2>1. PICK t \in GetTeePubkeyByEndpoint(use.host) :
             use' = [use EXCEPT !.pc = IF use.by = None THEN "ask" ELSE "done", !.key = t,
                                !.moved = use.moved \/ t \in stale]
    BY <1>3
  <2>2. t \in Tee /\ teeList[t] = use.host
    BY DEF GetTeePubkeyByEndpoint
  <2>3. use' \in UseOne
    BY <1>1, <2>1, <2>2 DEF UseOne
  <2>4. /\ use'.key = t /\ use'.by = use.by /\ use'.host = use.host
        /\ use'.pc = (IF use.by = None THEN "ask" ELSE "done")
    BY <1>1, <2>1 DEF UseOne
  <2>5. ~use'.moved => ~use.moved /\ t \notin stale
    BY <1>1, <2>1 DEF UseOne
  <2>6. ~use'.moved => serves[use.host] = t
    BY <1>1, <2>2, <2>5, HostAssumption DEF IInv, RecordInv
  <2>7. ~use'.moved /\ use.by # None => serves[use.host] = use.by
    BY <1>1, <2>5 DEF IInv, UseInv
  <2>8. serves' = serves
    BY DEF UseLookup
  <2>9. UseInv' /\ AnswerAttributed'
    BY <2>4, <2>6, <2>7, <2>8 DEF UseInv, AnswerAttributed
  <2> QED  BY <2>3, <2>9, UseOnly DEF UseLookup
<1> QED  BY <1>2, <1>3 DEF UseLookup

LEMMA UseAskStep == ASSUME IInv, UseAsk PROVE IInv'
<1>1. use \in UseOne /\ use.host \in Host /\ use.key \in Tee \cup {None} /\ use.pc = "ask"
  BY UseFacts DEF IInv, TaskType, UseAsk
<1>2. CASE use' = Idle
  <2>1. use'.pc = "idle"
    BY <1>2 DEF Idle
  <2> QED  BY <1>2, <2>1, UseOnly DEF UseAsk, UseInv, AnswerAttributed
<1>3. CASE /\ serves[use.host] # None
           /\ use' = [use EXCEPT !.pc = IF use.key = None THEN "lookup" ELSE "done",
                                 !.by = serves[use.host]]
  <2>1. serves[use.host] \in Tee \cup {None}
    BY <1>1 DEF IInv, RecordType
  <2>2. use' \in UseOne
    BY <1>1, <1>3, <2>1 DEF UseOne
  <2>3. /\ use'.key = use.key /\ use'.by = serves[use.host] /\ use'.host = use.host
        /\ use'.pc = (IF use.key = None THEN "lookup" ELSE "done") /\ use'.moved = use.moved
    BY <1>1, <1>3 DEF UseOne
  <2>4. ~use.moved /\ use.key # None => serves[use.host] = use.key
    BY <1>1 DEF IInv, UseInv
  <2>5. serves' = serves
    BY DEF UseAsk
  <2>6. UseInv' /\ AnswerAttributed'
    BY <2>3, <2>4, <2>5 DEF UseInv, AnswerAttributed
  <2> QED  BY <2>2, <2>6, UseOnly DEF UseAsk
<1> QED  BY <1>2, <1>3 DEF UseAsk

LEMMA UseEndStep == ASSUME IInv, UseEnd PROVE IInv'
<1>1. use' = Idle /\ use'.pc = "idle"
  BY DEF UseEnd, Idle
<1> QED  BY <1>1, UseOnly DEF UseEnd, UseInv, AnswerAttributed
-----------------------------------------------------------------------------
LEMMA AnnounceStep == ASSUME IInv, Announce PROVE IInv'
<1>1. UNCHANGED <<serves, teeList, sync, use, stale>>
  BY DEF Announce
<1>2. RecordType'
  BY <1>1 DEF IInv, RecordType, Announce
<1>3. TaskType' /\ RecordInv' /\ SyncInv'
  BY <1>1 DEF IInv, TaskType, RecordInv, SyncInv
<1>4. UseInv' /\ AnswerAttributed'
  BY <1>1 DEF IInv, UseInv, AnswerAttributed
<1> QED  BY <1>2, <1>3, <1>4 DEF IInv

\* A host that changes hands makes the workers recorded there stale and is noted by
\* the tasks under way.
LEMMA ServeStep == ASSUME IInv, Serve PROVE IInv'
<1>1. PICK h \in Host, t \in Tee \cup {None} :
        /\ serves' = [serves EXCEPT ![h] = t]
        /\ stale' = stale \cup GetTeePubkeyByEndpoint(h)
        /\ sync' = IF sync.pc = "save"
                     THEN [sync EXCEPT !.moved = @ \/ sync.host = h] ELSE sync
        /\ use' = IF use.pc \in {"lookup", "ask"}
                    THEN [use EXCEPT !.moved = @ \/ use.host = h] ELSE use
  BY DEF Serve
<1>2. UNCHANGED <<workers, teeList>>
  BY DEF Serve
<1>3. RecordType'
  BY <1>1, <1>2 DEF IInv, RecordType, GetTeePubkeyByEndpoint
<1>4. RecordInv'
  <2>1. SUFFICES ASSUME NEW u \in Tee \ stale', teeList[u] # None PROVE serves'[teeList[u]] = u
    BY <1>2 DEF RecordInv
  <2>2. u \notin stale /\ teeList[u] # h /\ teeList[u] \in Host
    BY <1>1, <2>1 DEF GetTeePubkeyByEndpoint, IInv, RecordType
  <2>3. serves[teeList[u]] = u
    BY <2>1, <2>2 DEF IInv, RecordInv
  <2> QED  BY <1>1, <2>2, <2>3 DEF IInv, RecordType
<1>5. sync' \in {Idle} \cup SyncList \cup SyncOne /\ SyncInv'
  <2>1. CASE sync.pc = "save"
    <3>1. sync \in SyncOne
      BY <2>1, SyncFacts DEF IInv, TaskType
    <3>2. sync' = [sync EXCEPT !.moved = sync.moved \/ sync.host = h]
      BY <1>1, <2>1
    <3>3. sync' \in SyncOne /\ sync'.host = sync.host /\ sync'.tee = sync.tee
      BY <3>1, <3>2 DEF SyncOne
    <3>4. ~sync'.moved => ~sync.moved /\ sync.host # h
      BY <3>1, <3>2 DEF SyncOne
    <3>5. sync.host \in Host
      BY <3>1, SyncOneFacts
    <3>6. sync'.moved \/ serves'[sync.host] = sync.tee
      BY <1>1, <2>1, <3>4, <3>5 DEF IInv, RecordType, SyncInv
    <3> QED  BY <3>3, <3>6 DEF SyncInv
  <2>2. CASE sync.pc # "save"
    BY <1>1, <2>2 DEF IInv, TaskType, SyncInv
  <2> QED  BY <2>1, <2>2
<1>6. use' \in {Idle} \cup UseOne /\ UseInv' /\ AnswerAttributed'
  <2>1. CASE use.pc \in {"lookup", "ask"}
    <3>1. use \in UseOne /\ use.host \in Host
      BY <2>1, UseFacts DEF IInv, TaskType
    <3>2. use' = [use EXCEPT !.moved = use.moved \/ use.host = h]
      BY <1>1, <2>1
    <3>3. /\ use' \in UseOne /\ use'.host = use.host /\ use'.key = use.key /\ use'.by = use.by
          /\ use'.pc = use.pc
      BY <3>1, <3>2 DEF UseOne
    <3>4. ~use'.moved => ~use.moved /\ use.host # h
      BY <3>1, <3>2 DEF UseOne
    <3>5. ~use'.moved => serves'[use.host] = serves[use.host]
      BY <1>1, <3>1, <3>4 DEF IInv, RecordType
    <3>6. UseInv'
      BY <2>1, <3>3, <3>4, <3>5 DEF IInv, UseInv
    <3> QED  BY <2>1, <3>3, <3>6 DEF AnswerAttributed
  <2>2. CASE use.pc \notin {"lookup", "ask"}
    BY <1>1, <2>2 DEF IInv, TaskType, UseInv, AnswerAttributed
  <2> QED  BY <2>1, <2>2
<1> QED  BY <1>3, <1>4, <1>5, <1>6 DEF IInv, TaskType
-----------------------------------------------------------------------------
LEMMA InitInv == Init => IInv
<1> SUFFICES ASSUME Init PROVE IInv
  OBVIOUS
<1>1. sync.pc = "idle" /\ use.pc = "idle"
  BY DEF Init, Idle
<1>2. RecordType /\ RecordInv
  BY DEF Init, RecordType, RecordInv, Recorded
<1>3. TaskType
  BY DEF Init, TaskType
<1>4. SyncInv /\ UseInv /\ AnswerAttributed
  BY <1>1 DEF SyncInv, UseInv, AnswerAttributed
<1> QED  BY <1>2, <1>3, <1>4 DEF IInv

LEMMA NextInv == IInv /\ [Next]_vars => IInv'
<1> SUFFICES ASSUME IInv, [Next]_vars PROVE IInv'
  OBVIOUS
<1>1. CASE Sync
  BY <1>1, SyncStartStep, SyncPriorityStep, SyncQueryStep, SyncIdentityStep, SyncSaveStep,
     SyncReturnStep DEF Sync, SyncBody
<1>2. CASE Use
  BY <1>2, UseStartStep, UseLookupStep, UseAskStep, UseEndStep DEF Use
<1>3. CASE Announce \/ Serve
  BY <1>3, AnnounceStep, ServeStep
<1>4. CASE syncMinerStatus \/ UNCHANGED vars
  <2>1. UNCHANGED <<workers, serves, teeList, sync, use, stale>>
    BY <1>4 DEF vars, syncMinerStatus
  <2>2. sync' \in {Idle} \cup SyncList \cup SyncOne /\ SyncInv'
    BY <2>1 DEF IInv, TaskType, SyncInv
  <2> QED  BY <2>1, <2>2, SyncOnly
<1> QED  BY <1>1, <1>2, <1>3, <1>4 DEF Next

\* The record maps workers to hosts and types, and the positions of SyncTeeInfo and of a
\* task carry the values they need (node/chainsync.go, node/record/tee.go).
THEOREM TypeCorrect == Spec => [](RecordType /\ TaskType)
<1>1. IInv => RecordType /\ TaskType
  BY DEF IInv
<1> QED  BY <1>1, InitInv, NextInv, PTL DEF Spec

\* An answer is attributed to the worker that gave it, unless the host changed hands
\* since that worker was recorded there or its record was never checked
\* (GetTeePubkeyByEndpoint of node/record/tee.go and its callers).
THEOREM AnswersAreAttributed == Spec => []AnswerAttributed
<1>1. IInv => AnswerAttributed
  BY DEF IInv
<1> QED  BY <1>1, InitInv, NextInv, PTL DEF Spec
=============================================================================
