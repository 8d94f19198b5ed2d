------------------------------ MODULE TeeRecord -----------------------------
(***************************************************************************)
(* The record of TEE workers (node/record/tee.go), its synchronisation     *)
(* with the chain (SyncTeeInfo, node/chainsync.go) and the tasks that ask  *)
(* a recorded endpoint and attribute the answer to the worker key they     *)
(* find for that endpoint (chlgidle.go, calctag.go, idlecert.go,           *)
(* idlerepl.go, init.go).                                                  *)
(*                                                                         *)
(* Workers come, go and change hosts: what the chain announces (workers),  *)
(* who answers at a host (serves) and what the record says (teeList)       *)
(* change in steps of their own.                                           *)
(***************************************************************************)
EXTENDS Naturals

CONSTANTS Tee,        \* worker public keys
          None,       \* no worker, no endpoint
          Role,       \* the role of each worker: "full", "verifier" or "marker"
          Name,       \* host names
          Announced,  \* endpoints as written on the chain
          MaxMoves,   \* bound: changes of workers and hosts
          MaxFails    \* bound: failing calls

ASSUME ConstantsAssumption ==
    /\ MaxMoves \in Nat /\ MaxFails \in Nat
    /\ Role \in [Tee -> {"full", "verifier", "marker"}]
    /\ Announced \subseteq [scheme : {"http", "https", "none"}, name : Name, port : Nat]
    /\ None \notin Tee /\ None \notin Announced

(* An endpoint without its scheme and with a port: the one given, 443 for  *)
(* https, else 80.  SaveTee normalises what its callers already did.       *)
ProcessTeeEndpoint(e) ==
    [scheme |-> "none", name |-> e.name,
     port |-> IF e.port # 0 THEN e.port ELSE IF e.scheme = "https" THEN 443 ELSE 80]

Host == {ProcessTeeEndpoint(e) : e \in Announced}

ASSUME HostAssumption == None \notin Host

VARIABLES workers,    \* the chain: the endpoint each worker announced, or None
          serves,     \* which worker answers at each host
          teeList,    \* the record: the host of each worker, or None
          priority,   \* a list of TEEs is configured
          working,    \* runstatus: the miner's state is POSITIVE or FROZEN
          sync,       \* SyncTeeInfo
          use,        \* a task that asks a TEE
          moves, fails,
          stale       \* history: recorded workers whose host may be another's

vars == <<workers, serves, teeList, priority, working, sync, use, moves, fails, stale>>

Idle == [pc |-> "idle"]

Recorded == {t \in Tee : teeList[t] # None}

Init ==
    /\ workers \in [Tee -> Announced \cup {None}]
    /\ serves \in [Host -> Tee \cup {None}]
    /\ teeList \in [Tee -> Host \cup {None}]
    /\ \A t \in Tee : teeList[t] # None =>
         workers[t] # None /\ teeList[t] = ProcessTeeEndpoint(workers[t])
    /\ priority \in BOOLEAN /\ working \in BOOLEAN
    /\ priority => \E t \in Tee : teeList[t] # None
    /\ stale = Recorded
    /\ sync = Idle /\ use = Idle
    /\ moves = 0 /\ fails = 0

-----------------------------------------------------------------------------
(* The record's operations, each under its lock.                           *)
SaveTee(t, e) == teeList' = [teeList EXCEPT ![t] = ProcessTeeEndpoint(e)]

DeleteTee(t) == teeList' = [teeList EXCEPT ![t] = None]

GetAllTeePubkeyHex == Recorded

GetAllMarkerTeeEndpoint == {teeList[t] : t \in {u \in Recorded : Role[u] # "verifier"}}

GetAllVerifierTeeEndpoint == {teeList[t] : t \in {u \in Recorded : Role[u] # "marker"}}

(* The first match of an unordered map: any worker recorded at the host. *)
GetTeePubkeyByEndpoint(h) == {t \in Tee : teeList[t] = h}

-----------------------------------------------------------------------------
(***************************************************************************)
(* SyncTeeInfo                                                             *)
(***************************************************************************)
(* Fault variant: only workers already recorded are looked at. *)
SyncStartRecorded ==
    /\ sync.pc = "idle" /\ working
    /\ sync' = [pc |-> IF priority THEN "priority" ELSE "next", todo |-> GetAllTeePubkeyHex]
    /\ UNCHANGED <<workers, serves, teeList, priority, working, use, moves, fails, stale>>

(* Started by Node.Start, and by a dispatcher with a challenge due that    *)
(* finds no other running (the ten minute timer is commented out).  In a   *)
(* state other than POSITIVE and FROZEN it returns at once.  With          *)
(* configured TEEs the recorded ones are refreshed, otherwise every worker *)
(* of the chain is checked.                                                *)
SyncStart ==
    /\ sync.pc = "idle" /\ working
    /\ sync' = IF priority THEN [pc |-> "priority", todo |-> GetAllTeePubkeyHex]
               ELSE [pc |-> "next", todo |-> {t \in Tee : workers[t] # None}]
    /\ UNCHANGED <<workers, serves, teeList, priority, working, use, moves, fails, stale>>

Fail == fails < MaxFails /\ fails' = fails + 1

(* A configured worker takes the endpoint of the chain unchecked. *)
SyncPriority ==
    /\ sync.pc = "priority"
    /\ \E t \in sync.todo :
         /\ sync' = [sync EXCEPT !.todo = @ \ {t}]
         /\ \/ /\ workers[t] # None
               /\ SaveTee(t, workers[t])
               /\ stale' = stale \cup {t}
               /\ UNCHANGED fails
            \/ workers[t] = None /\ UNCHANGED <<teeList, stale, fails>>
            \/ Fail /\ UNCHANGED <<teeList, stale>>
    /\ UNCHANGED <<workers, serves, priority, working, use, moves>>

SyncQuery ==
    /\ sync.pc = "next"
    /\ \E t \in sync.todo :
         \/ /\ workers[t] # None
            /\ sync' = [pc |-> "identity", todo |-> sync.todo \ {t}, tee |-> t,
                        host |-> ProcessTeeEndpoint(workers[t]), moved |-> FALSE]
            /\ UNCHANGED fails
         \/ workers[t] = None /\ sync' = [sync EXCEPT !.todo = @ \ {t}] /\ UNCHANGED fails
         \/ Fail /\ sync' = [sync EXCEPT !.todo = @ \ {t}]
    /\ UNCHANGED <<workers, serves, teeList, priority, working, use, moves, stale>>

SyncGoOn == sync' = [pc |-> "next", todo |-> sync.todo]

(* Fault variant: the answer is not compared with the worker's key. *)
SyncIdentityAny ==
    /\ sync.pc = "identity"
    /\ \/ /\ serves[sync.host] # None
          /\ sync' = [sync EXCEPT !.pc = "save"]
       \/ serves[sync.host] = None /\ SyncGoOn
    /\ UNCHANGED <<workers, serves, teeList, priority, working, use, moves, fails, stale>>

(* The host must answer with the worker's own key; one that answers with   *)
(* another is taken off the record, one that does not answer stays.        *)
SyncIdentity ==
    /\ sync.pc = "identity"
    /\ \/ /\ serves[sync.host] = sync.tee
          /\ sync' = [sync EXCEPT !.pc = "save"]
          /\ UNCHANGED <<teeList, fails>>
       \/ /\ serves[sync.host] \notin {sync.tee, None}
          /\ SyncGoOn /\ DeleteTee(sync.tee)
          /\ UNCHANGED fails
       \/ serves[sync.host] = None /\ SyncGoOn /\ UNCHANGED <<teeList, fails>>
       \/ Fail /\ SyncGoOn /\ UNCHANGED teeList
    /\ UNCHANGED <<workers, serves, priority, working, use, moves, stale>>

SyncSave ==
    /\ sync.pc = "save"
    /\ SaveTee(sync.tee, sync.host)
    /\ SyncGoOn
    /\ stale' = IF sync.moved THEN stale \cup {sync.tee} ELSE stale \ {sync.tee}
    /\ UNCHANGED <<workers, serves, priority, working, use, moves, fails>>

SyncReturn ==
    /\ sync.pc \in {"priority", "next"} /\ sync.todo = {}
    /\ sync' = Idle
    /\ UNCHANGED <<workers, serves, teeList, priority, working, use, moves, fails, stale>>

-----------------------------------------------------------------------------
(***************************************************************************)
(* A task that needs a TEE reads the endpoints once, and goes through      *)
(* them.  The challenges and the tag calculation look the worker up before *)
(* they ask, certification, replacement and registration after.            *)
(***************************************************************************)
Suspect(h) == \E t \in GetTeePubkeyByEndpoint(h) : t \in stale

UseStart ==
    /\ use.pc = "idle"
    /\ \E hosts \in {GetAllMarkerTeeEndpoint, GetAllVerifierTeeEndpoint}, h \in Host,
          order \in {"before", "after"} :
         /\ h \in hosts
         /\ use' = [pc |-> IF order = "before" THEN "lookup" ELSE "ask", host |-> h,
                    key |-> None, by |-> None, moved |-> Suspect(h)]
    /\ UNCHANGED <<workers, serves, teeList, priority, working, sync, moves, fails, stale>>

(* A worker not found is an error: the task goes on with another endpoint. *)
UseLookup ==
    /\ use.pc = "lookup"
    /\ \/ \E t \in GetTeePubkeyByEndpoint(use.host) :
            use' = [use EXCEPT !.pc = IF use.by = None THEN "ask" ELSE "done", !.key = t,
                               !.moved = @ \/ t \in stale]
       \/ GetTeePubkeyByEndpoint(use.host) = {} /\ use' = Idle
    /\ UNCHANGED <<workers, serves, teeList, priority, working, sync, moves, fails, stale>>

UseAsk ==
    /\ use.pc = "ask"
    /\ \/ /\ serves[use.host] # None
          /\ use' = [use EXCEPT !.pc = IF use.key = None THEN "lookup" ELSE "done",
                                !.by = serves[use.host]]
       \/ serves[use.host] = None /\ use' = Idle
    /\ UNCHANGED <<workers, serves, teeList, priority, working, sync, moves, fails, stale>>

UseEnd ==
    /\ use.pc = "done" /\ use' = Idle
    /\ UNCHANGED <<workers, serves, teeList, priority, working, sync, moves, fails, stale>>

-----------------------------------------------------------------------------
(* The miner's state follows the chain's, which may lock a miner and free  *)
(* it again; in EXIT it stays as it is.                                    *)
syncMinerStatus ==
    /\ working' = ~working
    /\ UNCHANGED <<workers, serves, teeList, priority, sync, use, moves, fails, stale>>

(***************************************************************************)
(* The workers: announcing an endpoint, leaving the chain, and starting    *)
(* or stopping to serve at a host.                                         *)
(***************************************************************************)
Announce ==
    /\ moves < MaxMoves /\ moves' = moves + 1
    /\ \E t \in Tee, e \in Announced \cup {None} :
         workers[t] # e /\ workers' = [workers EXCEPT ![t] = e]
    /\ UNCHANGED <<serves, teeList, priority, working, sync, use, fails, stale>>

Serve ==
    /\ moves < MaxMoves /\ moves' = moves + 1
    /\ \E h \in Host, t \in Tee \cup {None} :
         /\ serves[h] # t
         /\ serves' = [serves EXCEPT ![h] = t]
         /\ stale' = stale \cup GetTeePubkeyByEndpoint(h)
         /\ sync' = IF sync.pc = "save"
                      THEN [sync EXCEPT !.moved = @ \/ sync.host = h] ELSE sync
         /\ use' = IF use.pc \in {"lookup", "ask"}
                     THEN [use EXCEPT !.moved = @ \/ use.host = h] ELSE use
    /\ UNCHANGED <<workers, teeList, priority, working, fails>>

-----------------------------------------------------------------------------
SyncBody == SyncPriority \/ SyncQuery \/ SyncIdentity \/ SyncSave \/ SyncReturn

Sync == SyncStart \/ SyncBody

Use == UseStart \/ UseLookup \/ UseAsk \/ UseEnd

Next == Sync \/ Use \/ syncMinerStatus \/ Announce \/ Serve

Spec == Init /\ [][Next]_vars

(* A synchronisation once started runs.  None need be started: that takes  *)
(* a challenge that is due (challenge.go:58-61).                           *)
FairSpec == Spec /\ WF_vars(SyncBody)

-----------------------------------------------------------------------------
(* A task attributes an answer to the worker that gave it, unless the host *)
(* changed hands since the worker was recorded there, or the record was    *)
(* never checked (configured TEEs, chainsync.go:80-105, and the one that   *)
(* gave the PoDR2 key, init.go:434).  A worker that left the chain stays   *)
(* recorded (SyncTeeInfo only looks at listed ones), so that its host's    *)
(* next owner may be taken for it for good.                                *)
AnswerAttributed == use.pc = "done" /\ ~use.moved => use.key = use.by

(* As long as challenges keep starting synchronisations, a worker that     *)
(* keeps serving where the chain says it does ends up in the record at     *)
(* that host and stays there: neither a check that failed before nor a     *)
(* deletion is final (chainsync.go:107-164).  A miner that is no longer    *)
(* challenged, or is locked, keeps the record it has.                      *)
Converges ==
    \A t \in Tee :
      /\ []<>(sync.pc # "idle")
      /\ <>[](/\ workers[t] # None /\ serves[ProcessTeeEndpoint(workers[t])] = t
              /\ priority => teeList[t] # None)
      => <>[](workers[t] # None /\ teeList[t] = ProcessTeeEndpoint(workers[t]))
-----------------------------------------------------------------------------
(***************************************************************************)
(* The inductive invariant behind AnswerAttributed.  A recorded worker     *)
(* that is not stale serves at its host; the same is known of the worker   *)
(* about to be saved and of the workers a task has found and heard,        *)
(* unless the host has changed hands meanwhile.                            *)
(***************************************************************************)
SyncList == [pc : {"priority", "next"}, todo : SUBSET Tee]
SyncOne == [pc : {"identity", "save"}, todo : SUBSET Tee, tee : Tee, host : Host, moved : BOOLEAN]
UseOne == [pc : {"lookup", "ask", "done"}, host : Host, key : Tee \cup {None},
           by : Tee \cup {None}, moved : BOOLEAN]

RecordType ==
    /\ workers \in [Tee -> Announced \cup {None}] /\ serves \in [Host -> Tee \cup {None}]
    /\ teeList \in [Tee -> Host \cup {None}] /\ stale \subseteq Tee

TaskType == sync \in {Idle} \cup SyncList \cup SyncOne /\ use \in {Idle} \cup UseOne

RecordInv == \A t \in Tee \ stale : teeList[t] # None => serves[teeList[t]] = t

SyncInv == sync.pc = "save" => sync.moved \/ serves[sync.host] = sync.tee

UseInv ==
    use.pc \in {"lookup", "ask"} /\ ~use.moved =>
      /\ use.key # None => serves[use.host] = use.key
      /\ use.by # None => serves[use.host] = use.by

IInv == RecordType /\ TaskType /\ RecordInv /\ SyncInv /\ UseInv /\ AnswerAttributed
=============================================================================
