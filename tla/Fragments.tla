------------------------------ MODULE Fragments ------------------------------
(***************************************************************************)
(* Stored files on the miner: fragments are uploaded into the report       *)
(* directory (node/web/fragment.go), ReportFiles reports them to the chain *)
(* and moves them to the file directory once the file is stored            *)
(* (node/report.go), RestoreFiles replaces fragments that are missing and  *)
(* takes over those that other miners lost (node/restore.go).              *)
(*                                                                         *)
(* The three run at the same time on the same directories, and the chain   *)
(* changes under them.  A file on disk is absent ("none"), incomplete      *)
(* ("short") or complete ("good"); the content of an upload is compared    *)
(* with its name, so it is not modelled.  putfragment saves under a fresh  *)
(* name in the tmp directory first, of which nothing else depends.  The    *)
(* miner's state is positive.                                              *)
(*                                                                         *)
(* The chain is external: a deal collects one report for each index, a     *)
(* miner reports once, and with the last report the deal is replaced by    *)
(* the file's metadata.  A restoral order is claimed, and claimed again    *)
(* after its deadline.                                                     *)
(***************************************************************************)
EXTENDS Integers, FiniteSets, FiniteSetsExt

CONSTANTS Fid,        \* files, as numbers: utils.Dirs lists directories in order
          Frag,       \* fragment names
          ZeroFile,   \* chain.ZeroFileHash_8M
          Index,      \* 1..DataShards+ParShards
          Column,     \* the fragments of a file that go to the miner of an index
          Stored0,    \* files stored already, index 1 on this miner
          Uploads, Requests,   \* the fragments clients send and ask for
          MaxEvents   \* bound: deals, requests, restores, orders, losses, failures, crashes

FragmentsOf(f) == UNION {Column[f][i] : i \in Index}

ASSUME ConstantAssumption ==
  /\ Fid \subseteq Nat /\ Fid # {} /\ Index \subseteq Nat \ {0} /\ 1 \in Index /\ Stored0 \subseteq Fid
  /\ IsFiniteSet(Fid) /\ IsFiniteSet(Index)
  /\ Column \in [Fid -> [Index -> SUBSET Frag]]
  /\ \A f \in Fid, i \in Index : Column[f][i] # {}
  /\ Uploads \subseteq (Fid \X Frag) /\ Requests \subseteq (Fid \X Frag)
  /\ MaxEvents \in Nat

VARIABLES
  deal,      \* chain: open deals
  comp,      \* chain: who has reported an index of a deal
  stored,    \* chain: files with metadata
  mine,      \* chain: fragments of stored files assigned to this miner
  order,     \* chain: restoral orders by fragment
  late,      \* reports given up by the client that may still get into a block
  rep, repdir,   \* disk: report directory
  fil, fildir,   \* disk: file directory
  failed,    \* recoveryFailedFiles
  up,        \* putfragment
  rp,        \* ReportFiles
  rs,        \* RestoreFiles
  get,       \* getfragment
  cause,     \* history: an accident explains that a fragment is missing
  events     \* bound counter

chain == <<deal, comp, stored, mine, order, late>>
disk == <<rep, repdir, fil, fildir>>
tasks == <<up, rp, rs, get>>
vars == <<chain, disk, failed, tasks, cause, events>>

Content == {"none", "short", "good"}
NoFragments == [g \in Frag |-> "none"]
Free == [i \in Index |-> "free"]

Order == [st : {"none", "open", "mine"}, f : Fid]
Upload == [pc : {"off", "check", "mkdir", "rename", "fill"}, f : Fid, g : Frag]
ReportPc == {"off", "file", "deal", "mkdir", "move", "remove", "report", "send", "next"}
Reporter == [pc : ReportPc, dirs : SUBSET Fid, f : Fid, todo : SUBSET Frag, idx : SUBSET Index]
RestorePc == {"off", "file", "local", "lost", "others", "claim", "restore", "copy", "complete"}
Restorer == [pc : RestorePc, dirs : SUBSET Fid, own : BOOLEAN, f : Fid, todo : SUBSET Frag,
             g : Frag, src : Fid]
Getter == [pc : {"off", "file", "report", "found", "missed"}, f : Fid, g : Frag, moved : BOOLEAN,
           gone : BOOLEAN]

TypeOK ==
  /\ deal \subseteq Fid /\ comp \in [Fid -> [Index -> {"free", "me", "other"}]]
  /\ stored \subseteq Fid /\ mine \in [Fid -> SUBSET Frag]
  /\ order \in [Frag -> Order] /\ late \subseteq (Fid \X Index)
  /\ rep \in [Fid -> [Frag -> Content]] /\ repdir \subseteq Fid
  /\ fil \in [Fid -> [Frag -> Content]] /\ fildir \subseteq Fid
  /\ failed \subseteq Frag
  /\ up \in Upload /\ rp \in Reporter /\ rs \in Restorer /\ get \in Getter
  /\ cause \subseteq (Fid \X Frag) /\ events \in 0..MaxEvents

AnyFid == CHOOSE f \in Fid : TRUE
AnyFrag == CHOOSE g \in Frag : TRUE
NoOrder == [st |-> "none", f |-> AnyFid]
UpOff == [pc |-> "off", f |-> AnyFid, g |-> AnyFrag]
RpOff == [pc |-> "off", dirs |-> {}, f |-> AnyFid, todo |-> {}, idx |-> {}]
RsOff == [pc |-> "off", dirs |-> {}, own |-> TRUE, f |-> AnyFid, todo |-> {}, g |-> AnyFrag,
          src |-> AnyFid]
GetOff == [pc |-> "off", f |-> AnyFid, g |-> AnyFrag, moved |-> FALSE, gone |-> FALSE]

Init ==
  /\ deal = {} /\ comp = [f \in Fid |-> Free] /\ stored = Stored0
  /\ mine = [f \in Fid |-> IF f \in Stored0 THEN Column[f][1] ELSE {}]
  /\ order = [g \in Frag |-> NoOrder] /\ late = {}
  /\ rep = [f \in Fid |-> NoFragments] /\ repdir = {}
  /\ fil = [f \in Fid |-> [g \in Frag |-> IF g \in mine[f] THEN "good" ELSE "none"]]
  /\ fildir = Stored0 /\ failed = {}
  /\ up = UpOff /\ rp = RpOff /\ rs = RsOff /\ get = GetOff
  /\ cause = {}
  /\ events = 0
-----------------------------------------------------------------------------
(* The chain and the disk. *)

Event == events < MaxEvents /\ events' = events + 1
Failure == Event
NoFailure == events' = events

\* What a step that moves or removes fragments does to a request under way.
Watch(moved, removed) ==
  get' = IF get.pc = "off" THEN get
         ELSE [get EXCEPT !.moved = @ \/ <<get.f, get.g>> \in moved,
                          !.gone = @ \/ <<get.f, get.g>> \in removed]

CreateDeal ==
  \E f \in Fid \ (deal \cup stored) :
    /\ Event
    /\ deal' = deal \cup {f}
    \* A report meant for an earlier deal of this file can reach this one.
    /\ cause' = IF \E x \in late : x[1] = f THEN cause \cup ({f} \X Frag) ELSE cause
    /\ UNCHANGED <<comp, stored, mine, order, late, disk, failed, tasks>>

EndDeal ==
  \E f \in deal :
    /\ deal' = deal \ {f} /\ comp' = [comp EXCEPT ![f] = Free]
    /\ UNCHANGED <<stored, mine, order, late, disk, failed, tasks, cause, events>>

OtherReports ==
  \E f \in deal, i \in Index :
    /\ comp[f][i] = "free" /\ comp' = [comp EXCEPT ![f][i] = "other"]
    /\ UNCHANGED <<deal, stored, mine, order, late, disk, failed, tasks, cause, events>>

\* The last report is in.  checkfile can be between its two queries.
StoreFile ==
  \E f \in deal :
    /\ \A i \in Index : comp[f][i] # "free"
    /\ deal' = deal \ {f} /\ comp' = [comp EXCEPT ![f] = Free] /\ stored' = stored \cup {f}
    /\ mine' = [mine EXCEPT ![f] = UNION {Column[f][i] : i \in {j \in Index : comp[f][j] = "me"}}]
    /\ cause' = IF rp.pc = "deal" /\ rp.f = f THEN cause \cup ({f} \X Frag) ELSE cause
    /\ UNCHANGED <<order, late, disk, failed, tasks, events>>

Reported(f) == \E i \in Index : comp[f][i] = "me"
Takes(f, i) == f \in deal /\ comp[f][i] = "free" /\ ~Reported(f)
TransferReport(f, i) == comp' = [comp EXCEPT ![f][i] = "me"]

LateReport ==
  \E x \in late :
    /\ late' = late \ {x}
    /\ \/ Takes(x[1], x[2]) /\ TransferReport(x[1], x[2])
       \/ UNCHANGED comp
    /\ UNCHANGED <<deal, stored, mine, order, disk, failed, tasks, cause, events>>

\* Another miner reports a fragment as lost, or claims and completes an order, also
\* one that this miner has claimed and whose deadline has passed.
OthersOrder ==
  /\ \/ \E f \in stored : \E g \in FragmentsOf(f) \ mine[f] :
          /\ order[g].st = "none" /\ Event
          /\ order' = [order EXCEPT ![g] = [st |-> "open", f |-> f]] /\ mine' = mine
     \/ \E g \in Frag :
          /\ order[g].st # "none" /\ order' = [order EXCEPT ![g] = NoOrder] /\ NoFailure
          /\ mine' = [mine EXCEPT ![order[g].f] = @ \ {g}]
  /\ UNCHANGED <<deal, comp, stored, late, disk, failed, tasks, cause>>

\* A stored fragment is damaged or lost.
DiskLoss ==
  \E f \in fildir, g \in Frag, d \in {"none", "short"} :
    /\ fil[f][g] = "good" /\ fil' = [fil EXCEPT ![f][g] = d]
    /\ Event
    /\ cause' = cause \cup {<<f, g>>} /\ Watch({}, {<<f, g>>})
    /\ UNCHANGED <<chain, rep, repdir, fildir, failed, up, rp, rs>>
-----------------------------------------------------------------------------
(* putfragment.  A fragment that is in the report directory is not stored again. *)

PutStart ==
  \E x \in Uploads :
    /\ up.pc = "off" /\ rep[x[1]][x[2]] = "none"
    /\ IF x[2] = ZeroFile
       THEN /\ up' = [pc |-> "fill", f |-> x[1], g |-> x[2]]
            /\ rep' = [rep EXCEPT ![x[1]][x[2]] = "short"] /\ repdir' = repdir \cup {x[1]}
       ELSE /\ up' = [pc |-> "check", f |-> x[1], g |-> x[2]]
            /\ UNCHANGED <<rep, repdir>>
    /\ UNCHANGED <<chain, fil, fildir, failed, rp, rs, get, cause, events>>

\* The zero fragment is written in place, wherever the open file is by now.
PutFill ==
  /\ up.pc = "fill" /\ up' = UpOff
  /\ rep' = [rep EXCEPT ![up.f][up.g] = IF @ = "short" THEN "good" ELSE @]
  /\ fil' = [fil EXCEPT ![up.f][up.g] = IF @ = "short" /\ rep[up.f][up.g] = "none" THEN "good" ELSE @]
  /\ UNCHANGED <<chain, repdir, fildir, failed, rp, rs, get, cause, events>>

checkFragment(f, g) == f \in deal /\ g \in FragmentsOf(f)
PutCheck ==
  /\ up.pc = "check"
  /\ \/ NoFailure /\ checkFragment(up.f, up.g) /\ up' = [up EXCEPT !.pc = "mkdir"]
     \/ NoFailure /\ ~checkFragment(up.f, up.g) /\ up' = UpOff
     \/ Failure /\ up' = UpOff
  /\ UNCHANGED <<chain, disk, failed, rp, rs, get, cause>>

PutMkdir ==
  /\ up.pc = "mkdir" /\ up' = [up EXCEPT !.pc = "rename"] /\ repdir' = repdir \cup {up.f}
  /\ UNCHANGED <<chain, rep, fil, fildir, failed, rp, rs, get, cause, events>>

PutRename ==
  /\ up.pc = "rename" /\ up' = UpOff
  /\ rep' = IF up.f \in repdir THEN [rep EXCEPT ![up.f][up.g] = "good"] ELSE rep
  /\ UNCHANGED <<chain, repdir, fil, fildir, failed, rp, rs, get, cause, events>>
-----------------------------------------------------------------------------
(* getfragment looks in the file directory, then in the report directory. *)

GetStart ==
  \E x \in Requests :
    /\ get.pc = "off" /\ Event
    /\ get' = [pc |-> "file", f |-> x[1], g |-> x[2], moved |-> FALSE,
               gone |-> fil[x[1]][x[2]] = "none" /\ rep[x[1]][x[2]] = "none"]
    /\ UNCHANGED <<chain, disk, failed, up, rp, rs, cause>>

\* Fault variant: only the file directory is looked in.
findFragmentFileOnly ==
  /\ get.pc = "file" /\ UNCHANGED <<chain, disk, failed, up, rp, rs, cause, events>>
  /\ get' = [get EXCEPT !.pc = IF fil[get.f][get.g] # "none" THEN "found" ELSE "missed"]

findFragment ==
  /\ UNCHANGED <<chain, disk, failed, up, rp, rs, cause, events>>
  /\ \/ /\ get.pc = "file"
        /\ get' = [get EXCEPT !.pc = IF fil[get.f][get.g] # "none" THEN "found" ELSE "report"]
     \/ /\ get.pc = "report"
        /\ get' = [get EXCEPT !.pc = IF rep[get.f][get.g] # "none" THEN "found" ELSE "missed"]

GetEnd ==
  /\ get.pc \in {"found", "missed"} /\ get' = GetOff
  /\ UNCHANGED <<chain, disk, failed, up, rp, rs, cause, events>>

-----------------------------------------------------------------------------
(* ReportFiles. *)

RpGoto(l) == rp' = [rp EXCEPT !.pc = l]

ReportStart ==
  /\ rp.pc = "off" /\ repdir # {}
  /\ rp' = [RpOff EXCEPT !.pc = "file", !.dirs = repdir, !.f = Min(repdir)]
  /\ UNCHANGED <<chain, disk, failed, up, rs, get, cause, events>>

\* The next directory; the scan ends when the RPC connection is down.
ReportNext ==
  /\ rp.pc = "next" /\ UNCHANGED <<chain, disk, failed, up, rs, get, cause>>
  /\ LET rest == rp.dirs \ {rp.f}
     IN \/ NoFailure /\ rest # {}
           /\ rp' = [RpOff EXCEPT !.pc = "file", !.dirs = rest, !.f = Min(rest)]
        \/ NoFailure /\ rest = {} /\ rp' = RpOff
        \/ Failure /\ rp' = RpOff

\* checkfile: QueryFile
CheckFile ==
  /\ rp.pc = "file" /\ UNCHANGED <<chain, disk, failed, up, rs, get, cause>>
  /\ \/ Failure /\ RpGoto("next")
     \/ NoFailure /\ rp.f \notin stored /\ RpGoto("deal")
     \/ NoFailure /\ rp.f \in stored /\ mine[rp.f] = {} /\ RpGoto("remove")
     \/ NoFailure /\ rp.f \in stored /\ mine[rp.f] # {}
        /\ rp' = [rp EXCEPT !.pc = "mkdir", !.todo = mine[rp.f]]

\* checkfile: QueryDealMap
CheckDeal ==
  /\ rp.pc = "deal" /\ UNCHANGED <<chain, disk, failed, up, rs, get, cause>>
  /\ \/ Failure /\ RpGoto("next")
     \/ NoFailure /\ rp.f \notin deal /\ RpGoto("remove")
     \/ NoFailure /\ rp.f \in deal /\ RpGoto("report")

RemoveReport ==
  /\ rp.pc = "remove" /\ RpGoto("next")
  /\ rep' = [rep EXCEPT ![rp.f] = NoFragments] /\ repdir' = repdir \ {rp.f}
  /\ Watch({}, {rp.f} \X Frag)
  /\ UNCHANGED <<chain, fil, fildir, failed, up, rs, cause, events>>

MkFileDir ==
  /\ rp.pc = "mkdir" /\ RpGoto("move") /\ fildir' = fildir \cup {rp.f}
  /\ UNCHANGED <<chain, rep, repdir, fil, failed, up, rs, get, cause, events>>

\* Fault variant: a fragment that is there already ends the loop.
MoveOnce ==
  /\ rp.pc = "move" /\ UNCHANGED <<chain, repdir, fildir, failed, up, rs, cause, events>>
  /\ \/ rp.todo = {} /\ RpGoto("remove") /\ UNCHANGED <<rep, fil, get>>
     \/ \E g \in rp.todo :
          \/ /\ (fil[rp.f][g] # "none" \/ rep[rp.f][g] = "none") /\ RpGoto("next")
             /\ UNCHANGED <<rep, fil, get>>
          \/ /\ fil[rp.f][g] = "none" /\ rep[rp.f][g] # "none"
             /\ rp' = [rp EXCEPT !.todo = @ \ {g}]
             /\ fil' = [fil EXCEPT ![rp.f][g] = rep[rp.f][g]]
             /\ rep' = [rep EXCEPT ![rp.f][g] = "none"]
             /\ Watch({<<rp.f, g>>}, {})

\* checkfile: a fragment that is there already is skipped, one that is nowhere
\* ends the loop, and after the last the report directory is removed.
MoveFragments ==
  /\ rp.pc = "move" /\ UNCHANGED <<chain, repdir, fildir, failed, up, rs, cause, events>>
  /\ \/ rp.todo = {} /\ RpGoto("remove") /\ UNCHANGED <<rep, fil, get>>
     \/ \E g \in rp.todo :
          \/ /\ fil[rp.f][g] # "none" /\ rp' = [rp EXCEPT !.todo = @ \ {g}]
             /\ UNCHANGED <<rep, fil, get>>
          \/ /\ fil[rp.f][g] = "none" /\ rep[rp.f][g] # "none"
             /\ rp' = [rp EXCEPT !.todo = @ \ {g}]
             /\ fil' = [fil EXCEPT ![rp.f][g] = rep[rp.f][g]]
             /\ rep' = [rep EXCEPT ![rp.f][g] = "none"]
             /\ Watch({<<rp.f, g>>}, {})
          \/ /\ fil[rp.f][g] = "none" /\ rep[rp.f][g] = "none" /\ RpGoto("next")
             /\ UNCHANGED <<rep, fil, get>>

\* Fault variant: the size of the files is not looked at.
SucIndexAnySize(f) ==
  {i \in Index : comp[f][i] = "free" /\ \A g \in Column[f][i] : rep[f][g] # "none"}

\* reportfile: the indices all of whose fragments are complete
SucIndex(f) ==
  {i \in Index : comp[f][i] = "free" /\ \A g \in Column[f][i] : rep[f][g] = "good"}

\* Fault variant: any entry of the CompleteList counts as this miner's.
ReportFileAnyMiner ==
  /\ rp.pc = "report" /\ UNCHANGED <<chain, disk, failed, up, rs, get, cause>>
  /\ NoFailure
  /\ IF rp.f \in deal /\ comp[rp.f] = Free /\ SucIndex(rp.f) # {}
     THEN rp' = [rp EXCEPT !.pc = "send", !.idx = SucIndex(rp.f)]
     ELSE RpGoto("next")

ReportFile ==
  /\ rp.pc = "report" /\ UNCHANGED <<chain, disk, failed, up, rs, get, cause>>
  /\ \/ Failure /\ RpGoto("next")
     \/ /\ NoFailure /\ rp.f \in deal /\ ~Reported(rp.f) /\ SucIndex(rp.f) # {}
        /\ rp' = [rp EXCEPT !.pc = "send", !.idx = SucIndex(rp.f)]
     \/ /\ NoFailure /\ (rp.f \notin deal \/ Reported(rp.f) \/ SucIndex(rp.f) = {})
        /\ RpGoto("next")

\* The indices are tried until one report is answered.  A report can be refused or
\* lost, in a block but not answered, or in a block later.
SendReport ==
  /\ rp.pc = "send" /\ UNCHANGED <<deal, stored, mine, order, disk, failed, up, rs, get, cause>>
  /\ LET i == Min(rp.idx)
         Continue == rp' = IF rp.idx = {i} THEN [rp EXCEPT !.pc = "next", !.idx = {}]
                           ELSE [rp EXCEPT !.idx = @ \ {i}]
     IN \/ /\ NoFailure /\ Takes(rp.f, i) /\ TransferReport(rp.f, i) /\ late' = late
           /\ rp' = [rp EXCEPT !.pc = "next", !.idx = {}]
        \/ NoFailure /\ ~Takes(rp.f, i) /\ Continue /\ UNCHANGED <<comp, late>>
        \/ Failure /\ Continue /\ UNCHANGED <<comp, late>>
        \/ Failure /\ Takes(rp.f, i) /\ TransferReport(rp.f, i) /\ Continue /\ late' = late
        \/ Failure /\ Continue /\ late' = late \cup {<<rp.f, i>>} /\ comp' = comp
-----------------------------------------------------------------------------
(* RestoreFiles: RestoreLocalFiles, then RestoreOtherFiles. *)

RsGoto(l) == rs' = [rs EXCEPT !.pc = l]

RestoreStart ==
  /\ rs.pc = "off" /\ rs' = [RsOff EXCEPT !.pc = "file", !.dirs = fildir]
  /\ Event
  /\ UNCHANGED <<chain, disk, failed, up, rp, get, cause>>

\* restoreFile: QueryFile for the next directory
RestoreFile ==
  /\ rs.pc = "file" /\ UNCHANGED <<chain, disk, failed, up, rp, get, cause>>
  /\ IF rs.dirs = {}
     THEN NoFailure /\ rs' = [RsOff EXCEPT !.pc = "others", !.own = FALSE]
     ELSE LET f == Min(rs.dirs)
          IN \/ Failure /\ rs' = [rs EXCEPT !.dirs = @ \ {f}]
             \/ /\ NoFailure /\ f \notin stored /\ rs' = [rs EXCEPT !.dirs = @ \ {f}]
             \/ /\ NoFailure /\ f \in stored
                /\ rs' = [rs EXCEPT !.pc = "local", !.dirs = @ \ {f}, !.f = f, !.todo = mine[f]]

\* restoreFile: the loop over the miner's fragments
RestoreLocal ==
  /\ rs.pc = "local" /\ UNCHANGED <<chain, disk, failed, up, rp, get, cause, events>>
  /\ \/ rs.todo = {} /\ rs' = [RsOff EXCEPT !.pc = "file", !.dirs = rs.dirs]
     \/ \E g \in rs.todo :
          IF fil[rs.f][g] = "good" \/ g \in failed
          THEN rs' = [rs EXCEPT !.todo = @ \ {g}]
          ELSE rs' = [rs EXCEPT !.pc = "restore", !.todo = @ \ {g}, !.g = g]

RestoreReturns == rs' = [rs EXCEPT !.pc = IF rs.own THEN "local" ELSE "complete", !.src = AnyFid]
RestoreFails ==
  /\ failed' = failed \cup {rs.g}
  /\ rs' = [rs EXCEPT !.pc = IF rs.own THEN "lost" ELSE "claim", !.src = AnyFid]

\* restoreFragment: the directory is made; the zero fragment is written, another is
\* copied from the first directory that has a file of that name.  One that is found
\* nowhere counts as restored.
Sources(g) == {v \in fildir \cup {rs.f} : fil[v][g] # "none"}
RestoreFragment ==
  /\ rs.pc = "restore" /\ fildir' = fildir \cup {rs.f}
  /\ \/ /\ NoFailure /\ rs.g # ZeroFile /\ Sources(rs.g) = {}
        /\ RestoreReturns /\ fil' = fil /\ failed' = failed
        /\ cause' = cause \cup {<<rs.f, rs.g>>}
     \/ /\ NoFailure /\ (rs.g = ZeroFile \/ Sources(rs.g) # {})
        /\ rs' = [rs EXCEPT !.pc = "copy",
                            !.src = IF rs.g = ZeroFile THEN rs.f ELSE Min(Sources(rs.g))]
        /\ fil' = [fil EXCEPT ![rs.f][rs.g] = "short"] /\ failed' = failed
        \* checkfile may have moved the fragment in since restoreFile missed it.
        /\ cause' = IF fil[rs.f][rs.g] = "good" THEN cause \cup {<<rs.f, rs.g>>} ELSE cause
     \/ Failure /\ RestoreFails /\ UNCHANGED <<fil, cause>>
  /\ UNCHANGED <<chain, rep, repdir, up, rp, get>>

\* CopyFile or WriteFile: the file has been truncated and is filled.  A file copied
\* onto itself stays empty.
CopyFile ==
  /\ rs.pc = "copy"
  /\ \/ /\ NoFailure /\ RestoreReturns /\ failed' = failed
        /\ LET new == IF rs.g = ZeroFile THEN "good" ELSE fil[rs.src][rs.g]
           IN /\ fil' = [fil EXCEPT ![rs.f][rs.g] = IF new = "none" THEN "short" ELSE new]
              /\ cause' = IF new = "good" THEN cause ELSE cause \cup {<<rs.f, rs.g>>}
     \/ Failure /\ RestoreFails /\ fil' = fil /\ cause' = cause \cup {<<rs.f, rs.g>>}
  /\ UNCHANGED <<chain, rep, repdir, fildir, up, rp, get>>

\* GenerateRestoralOrder for the miner's own fragment; errors are logged.
ReportLost ==
  /\ rs.pc = "lost" /\ RsGoto("local")
  /\ \/ /\ NoFailure
        /\ order' = IF order[rs.g].st = "none" /\ rs.g \in mine[rs.f]
                    THEN [order EXCEPT ![rs.g] = [st |-> "open", f |-> rs.f]] ELSE order
     \/ Failure /\ order' = order
  /\ UNCHANGED <<deal, comp, stored, mine, late, disk, failed, up, rp, get, cause>>

\* QueryAllRestoralOrder
ListOrders ==
  /\ rs.pc = "others" /\ UNCHANGED <<chain, disk, failed, up, rp, get, cause>>
  /\ \/ Failure /\ rs' = RsOff
     \/ NoFailure /\ rs' = [rs EXCEPT !.pc = "claim", !.todo = {g \in Frag : order[g].st # "none"}]

\* One order of the shuffled list: failed ones are skipped, then QueryRestoralOrder,
\* the deadline, ClaimRestoralOrder.
Claimable(g) == g \notin failed /\ order[g].st = "open"
ClaimOrder ==
  /\ rs.pc = "claim"
  /\ \/ rs.todo = {} /\ NoFailure /\ rs' = RsOff /\ order' = order
     \/ \E g \in rs.todo :
          \/ /\ NoFailure /\ Claimable(g) /\ order' = [order EXCEPT ![g].st = "mine"]
             /\ rs' = [rs EXCEPT !.pc = "restore", !.todo = @ \ {g}, !.g = g, !.f = order[g].f]
          \/ /\ NoFailure /\ ~Claimable(g) /\ order' = order
             /\ rs' = [rs EXCEPT !.todo = @ \ {g}]
          \/ /\ Failure /\ rs' = [rs EXCEPT !.todo = @ \ {g}]
             /\ \/ order' = order
                \/ Claimable(g) /\ order' = [order EXCEPT ![g].st = "mine"]
  /\ UNCHANGED <<deal, comp, stored, mine, late, disk, failed, up, rp, get, cause>>

\* RestoralOrderComplete: the fragment becomes this miner's.  An error ends the task.
CompleteOrder ==
  /\ rs.pc = "complete"
  /\ LET Completes ==
           /\ order[rs.g].st = "mine" /\ order' = [order EXCEPT ![rs.g] = NoOrder]
           /\ mine' = [mine EXCEPT ![rs.f] = IF rs.f \in stored THEN @ \cup {rs.g} ELSE @]
     IN \/ NoFailure /\ Completes /\ RsGoto("claim")
        \/ NoFailure /\ order[rs.g].st # "mine" /\ rs' = RsOff /\ UNCHANGED <<order, mine>>
        \/ Failure /\ rs' = RsOff /\ (Completes \/ UNCHANGED <<order, mine>>)
  /\ UNCHANGED <<deal, comp, stored, late, disk, failed, up, rp, get, cause>>
-----------------------------------------------------------------------------
\* The process is killed and started again.  A copy under way stays incomplete.
Crash ==
  /\ Event
  /\ up' = UpOff /\ rp' = RpOff /\ rs' = RsOff /\ get' = GetOff /\ failed' = {}
  /\ cause' = IF rs.pc = "copy" THEN cause \cup {<<rs.f, rs.g>>} ELSE cause
  /\ UNCHANGED <<chain, disk>>

PutStep == PutStart \/ PutFill \/ PutCheck \/ PutMkdir \/ PutRename
GetStep == GetStart \/ findFragment \/ GetEnd
ReportStep ==
  \/ ReportStart \/ ReportNext \/ CheckFile \/ CheckDeal \/ RemoveReport \/ MkFileDir
  \/ MoveFragments \/ ReportFile \/ SendReport
RestoreStep ==
  \/ RestoreStart \/ RestoreFile \/ RestoreLocal \/ RestoreFragment \/ CopyFile \/ ReportLost
  \/ ListOrders \/ ClaimOrder \/ CompleteOrder
Environment ==
  CreateDeal \/ EndDeal \/ OtherReports \/ StoreFile \/ LateReport \/ OthersOrder \/ DiskLoss
Next == PutStep \/ GetStep \/ ReportStep \/ RestoreStep \/ Environment \/ Crash

Spec == Init /\ [][Next]_vars

\* Node.Start starts ReportFiles again and again, and goroutines run.
FairSpec == Spec /\ WF_vars(ReportStep)
-----------------------------------------------------------------------------
(* Properties. *)

Held(f, g) == rep[f][g] = "good" \/ fil[f][g] = "good"
Answerable(f, g) ==
  \/ f \in deal /\ \E i \in Index : comp[f][i] = "me" /\ g \in Column[f][i]
  \/ f \in stored /\ g \in mine[f]

\* A fragment the chain holds this miner to, by its report or by the file's
\* metadata, is on disk, whatever uploads, RemoveAll, moves, copies and crashes
\* happen meanwhile, unless one of the accidents in `cause' has happened to it: it
\* was damaged, checkfile ran into the deal becoming a file, a late report reached a
\* new deal, or restoreFragment was cut short, found nothing to copy, or copied over
\* a fragment that checkfile had just moved in.
KeptWhileAssigned ==
  \A f \in Fid, g \in Frag :
    Answerable(f, g) => Held(f, g) \/ <<f, g>> \in cause
                        \/ (rs.pc = "copy" /\ rs.f = f /\ rs.g = g)

\* getfragment answers 404 for a fragment that was on disk throughout only if
\* checkfile moved it from one directory to the other between the two looks.
FoundUnlessMoved == get.pc = "missed" => get.moved \/ get.gone

\* A deal all of whose fragments for a free index are in the report directory gets
\* this miner's report, unless it ends or the index goes to another.
ReportMade ==
  \A f \in Fid :
    f \in deal /\ ~Reported(f) /\ SucIndex(f) # {}
      ~> f \notin deal \/ Reported(f) \/ SucIndex(f) = {}

\* The fragments of a stored file end up in the file directory, where challenges look
\* for them, also when a crash has left part of them behind.
MovedIn ==
  \A f \in Fid :
    (\E g \in mine[f] : f \in stored /\ rep[f][g] # "none")
      ~> (\A g \in mine[f] : fil[f][g] # "none") \/ \E x \in cause : x[1] = f
-----------------------------------------------------------------------------
(* The inductive invariant behind FoundUnlessMoved: until the answer, a fragment that *)
(* has not gone is in one of the directories, and after the first look it is in the  *)
(* report directory unless it was moved.                                             *)

Matrix(m) == m = [f \in Fid |-> [g \in Frag |-> m[f][g]]]
OnDisk(f, g) == fil[f][g] # "none" \/ rep[f][g] # "none"
GetInv ==
  /\ get.pc \in {"file", "report"} /\ ~get.gone => OnDisk(get.f, get.g)
  /\ get.pc = "report" /\ ~get.gone /\ ~get.moved => rep[get.f][get.g] # "none"
IInv == Matrix(rep) /\ Matrix(fil) /\ get \in Getter /\ GetInv /\ FoundUnlessMoved
-----------------------------------------------------------------------------
(* The inductive invariant behind KeptWhileAssigned.                                 *)

Filed(f, g) == \/ fil[f][g] = "good" \/ <<f, g>> \in cause
               \/ rs.pc = "copy" /\ rs.f = f /\ rs.g = g
Kept(f, g) == rep[f][g] = "good" \/ Filed(f, g)

\* A file is a deal or stored, and only stored files have fragments in the file
\* directory, orders and a restore.
StoredInv ==
  /\ deal \cap stored = {}
  /\ \A f \in Fid : f \notin deal => ~Reported(f)
  /\ \A f \in Fid : f \notin stored => \A g \in Frag : fil[f][g] = "none"
  /\ \A g \in Frag : order[g].st # "none" => order[g].f \in stored
  /\ rs.pc \in {"local", "lost", "restore", "copy", "complete"} => rs.f \in stored
  /\ rp.pc \in {"mkdir", "move"} => rp.f \in stored

\* What a report still on its way will promise is kept, and RemoveAll meets no report
\* other than a late one.
SentInv ==
  /\ rp.pc = "send" => \A i \in rp.idx : \A g \in Column[rp.f][i] : rep[rp.f][g] = "good"
  /\ \A f \in deal, i \in Index : <<f, i>> \in late => \A g \in Column[f][i] : Kept(f, g)
  /\ rp.pc = "remove" /\ rp.f \in deal
     /\ (Reported(rp.f) \/ \E i \in Index : <<rp.f, i>> \in late) =>
       \A g \in Frag : <<rp.f, g>> \in cause

\* What checkfile passed over or has moved, and what an order was completed for, is in
\* the file directory.
FiledInv ==
  /\ \A f \in stored : \A g \in mine[f] : fil[f][g] = "short" => Filed(f, g)
  /\ rp.pc \in {"deal", "mkdir", "move", "remove"} /\ rp.f \in stored =>
       \A g \in mine[rp.f] : (rp.pc \in {"mkdir", "move"} /\ g \in rp.todo) \/ Filed(rp.f, g)
  /\ rs.pc = "complete" => Filed(rs.f, rs.g)

\* There is an index to report as long as reportfile is sending.
TypeInv == TypeOK /\ (rp.pc = "send" => rp.idx # {})

KeptInv == TypeInv /\ StoredInv /\ SentInv /\ FiledInv /\ KeptWhileAssigned
=============================================================================
