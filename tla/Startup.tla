------------------------------ MODULE Startup ------------------------------
(***************************************************************************)
(* How a miner process comes up, and the commands an operator may give     *)
(* beside it: the two ways of building a configuration (cmd/console        *)
(* start.go and run.go, pkg/confile), InitNode with checkMiner,            *)
(* registerPoisKey and updateMinerRegistertionInfo (node/init.go), the     *)
(* status synchronisation of the running process (node/chainsync.go) and   *)
(* the other console commands.                                             *)
(*                                                                         *)
(* A start reads the miner's registration once (oldRegInfo, here           *)
(* proc.info) and acts on that copy in every later step, while commands    *)
(* and extrinsics of earlier starts change the chain.  An extrinsic can    *)
(* fail for its sender and reach a block afterwards (the set late).        *)
(*                                                                         *)
(* Space is counted in 1/Unit of a TiB, tokens in the stake of one TiB.    *)
(* The workspace is the set of registrations (by number) whose files it    *)
(* holds.                                                                  *)
(***************************************************************************)
EXTENDS Naturals, FiniteSets

CONSTANTS Tee,           \* the TEE workers on the chain
          Account,       \* valid earnings accounts
          NoAccount,     \* the empty account
          Endpoint,      \* service endpoints, NoEndpoint among them
          NoEndpoint,    \* the empty endpoint
          Input,         \* what an operator may configure
          Unit,          \* parts of a TiB
          Decl0,         \* spaces an earlier registration may have declared
          Balance,       \* initial balance of the signature account
          MaxKeys,       \* bound: keys handed out by TEEs
          MaxFaults,     \* bound: failing calls and crashes
          MaxCommands    \* bound: console commands

NoKey == 0

ASSUME ConstantsAssumption ==
    /\ Unit \in Nat \ {0} /\ Balance \in Nat
    /\ MaxKeys \in Nat /\ MaxFaults \in Nat /\ MaxCommands \in Nat
    /\ Decl0 \subseteq Nat /\ NoEndpoint \in Endpoint /\ NoAccount \notin Account
    /\ Input \subseteq [way : {"start", "run"}, space : Nat, port : Nat,
                        earnings : Account \cup {NoAccount}, endpoint : Endpoint,
                        assigned : BOOLEAN, tees : SUBSET Tee]

VARIABLES chain,    \* the miner's registration and accounts
          late,     \* extrinsics that failed for the sender and may yet land
          proc,     \* the miner process
          ws,       \* registrations the workspace holds files of
          nkey,     \* keys handed out so far
          faults, commands,
          lost,     \* history: keys given up before the chain's answer was known
          kept,     \* history: files an interrupted clean-up left
          spare,    \* history: collateral that no declaration followed
          changed   \* history: who else changed the registration since it was read

vars == <<chain, late, proc, ws, nkey, faults, commands, lost, kept, spare, changed>>
history == <<lost, kept, spare, changed>>

Cases == {"Unregistered", "UnregisteredPoisKey", "Registered"}

Pcs == {"off", "boot", "tees", "query", "register", "clean", "build", "list", "ask",
        "send", "verify", "expand", "space", "earnings", "endpoint", "podr2", "init", "ready"}

Extrinsic == [call : {"Regnstk", "PoisKey", "Collateral", "Space", "Beneficiary", "Endpoint"},
              n : Nat, by : {"sign", "stake"}, earnings : Account, endpoint : Endpoint]

Off == [pc |-> "off"]

(***************************************************************************)
(* The chain.  An extrinsic is refused unless Valid; Effect is the         *)
(* registration once it is in a block.                                     *)
(***************************************************************************)
Valid(x) ==
    \/ x.call = "Regnstk" /\ ~chain.reg /\ x.n <= chain.bal[x.by]
    \/ x.call = "PoisKey" /\ chain.reg /\ chain.key = NoKey
    \/ x.call = "Collateral" /\ chain.reg /\ x.n <= chain.bal["sign"]
    \/ x.call \in {"Space", "Beneficiary", "Endpoint"} /\ chain.reg

Effect(x) ==
    CASE x.call = "Regnstk" ->
           [chain EXCEPT !.reg = TRUE, !.state = "positive", !.decl = x.n * Unit, !.stake = x.n,
                         !.by = x.by, !.bal[x.by] = @ - x.n, !.earnings = x.earnings,
                         !.endpoint = x.endpoint, !.gen = @ + 1]
      [] x.call = "PoisKey" -> [chain EXCEPT !.key = x.n]
      [] x.call = "Collateral" -> [chain EXCEPT !.stake = @ + x.n, !.bal["sign"] = @ - x.n]
      [] x.call = "Space" -> [chain EXCEPT !.decl = @ + x.n * Unit]
      [] x.call = "Beneficiary" -> [chain EXCEPT !.earnings = x.earnings]
      [] x.call = "Endpoint" -> [chain EXCEPT !.endpoint = x.endpoint]

Call(c, n) == [call |-> c, n |-> n, by |-> IF proc.cfg.assigned THEN "stake" ELSE "sign",
               earnings |-> proc.cfg.earnings, endpoint |-> proc.cfg.endpoint]

(* The extrinsic is in a block and its sender saw it there. *)
Sent(x) == /\ Valid(x)
           /\ chain' = Effect(x)
           /\ UNCHANGED <<late, faults>>

(* The sender gets an error: the chain refused the extrinsic, or it was    *)
(* never sent, or it is still on its way.                                  *)
Fails(x) == /\ UNCHANGED chain
            /\ \/ ~Valid(x) /\ UNCHANGED <<late, faults>>
               \/ /\ faults < MaxFaults /\ faults' = faults + 1
                  /\ late' \in {late, late \cup {x}}

Answered == UNCHANGED <<chain, late, faults>>

CallFails == /\ faults < MaxFaults
             /\ faults' = faults + 1
             /\ UNCHANGED <<chain, late>>

(***************************************************************************)
(* Sizes.  useSpace is rounded up to TiB; of a declared space that is not  *)
(* a whole number of TiB, olddecspace becomes 1 (init.go:445).             *)
(***************************************************************************)
NewTib == (proc.cfg.space + Unit - 1) \div Unit

OldTib == IF proc.info.decl % Unit # 0 THEN 1 ELSE proc.info.decl \div Unit

Growth == IF NewTib > OldTib THEN NewTib - OldTib ELSE 0

(* Collateral this start has paid for space it has yet to declare. *)
Inflight == IF proc.pc = "space" /\ ~proc.cfg.assigned THEN Growth ELSE 0

Goto(pc) == proc' = [proc EXCEPT !.pc = pc]

(* The process ends: an error of InitNode (os.Exit), a panic or a crash.   *)
(* The history variables note what it leaves half done.                    *)
Stop == /\ proc' = Off
        /\ spare' = spare + Inflight
        /\ kept' = IF proc.pc = "clean" THEN kept \cup ws ELSE kept
        /\ lost' = IF proc.pc \in {"send", "verify"} THEN lost \cup {proc.key} ELSE lost
        /\ UNCHANGED changed

Init ==
    \E reg \in BOOLEAN, decl \in Decl0, earnings \in Account, endpoint \in Endpoint :
      LET tib == (decl + Unit - 1) \div Unit IN
      /\ chain = [reg |-> reg, state |-> "positive", key |-> IF reg THEN 1 ELSE NoKey,
                  decl |-> IF reg THEN decl ELSE 0, stake |-> IF reg THEN tib ELSE 0,
                  earnings |-> earnings, endpoint |-> endpoint, gen |-> IF reg THEN 1 ELSE 0,
                  by |-> "sign", bal |-> [a \in {"sign", "stake"} |-> Balance]]
      /\ endpoint # NoEndpoint
      /\ late = {} /\ proc = Off /\ faults = 0 /\ commands = 0
      /\ ws = IF reg THEN {1} ELSE {}
      /\ nkey = IF reg THEN 1 ELSE 0
      /\ lost = {} /\ kept = {} /\ spare = 0 /\ changed = {}

-----------------------------------------------------------------------------
(***************************************************************************)
(* Configuration: `start` asks for every item, `run` reads a file.         *)
(***************************************************************************)
(* The prompt says that Enter skips the account, but it asks until the     *)
(* account is a valid one.                                                 *)
StartEarnings(in) == in.earnings \in Account

(* The number entered is converted to 16 bits; the prompt asks again for   *)
(* one below 1024.                                                         *)
StartPort(in) == in.port % 65536

(* The endpoint may be skipped, and there is no item for a staking account.*)
buildConfigItems(in) ==
    /\ in.way = "start"
    /\ StartEarnings(in)
    /\ StartPort(in) >= 1024
    /\ ~in.assigned
    /\ proc' = [pc |-> "boot", cfg |-> [in EXCEPT !.port = StartPort(in)]]

(* The file must name an endpoint, an account and a port of 16 bits. *)
Parse(in) ==
    /\ in.way = "run"
    /\ in.endpoint # NoEndpoint
    /\ in.port >= 1024 /\ in.port < 65536
    /\ in.earnings \in Account
    /\ proc' = [pc |-> "boot", cfg |-> in]

Configure ==
    /\ proc.pc = "off"
    /\ \E in \in Input : buildConfigItems(in) \/ Parse(in)
    /\ UNCHANGED <<chain, late, ws, nkey, faults, commands, history>>

(* Port, connection, synchronisation, metadata and expenders. *)
InitChainClient ==
    /\ proc.pc = "boot"
    /\ \/ Answered /\ Goto("tees") /\ UNCHANGED history
       \/ CallFails /\ Stop
    /\ UNCHANGED <<ws, nkey, commands>>

(* Of the configured TEEs, those the chain answers for are recorded; a     *)
(* list of which none is left ends the process.                            *)
checkConfiguredTees ==
    /\ proc.pc = "tees"
    /\ \E valid \in SUBSET proc.cfg.tees :
         /\ IF valid = proc.cfg.tees THEN Answered ELSE CallFails
         /\ IF valid = {} /\ proc.cfg.tees # {}
              THEN Stop
              ELSE proc' = [pc |-> "query", cfg |-> proc.cfg, tees |-> valid] /\ UNCHANGED history
    /\ UNCHANGED <<ws, nkey, commands>>

(***************************************************************************)
(* checkMiner                                                              *)
(***************************************************************************)
Case == IF ~chain.reg THEN "Unregistered"
        ELSE IF chain.key = NoKey THEN "UnregisteredPoisKey" ELSE "Registered"

(* Before registering, the paying account must hold the stake. *)
Affords == NewTib <= chain.bal[IF proc.cfg.assigned THEN "stake" ELSE "sign"]

Read(case) == [pc |-> IF case = "Unregistered" THEN "register" ELSE "build",
               cfg |-> proc.cfg, tees |-> proc.tees, case |-> case, info |-> chain,
               key |-> NoKey, todo |-> {}, tries |-> 0, st |-> "none", gen |-> 0]

checkRegistrationInfo ==
    /\ proc.pc = "query"
    /\ \/ /\ Answered
          /\ Case = "Unregistered" => Affords
          /\ proc' = Read(Case)
          /\ changed' = {}
          /\ UNCHANGED <<lost, kept, spare>>
       \/ Answered /\ Case = "Unregistered" /\ ~Affords /\ Stop
       \/ CallFails /\ Stop
    /\ UNCHANGED <<ws, nkey, commands>>

registerMiner ==
    /\ proc.pc = "register"
    /\ LET x == Call("Regnstk", NewTib) IN
       \/ Sent(x) /\ Goto("clean") /\ UNCHANGED history
       \/ Fails(x) /\ Stop
    /\ UNCHANGED <<ws, nkey, commands>>

(* Fault variant: the workspace is only completed, as for a registered miner. *)
RemoveAndBuildKeeps ==
    /\ proc.pc = "clean"
    /\ \/ Answered /\ UNCHANGED ws /\ Goto("list") /\ UNCHANGED history
       \/ CallFails /\ Stop /\ ws' \in SUBSET ws
    /\ UNCHANGED <<nkey, commands>>

(* The directories are removed one after the other up to the first         *)
(* failure.                                                                *)
RemoveAndBuild ==
    /\ proc.pc = "clean"
    /\ \/ Answered /\ ws' = {} /\ Goto("list") /\ UNCHANGED history
       \/ CallFails /\ Stop /\ ws' \in SUBSET ws
    /\ UNCHANGED <<nkey, commands>>

Build ==
    /\ proc.pc = "build"
    /\ \/ Answered /\ UNCHANGED history
          /\ Goto(IF proc.case = "Registered" THEN "expand" ELSE "list")
       \/ CallFails /\ Stop
    /\ UNCHANGED <<ws, nkey, commands>>

(***************************************************************************)
(* registerPoisKey                                                         *)
(***************************************************************************)
(* An empty record is filled with the TEEs of the chain that prove their   *)
(* identity (checkTee); an empty chain list is asked for again.            *)
ListTees ==
    /\ proc.pc = "list"
    /\ \/ \E ok \in SUBSET Tee :
            /\ IF proc.tees # {} THEN ok = proc.tees /\ Answered
               ELSE IF ok = Tee THEN Answered ELSE CallFails
            /\ proc' = [proc EXCEPT !.pc = "ask", !.tees = ok, !.todo = ok]
            /\ UNCHANGED history
       \/ CallFails /\ proc.tees = {} /\ Stop
    /\ UNCHANGED <<ws, nkey, commands>>

(* A TEE hands out a new key, or is given up after its attempts; with no   *)
(* TEE left the start fails.                                               *)
AskTee ==
    /\ proc.pc = "ask"
    /\ \/ \E t \in proc.todo :
            \/ /\ nkey < MaxKeys /\ nkey' = nkey + 1
               /\ proc' = [proc EXCEPT !.pc = "send", !.key = nkey + 1, !.tries = 3,
                                       !.todo = @ \ {t}]
               /\ Answered
            \/ /\ CallFails
               /\ proc' = [proc EXCEPT !.todo = @ \ {t}]
               /\ UNCHANGED nkey
          /\ UNCHANGED history
       \/ proc.todo = {} /\ Answered /\ Stop /\ UNCHANGED nkey
    /\ UNCHANGED <<ws, commands>>

(* The key the process uses is settled. *)
Keyed == proc' = [proc EXCEPT !.pc = IF proc.case = "Unregistered" THEN "init" ELSE "expand",
                              !.gen = chain.gen]

NextTee == /\ Goto("ask")
           /\ lost' = lost \cup {proc.key}
           /\ UNCHANGED <<kept, spare, changed>>

RegisterPoisKey ==
    /\ proc.pc = "send"
    /\ LET x == Call("PoisKey", proc.key) IN
       \/ Sent(x) /\ Keyed
       \/ Fails(x) /\ Goto("verify")
    /\ UNCHANGED <<ws, nkey, commands, history>>

(* Fault variant: a failing query counts as an answer. *)
VerifyPoisKeyTrusts ==
    /\ proc.pc = "verify"
    /\ \/ chain.key # NoKey /\ Answered /\ Keyed /\ UNCHANGED history
       \/ CallFails /\ Keyed /\ UNCHANGED history
    /\ UNCHANGED <<ws, nkey, commands>>

(* After an error registerMinerPoisKey looks whether the miner has space   *)
(* proof information by now, whatever its key.                             *)
VerifyPoisKey ==
    /\ proc.pc = "verify"
    /\ \/ chain.key # NoKey /\ Answered /\ Keyed /\ UNCHANGED history
       \/ /\ chain.key = NoKey /\ proc.tries > 1 /\ Answered
          /\ proc' = [proc EXCEPT !.pc = "send", !.tries = @ - 1]
          /\ UNCHANGED history
       \/ chain.key = NoKey /\ proc.tries = 1 /\ Answered /\ NextTee
       \/ CallFails /\ NextTee
    /\ UNCHANGED <<ws, nkey, commands>>

(***************************************************************************)
(* updateMinerRegistertionInfo                                             *)
(***************************************************************************)
(* Fault variant: the stake of the whole space is paid. *)
IncreaseCollateralWhole ==
    /\ proc.pc = "expand"
    /\ LET x == Call("Collateral", NewTib) IN
       \/ Growth = 0 /\ Answered /\ Goto("earnings") /\ UNCHANGED history
       \/ Growth > 0 /\ Sent(x) /\ Goto("space") /\ UNCHANGED history
    /\ UNCHANGED <<ws, nkey, commands>>

(* The stake of the added space: paid by the signature account, or to be   *)
(* in place already when a staking account is assigned.                    *)
IncreaseCollateral ==
    /\ proc.pc = "expand"
    /\ LET x == Call("Collateral", Growth) IN
       \/ Growth = 0 /\ Answered /\ Goto("earnings") /\ UNCHANGED history
       \/ /\ Growth > 0 /\ proc.cfg.assigned /\ Answered
          /\ IF proc.info.stake < NewTib THEN Stop ELSE Goto("space") /\ UNCHANGED history
       \/ /\ Growth > 0 /\ ~proc.cfg.assigned
          /\ \/ Sent(x) /\ Goto("space") /\ UNCHANGED history
             \/ Fails(x) /\ Stop
    /\ UNCHANGED <<ws, nkey, commands>>

IncreaseDeclarationSpace ==
    /\ proc.pc = "space"
    /\ LET x == Call("Space", Growth) IN
       \/ Sent(x) /\ Goto("earnings") /\ UNCHANGED history
       \/ Fails(x) /\ Stop
    /\ UNCHANGED <<ws, nkey, commands>>

Updated == Goto(IF proc.case = "Registered" THEN "podr2" ELSE "init")

(* Fault variant: an unchanged earnings account ends the update. *)
UpdateBeneficiaryReturns ==
    /\ proc.pc = "earnings"
    /\ LET x == Call("Beneficiary", 0) IN
       \/ /\ proc.cfg.earnings = proc.info.earnings
          /\ Answered /\ Updated /\ UNCHANGED history
       \/ /\ proc.cfg.earnings # proc.info.earnings
          /\ Sent(x) /\ Goto("endpoint") /\ UNCHANGED history
    /\ UNCHANGED <<ws, nkey, commands>>

UpdateBeneficiary ==
    /\ proc.pc = "earnings"
    /\ LET x == Call("Beneficiary", 0) IN
       \/ /\ proc.cfg.earnings = proc.info.earnings
          /\ Answered /\ Goto("endpoint") /\ UNCHANGED history
       \/ /\ proc.cfg.earnings # proc.info.earnings
          /\ \/ Sent(x) /\ Goto("endpoint") /\ UNCHANGED history
             \/ Fails(x) /\ Stop
    /\ UNCHANGED <<ws, nkey, commands>>

UpdateSminerEndpoint ==
    /\ proc.pc = "endpoint"
    /\ LET x == Call("Endpoint", 0) IN
       \/ /\ proc.cfg.endpoint = proc.info.endpoint
          /\ Answered /\ Updated /\ UNCHANGED history
       \/ /\ proc.cfg.endpoint # proc.info.endpoint
          /\ \/ Sent(x) /\ Updated /\ UNCHANGED history
             \/ Fails(x) /\ Stop
    /\ UNCHANGED <<ws, nkey, commands>>

(* A registered miner takes its key from the registration it read, and the *)
(* PoDR2 key from the first TEE that gives it.                             *)
queryPodr2KeyFromTee ==
    /\ proc.pc = "podr2"
    /\ \/ \E t \in Tee :
            /\ proc.tees # {} => t \in proc.tees
            /\ proc' = [proc EXCEPT !.pc = "init", !.key = proc.info.key, !.gen = proc.info.gen,
                                    !.tees = @ \cup {t}]
          /\ Answered /\ UNCHANGED history
       \/ CallFails /\ Stop
    /\ UNCHANGED <<ws, nkey, commands>>

-----------------------------------------------------------------------------
(***************************************************************************)
(* The running process                                                     *)
(***************************************************************************)
(* The rest of InitNode: InitRunStatus takes the state that was read, of   *)
(* which a new miner has none; logs, cache and web server follow.          *)
InitNode ==
    /\ proc.pc = "init"
    /\ \/ /\ Answered
          /\ proc' = [proc EXCEPT !.pc = "ready",
                                  !.st = IF proc.case = "Unregistered" THEN @ ELSE proc.info.state]
          /\ UNCHANGED history
       \/ CallFails /\ Stop
    /\ UNCHANGED <<ws, nkey, commands>>

(* The state follows the chain's, EXIT when there is no registration, and  *)
(* never leaves EXIT.                                                      *)
syncMinerStatus ==
    /\ proc.pc = "ready" /\ proc.st # "exit"
    /\ proc' = [proc EXCEPT !.st = IF chain.reg THEN chain.state ELSE "exit"]
    /\ UNCHANGED <<chain, late, ws, nkey, faults, commands, history>>

(* Idle files and fragments are stored while the miner is positive. *)
StoreFiles ==
    /\ proc.pc = "ready" /\ proc.st = "positive"
    /\ ws' = ws \cup {proc.gen}
    /\ UNCHANGED <<chain, late, proc, nkey, faults, commands, history>>

Crash ==
    /\ proc.pc # "off"
    /\ CallFails /\ Stop
    /\ UNCHANGED <<ws, nkey, commands>>

(* An extrinsic whose sender saw an error reaches a block. *)
LateExtrinsic ==
    /\ \E x \in late :
         /\ late' = late \ {x}
         /\ IF ~Valid(x) THEN UNCHANGED <<chain, history>>
            ELSE /\ chain' = Effect(x)
                 /\ changed' = changed \cup {"late"}
                 /\ spare' = IF x.call = "Collateral" THEN spare + x.n ELSE spare
                 /\ kept' = IF x.call = "Regnstk" THEN kept \cup ws ELSE kept
                 /\ UNCHANGED lost
    /\ UNCHANGED <<proc, ws, nkey, faults, commands>>

-----------------------------------------------------------------------------
(***************************************************************************)
(* Console commands: processes of their own, each ending with one          *)
(* extrinsic.                                                              *)
(***************************************************************************)
Command(c, who) ==
    /\ commands < MaxCommands
    /\ commands' = commands + 1
    /\ chain' = c
    /\ changed' = changed \cup {who}
    /\ UNCHANGED <<late, proc, ws, nkey, faults, lost, kept>>

incstakingCmd ==
    /\ chain.reg /\ chain.bal["sign"] >= 1
    /\ Command([chain EXCEPT !.stake = @ + 1, !.bal["sign"] = @ - 1], "command")
    /\ spare' = spare + 1

(* The check compares the collateral with the stake of the added space     *)
(* only.                                                                   *)
incspaceCmd ==
    /\ chain.reg
    /\ chain.stake < 1 => chain.bal[chain.by] >= 1 - chain.stake
    /\ Command([chain EXCEPT !.decl = @ + Unit], "command")
    /\ UNCHANGED spare

updearningsCmd ==
    /\ chain.reg
    /\ \E a \in Account : Command([chain EXCEPT !.earnings = a], "command")
    /\ UNCHANGED spare

updendpointCmd ==
    /\ chain.reg
    /\ \E e \in Endpoint \ {NoEndpoint} : Command([chain EXCEPT !.endpoint = e], "command")
    /\ UNCHANGED spare

exitCmd ==
    /\ chain.reg /\ chain.state = "positive"
    /\ Command([chain EXCEPT !.state = "exit"], "command")
    /\ UNCHANGED spare

(* The collateral goes back and the registration is gone.  By then the     *)
(* extrinsics sent before the exit have landed or expired.                 *)
withdrawCmd ==
    /\ chain.reg /\ chain.state = "exit" /\ late = {}
    /\ Command([chain EXCEPT !.reg = FALSE, !.key = NoKey, !.decl = 0, !.stake = 0,
                             !.bal[chain.by] = @ + chain.stake], "withdraw")
    /\ spare' = 0

claimCmd ==
    /\ chain.reg
    /\ Command([chain EXCEPT !.bal["sign"] = @ + 1], "command")
    /\ UNCHANGED spare

-----------------------------------------------------------------------------
Next ==
    \/ Configure \/ InitChainClient \/ checkConfiguredTees \/ checkRegistrationInfo
    \/ registerMiner \/ RemoveAndBuild \/ Build
    \/ ListTees \/ AskTee \/ RegisterPoisKey \/ VerifyPoisKey
    \/ IncreaseCollateral \/ IncreaseDeclarationSpace \/ UpdateBeneficiary
    \/ UpdateSminerEndpoint \/ queryPodr2KeyFromTee
    \/ InitNode \/ syncMinerStatus \/ StoreFiles \/ Crash \/ LateExtrinsic
    \/ incstakingCmd \/ incspaceCmd \/ updearningsCmd \/ updendpointCmd
    \/ exitCmd \/ withdrawCmd \/ claimCmd

Spec == Init /\ [][Next]_vars

-----------------------------------------------------------------------------
(***************************************************************************)
(* Properties                                                              *)
(***************************************************************************)
Ready == proc.pc = "ready" /\ "withdraw" \notin changed

(* A running miner works with the key the chain holds for it              *)
(* (init.go:234-301, 325-336), except when the chain holds a key that was  *)
(* given up in the belief that its registration had failed: the            *)
(* acceptance of any key in registerMinerPoisKey (init.go:696) is right    *)
(* only for the key just sent.                                             *)
KeyAgrees == Ready => chain.reg /\ (proc.key = chain.key \/ chain.key \in lost)

(* No running miner has files of an earlier registration in its workspace  *)
(* (init.go:224), except those left when the start that registered it      *)
(* ended before RemoveAndBuild had (a later start only builds,             *)
(* init.go:263), or did not know that it had registered.                   *)
CleanStart == Ready => ws \subseteq {chain.gen} \cup kept

(* The larger of an old declaration and a space rounded up to TiB. *)
DeclaredBy(space, old) ==
    LET new == ((space + Unit - 1) \div Unit) * Unit IN IF old < new THEN new ELSE old

(* After a finished start the chain has the earnings account and endpoint  *)
(* of its configuration, if it names an endpoint, and declares exactly its *)
(* space, or the old one if that was larger (init.go:441-508), unless a    *)
(* command or a late extrinsic changed the registration since it was read. *)
(* The space is wrong where the old one was not a whole number of TiB      *)
(* (init.go:445).                                                          *)
AsConfigured ==
    proc.pc = "ready" /\ changed = {} =>
      /\ chain.earnings = proc.cfg.earnings
      /\ proc.cfg.endpoint # NoEndpoint => chain.endpoint = proc.cfg.endpoint
      /\ proc.case = "Unregistered" => chain.decl = DeclaredBy(proc.cfg.space, 0)
      /\ proc.case # "Unregistered" /\ proc.info.decl % Unit = 0 =>
           chain.decl = DeclaredBy(proc.cfg.space, proc.info.decl)

(* What the prompt of the start command says: a miner that is registered   *)
(* and skips the endpoint does not update it (start.go:325).               *)
SkippedEndpointKept ==
    proc.pc = "ready" /\ changed = {} /\ proc.case # "Unregistered"
      /\ proc.cfg.endpoint = NoEndpoint => chain.endpoint = proc.info.endpoint

(* Space is paid for once: collateral beyond the declared space is what    *)
(* the staking command added, what a start is about to declare, and what   *)
(* interrupted starts paid before they could declare (init.go:465-484).    *)
PaidOnce == chain.stake * Unit < chain.decl + (spare + Inflight + 1) * Unit

-----------------------------------------------------------------------------
(***************************************************************************)
(* The inductive invariant behind the properties, by position of the       *)
(* process.                                                                *)
(***************************************************************************)
Config == [way : {"start", "run"}, space : Nat, port : Nat, earnings : Account,
           endpoint : Endpoint, assigned : BOOLEAN, tees : SUBSET Tee]

Payer == {"sign", "stake"}
Balances == [Payer -> Nat]

Registration == [reg : BOOLEAN, state : {"positive", "exit"}, key : Nat, decl : Nat, stake : Nat,
                 earnings : Account, endpoint : Endpoint, gen : Nat, by : Payer,
                 bal : Balances]

(* The positions of a process that has read its registration. *)
Later == Pcs \ {"off", "boot", "tees", "query"}

Checked == [pc : Later, cfg : Config, tees : SUBSET Tee, case : Cases, info : Registration,
            key : Nat, todo : SUBSET Tee, tries : Nat, st : {"none", "positive", "exit"},
            gen : Nat]

Process == {Off} \cup [pc : {"boot", "tees"}, cfg : Config]
           \cup [pc : {"query"}, cfg : Config, tees : SUBSET Tee] \cup Checked

TypeOK ==
    /\ chain \in Registration /\ late \subseteq Extrinsic /\ proc \in Process
    /\ ws \subseteq Nat /\ nkey \in Nat
    /\ faults \in 0..MaxFaults /\ commands \in 0..MaxCommands
    /\ lost \subseteq Nat /\ kept \subseteq Nat /\ spare \in Nat
    /\ changed \subseteq {"late", "command", "withdraw"}

Updating == {"expand", "space", "earnings", "endpoint", "podr2"}
Keying == {"list", "ask", "send", "verify"}
Up == {"init", "ready"}

(* The three cases of checkMiner and the positions each passes through. *)
CaseInv ==
    /\ proc.pc \in {"register", "clean"} => proc.case = "Unregistered"
    /\ proc.pc \in {"build"} \cup Updating => proc.case # "Unregistered"
    /\ proc.pc \in Keying => proc.case # "Registered"
    /\ proc.pc = "podr2" => proc.case = "Registered"

(* A key still on its way has been given up, is the one being registered,  *)
(* or is too late.                                                         *)
LateKeys ==
    \A x \in late : x.call = "PoisKey" =>
      \/ x.n \in lost
      \/ proc.pc \in {"send", "verify"} /\ x.n = proc.key
      \/ chain.key # NoKey

KeyInv ==
    /\ ~chain.reg => chain.key = NoKey
    /\ LateKeys
    /\ proc.pc \in Later \ {"register"} /\ "withdraw" \notin changed => chain.reg
    /\ proc.pc \in {"send", "verify"} => proc.key # NoKey
    /\ proc.pc \in Later /\ proc.case = "Registered" =>
         /\ proc.info.key # NoKey
         /\ "withdraw" \notin changed => chain.key = proc.info.key
         /\ proc.pc \in Up => proc.key = proc.info.key
    /\ proc.pc \in {"register", "clean", "build"} \cup Keying /\ proc.case # "Registered" =>
         \/ chain.key = NoKey \/ chain.key \in lost
         \/ proc.pc \in {"send", "verify"} /\ chain.key = proc.key
    /\ proc.pc \in Updating \cup Up /\ proc.case # "Registered" /\ "withdraw" \notin changed =>
         chain.key # NoKey /\ (chain.key = proc.key \/ chain.key \in lost)

(* A registration that may yet land finds no process that would miss it:   *)
(* either there is one already or the process has not got past it.         *)
CleanInv ==
    /\ chain.reg /\ proc.pc # "clean" => ws \subseteq {chain.gen} \cup kept
    /\ proc.pc \in Later \ {"register"} => chain.reg \/ \A x \in late : x.call # "Regnstk"
    /\ proc.pc \in Later /\ proc.case # "Unregistered" /\ chain.reg => proc.info.gen = chain.gen
    /\ proc.pc \in Updating \cup Up /\ proc.case # "Registered" /\ chain.reg =>
         proc.gen = chain.gen
    /\ proc.pc \in Up /\ proc.case = "Registered" => proc.gen = proc.info.gen

(* What has been brought in line with the configuration so far. *)
ConfInv ==
    changed = {} /\ proc.pc \in Later \ {"register"} =>
      IF proc.case = "Unregistered"
      THEN /\ chain.earnings = proc.cfg.earnings /\ chain.endpoint = proc.cfg.endpoint
           /\ chain.decl = DeclaredBy(proc.cfg.space, 0)
      ELSE /\ chain.earnings = IF proc.pc \in {"endpoint", "podr2"} \cup Up
                               THEN proc.cfg.earnings ELSE proc.info.earnings
           /\ chain.endpoint = IF proc.pc \in {"podr2"} \cup Up
                               THEN proc.cfg.endpoint ELSE proc.info.endpoint
           /\ IF proc.pc \in {"earnings", "endpoint", "podr2"} \cup Up
              THEN proc.info.decl % Unit = 0 =>
                     chain.decl = DeclaredBy(proc.cfg.space, proc.info.decl)
              ELSE chain.decl = proc.info.decl

IInv == TypeOK /\ CaseInv /\ KeyInv /\ CleanInv /\ ConfInv /\ PaidOnce
=============================================================================
