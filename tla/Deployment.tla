----------------------------- MODULE Deployment -----------------------------
(***************************************************************************)
(* The deployment script, scripts/deploy/base, and the contracts it makes. *)
(*                                                                         *)
(* The script works through its tasks with one transaction each, and       *)
(* remembers in `storage` what it need not do again.  A call may fail      *)
(* without effect, or take effect and lose its reply: both throw, which    *)
(* ends the run and saves `storage` to a file.  The process may also be    *)
(* killed, which saves nothing.  Somebody then runs the script again.      *)
(*                                                                         *)
(* Of the smoke tests at the end, the contracts see an account of the      *)
(* deployer in lending, in coins of the base asset.  Its market, if it is  *)
(* opened, allows deposits and borrowing; interest, less than a coin in    *)
(* the time that the tests take, is left out.                              *)
(***************************************************************************)
EXTENDS Naturals, Sequences, FiniteSets, Storage

CONSTANTS
    Assets,         \* config.assets: a sequence of denoms
    OracleConfigs,  \* config.oracleConfigs: a sequence of denoms
    BaseAsset,      \* config.baseAssetDenom
    MaxLtv,         \* the base asset's max LTV and liquidation threshold, in
    LiqThreshold,   \* tenths
    RunTests,       \* config.runTests
    Multisig,       \* config.multisigAddr, or None when it is not given
    None,
    Losable,        \* the kinds of tasks whose reply may be lost, and "crash"
                    \* if the process may be killed
    MaxFaults       \* bound on failed calls, lost replies and crashes

VARIABLES
    chain,          \* the contracts there are, in the order of instantiation
    storage,        \* Deployer.storage, in memory
    file,           \* its copy on disk
    pc,             \* the task at hand; 0 when the script does not run
    faults

vars == <<chain, storage, file, pc, faults>>

ContractName == {"address-provider", "lending", "oracle"}

SmokeTest == {"deposit", "borrow", "repay", "withdraw"}

AddressType == {"oracle", "lending", "fee_collector", "safety_fund", "protocol_admin"}

ElementsOf(seq) == {seq[i] : i \in DOMAIN seq}

ASSUME DeploymentAssumption ==
    /\ Assets \in Seq(ElementsOf(Assets))
    /\ OracleConfigs \in Seq(ElementsOf(OracleConfigs))
    /\ MaxLtv \in 0 .. 10
    /\ LiqThreshold \in 0 .. 10
    /\ RunTests \in BOOLEAN
    /\ MaxFaults \in Nat

Tasks(kind, names) == [i \in DOMAIN names |-> [kind |-> kind, name |-> names[i]]]

SmokeTests ==
    IF RunTests THEN Tasks("smoke_test", <<"deposit", "borrow", "repay", "withdraw">>)
    ELSE <<>>

\* The contracts are named in the code's order; three of them are never
\* instantiated.
Handover ==
    IF Multisig = None THEN <<>>
    ELSE Tasks("handover", <<"incentives", "lending", "oracle", "rewards-collector",
                             "swapper", "address-provider">>)

\* taskRunner
Script ==
    Tasks("upload", <<"lending", "address-provider", "oracle">>)
        \o Tasks("instantiate", <<"address-provider", "lending", "oracle">>)
        \o Tasks("set_address", <<"oracle", "lending", "fee_collector", "safety_fund",
                                  "protocol_admin">>)
        \o Tasks("init_asset", Assets)
        \o Tasks("set_price_source", OracleConfigs)
        \o (SmokeTests \o Handover)

Done == Len(Script) + 1

Task == Script[pc]

EmptyStorage ==
    [codeIds |-> {}, addresses |-> EmptyMap, addressProviderUpdated |-> {},
     assetsInitialized |-> {}]

Init ==
    /\ chain = <<>>
    /\ storage = EmptyStorage
    /\ file = EmptyStorage
    /\ pc = 0
    /\ faults = 0

-----------------------------------------------------------------------------

Contract(name) == storage.addresses[name]

\* Mutant: contracts are instantiated whatever the file says.
MarkedExceptContracts(task) ==
    CASE task.kind = "upload" -> task.name \in storage.codeIds
      [] task.kind = "set_address" -> task.name \in storage.addressProviderUpdated
      [] task.kind = "init_asset" -> task.name \in storage.assetsInitialized
      [] OTHER -> FALSE

\* Mutant: markets are opened whatever the file says.
MarkedExceptAssets(task) ==
    CASE task.kind = "upload" -> task.name \in storage.codeIds
      [] task.kind = "instantiate" -> task.name \in DOMAIN storage.addresses
      [] task.kind = "set_address" -> task.name \in storage.addressProviderUpdated
      [] OTHER -> FALSE

\* The script skips the task.
Marked(task) ==
    CASE task.kind = "upload" -> task.name \in storage.codeIds
      [] task.kind = "instantiate" -> task.name \in DOMAIN storage.addresses
      [] task.kind = "set_address" -> task.name \in storage.addressProviderUpdated
      [] task.kind = "init_asset" -> task.name \in storage.assetsInitialized
      [] OTHER -> FALSE

\* 10 coins are deposited, 1 is borrowed, 2 are sent to repay it, and 10
\* withdrawn, as the market, the oracle and the deployer's health allow.  Coins
\* and loans that a failed run left are still there.
TestAccepted(test) ==
    LET lending == chain[Contract("lending")]
    IN  CASE test = "deposit" -> BaseAsset \in lending.markets
          [] test = "borrow" ->
                /\ BaseAsset \in lending.markets
                /\ BaseAsset \in chain[Contract("oracle")].price_sources
                /\ 10 * (lending.borrowed + 1) <= MaxLtv * lending.deposited
          [] test = "repay" -> lending.borrowed > 0
          [] test = "withdraw" ->
                /\ lending.deposited >= 10
                /\ 10 * lending.borrowed <= LiqThreshold * (lending.deposited - 10)

\* The lending contract after an accepted test; what is paid over the debt is
\* sent back.
Tested(lending, test) ==
    CASE test = "deposit" -> [lending EXCEPT !.deposited = @ + 10]
      [] test = "borrow" -> [lending EXCEPT !.borrowed = @ + 1]
      [] test = "repay" -> [lending EXCEPT !.borrowed = IF @ < 2 THEN 0 ELSE @ - 2]
      [] test = "withdraw" -> [lending EXCEPT !.deposited = @ - 10]

\* The call can be made and the contract accepts it: a market is not opened
\* twice; a contract that was not uploaded, or has no address, is not called.
Accepted(task) ==
    CASE task.kind = "instantiate" -> task.name \in storage.codeIds
      [] task.kind = "init_asset" -> task.name \notin chain[Contract("lending")].markets
      [] task.kind = "smoke_test" -> TestAccepted(task.name)
      [] task.kind = "handover" -> task.name \in DOMAIN storage.addresses
      [] OTHER -> TRUE

NewContract(name) ==
    [name |-> name,
     address_provider |-> IF name = "lending" THEN Contract("address-provider") ELSE 0,
     addresses |-> EmptyMap, markets |-> {}, price_sources |-> {}, proposed |-> None,
     deposited |-> 0, borrowed |-> 0]

\* Addresses of contracts are those in storage; the others come from the
\* configuration and stand for themselves.
AddressOf(type) == IF type \in ContractName THEN Contract(type) ELSE type

\* What an accepted call does on the chain.
Effect(task) ==
    CASE task.kind = "instantiate" -> Append(chain, NewContract(task.name))
      [] task.kind = "set_address" ->
            [chain EXCEPT ![Contract("address-provider")].addresses =
                Save(@, task.name, AddressOf(task.name))]
      [] task.kind = "init_asset" ->
            [chain EXCEPT ![Contract("lending")].markets = @ \cup {task.name}]
      [] task.kind = "set_price_source" ->
            [chain EXCEPT ![Contract("oracle")].price_sources = @ \cup {task.name}]
      [] task.kind = "smoke_test" ->
            [chain EXCEPT ![Contract("lending")] = Tested(@, task.name)]
      [] task.kind = "handover" ->
            [chain EXCEPT ![Contract(task.name)].proposed = Multisig]
      [] OTHER -> chain

\* Mutant: the address of the contract instantiated before is stored.
RememberedOneOff(task) ==
    CASE task.kind = "upload" -> [storage EXCEPT !.codeIds = @ \cup {task.name}]
      [] task.kind = "instantiate" ->
            [storage EXCEPT !.addresses = Save(@, task.name, Len(chain))]
      [] task.kind = "set_address" ->
            [storage EXCEPT !.addressProviderUpdated = @ \cup {task.name}]
      [] OTHER -> storage

\* What the script remembers of a call that returned.
Remembered(task) ==
    CASE task.kind = "upload" -> [storage EXCEPT !.codeIds = @ \cup {task.name}]
      [] task.kind = "instantiate" ->
            [storage EXCEPT !.addresses = Save(@, task.name, Len(chain) + 1)]
      [] task.kind = "set_address" ->
            [storage EXCEPT !.addressProviderUpdated = @ \cup {task.name}]
      [] task.kind = "init_asset" ->
            [storage EXCEPT !.assetsInitialized = @ \cup {task.name}]
      [] OTHER -> storage

Running == 0 < pc /\ pc < Done

\* upload and executeDeposit catch their own errors.
Catches(task) == task.kind = "upload" \/ task = [kind |-> "smoke_test", name |-> "deposit"]

\* Mutant: a task is remembered before its call is made.
ThrowRemembered(task) ==
    /\ storage' = Remembered(task)
    /\ IF Catches(task)
       THEN pc' = pc + 1 /\ UNCHANGED file
       ELSE pc' = 0 /\ file' = Remembered(task)

\* An error that is not caught ends the run, and the storage is saved.
Throw(task) ==
    /\ UNCHANGED storage
    /\ IF Catches(task)
       THEN pc' = pc + 1 /\ UNCHANGED file
       ELSE pc' = 0 /\ file' = storage

Skip ==
    /\ Running
    /\ Marked(Task)
    /\ pc' = pc + 1
    /\ UNCHANGED <<chain, storage, file, faults>>

Succeed ==
    /\ Running
    /\ ~Marked(Task)
    /\ Accepted(Task)
    /\ chain' = Effect(Task)
    /\ storage' = Remembered(Task)
    /\ pc' = pc + 1
    /\ UNCHANGED <<file, faults>>

\* Whenever it is tried again, the answer is the same.
Refused ==
    /\ Running
    /\ ~Marked(Task)
    /\ ~Accepted(Task)
    /\ Throw(Task)
    /\ UNCHANGED <<chain, faults>>

\* The node does not answer, gas runs out, or the price that setOracle asks for
\* next is not there: without effect, or with it.
Fail ==
    /\ Running
    /\ ~Marked(Task)
    /\ faults < MaxFaults
    /\ Throw(Task)
    /\ \/ UNCHANGED chain
       \/ /\ Task.kind \in Losable
          /\ Accepted(Task)
          /\ chain' = Effect(Task)
    /\ faults' = faults + 1

\* The process is killed.
Crash ==
    /\ Running
    /\ faults < MaxFaults
    /\ "crash" \in Losable
    /\ pc' = 0
    /\ storage' = EmptyStorage
    /\ faults' = faults + 1
    /\ UNCHANGED <<chain, file>>

\* The script is run (again): setupDeployer loads the file.
Start ==
    /\ pc = 0
    /\ storage' = file
    /\ pc' = 1
    /\ UNCHANGED <<chain, file, faults>>

\* The last task is done: the storage is saved.
Finish ==
    /\ pc = Done
    /\ file # storage
    /\ file' = storage
    /\ UNCHANGED <<chain, storage, pc, faults>>

Next == Skip \/ Succeed \/ Refused \/ Fail \/ Crash \/ Start \/ Finish

Spec == Init /\ [][Next]_vars

\* The process runs when it is not killed, and whoever deploys runs it again.
FairSpec == Spec /\ WF_vars(Skip \/ Succeed \/ Refused \/ Finish) /\ WF_vars(Start)

-----------------------------------------------------------------------------

DeploymentTypeOK ==
    /\ pc \in 0 .. Done
    /\ \A s \in {storage, file} :
        /\ s.codeIds \subseteq ContractName
        /\ DOMAIN s.addresses \subseteq ContractName
        /\ \A name \in DOMAIN s.addresses :
            /\ s.addresses[name] \in DOMAIN chain
            /\ chain[s.addresses[name]].name = name
        /\ s.addressProviderUpdated \subseteq AddressType
        /\ s.assetsInitialized \subseteq ElementsOf(Assets)
    /\ faults \in 0 .. MaxFaults

Made(s, name) == name \in DOMAIN s.addresses /\ s.addresses[name] \in DOMAIN chain

\* What the script remembers as done, in memory and in the file, is done on the
\* very contracts that it remembers and will use: no failed call, lost reply or
\* crash, at any task, makes a later run skip what the contracts in use do not
\* have.
MarksAreTrue ==
    \A s \in {storage, file} :
        /\ \A type \in s.addressProviderUpdated :
            /\ Made(s, "address-provider")
            /\ LET addresses == chain[s.addresses["address-provider"]].addresses
               IN  /\ type \in DOMAIN addresses
                   /\ type \in ContractName =>
                        Made(s, type) /\ addresses[type] = s.addresses[type]
        /\ \A d \in s.assetsInitialized :
            Made(s, "lending") /\ d \in chain[s.addresses["lending"]].markets

\* When the script ends by itself, the system is wired together, however many
\* runs it took: lending knows the address provider, which knows lending and the
\* oracle, all of them the contracts whose addresses are published, and every
\* asset has its market and its price source.
DoneMeansWired ==
    pc = Done =>
        LET provider == chain[Contract("address-provider")]
            lending  == chain[Contract("lending")]
            oracle   == chain[Contract("oracle")]
        IN  /\ lending.address_provider = Contract("address-provider")
            /\ AddressType \subseteq DOMAIN provider.addresses
            /\ provider.addresses["lending"] = Contract("lending")
            /\ provider.addresses["oracle"] = Contract("oracle")
            /\ ElementsOf(Assets) \subseteq lending.markets
            /\ ElementsOf(OracleConfigs) \subseteq oracle.price_sources

\* A market of the lending contract in use that no file remembers: its reply was
\* lost, or the process was killed before it saved.
MarketForgotten ==
    /\ pc = 0
    /\ Made(file, "lending")
    /\ ~(chain[file.addresses["lending"]].markets \subseteq file.assetsInitialized)

\* Failed calls, lost replies and crashes only delay the deployment: whoever runs
\* the script again in the end has the whole system, with one exception.  The
\* market opened by an init_asset that the file does not know of is opened again
\* by each later run, and refused.
EventuallyDeployed == <>(pc = Done \/ MarketForgotten)
=============================================================================
