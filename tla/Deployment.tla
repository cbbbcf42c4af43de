----------------------------- MODULE Deployment -----------------------------
(***************************************************************************)
(* The Hardhat tasks that deploy and configure the contracts, run one      *)
(* after another from one deployer account.  The script is not atomic: the *)
(* account may send other transactions in between, a transaction may fail  *)
(* to be sent, and whatever was sent before stays on chain.                *)
(*                                                                         *)
(* chain lists the transactions of the deployer: the contract a deployment *)
(* creates, or Other.  A contract's address is its place in that list,     *)
(* since the address follows from the deployer and the nonce alone.        *)
(***************************************************************************)
EXTENDS DeploymentTasks, FiniteSets

CONSTANTS
  TaskNames,   \* the tasks that are run, of DOMAIN Tasks
  Networks,    \* the networks they are run on
  FlagSets,    \* the flags they are given
  MaxRuns,     \* bound: tasks started
  MaxForeign   \* bound: other transactions of the deployer, failures, and transactions
               \* still pending when a task reads its nonce

VARIABLES
  run,         \* the task under way, with its closure: flags, base, step, deployment
  phase,       \* where the script is
  why,         \* what it failed with
  chain,       \* the deployer's transactions, in nonce order
  confirmed,   \* how many of them a task has seen mined
  ownedBy,     \* the owner of every ownable contract
  images,      \* <<art, part, images>> for every batch of images that was counted
  auctions,    \* the houses with an auction under way
  minted,      \* the tokens whose minter the deployer has become
  configs,     \* addresses the SDK and the subgraph are configured with
  disturbed,   \* other transactions and failures of the task, and what was pending before it
  runs

deploymentVars ==
  <<run, phase, why, chain, confirmed, ownedBy, images, auctions, minted, configs, disturbed,
    runs>>

Deployer == -1
DaoExecutor == 0       \* the executor of an existing DAO, given as an argument
Nowhere == 0
Other == [name |-> "other", args |-> [role \in {} |-> Nowhere]]
Ownable == {"NounsDescriptorV2", "NounsToken", "NounsAuctionHouseProxyAdmin",
            "NounsAuctionHouseProxy"}
Governors == {"NounsDAOProxy", "NounsDAOProxyV2"}

Task(contracts, terms, tested, family, waits, configuration) ==
  [contracts |-> contracts, terms |-> terms, tested |-> tested, family |-> family,
   waits |-> waits, configuration |-> configuration]

\* tested: the contracts of contracts/test are deployed instead.  waits: the
\* transactions are awaited until they are mined.
Tasks ==
  LET For(Configure(_)) == [flags \in FlagSets |-> Configure(flags)]
  IN [ deployAndConfigure |-> Task(deploy_contracts, deploy_terms, FALSE, "deploy", FALSE,
                                   For(deployAndConfigure)),
       ci |-> Task(deploy_contracts, deploy_terms, FALSE, "ci", FALSE, For(deployCi)),
       shortTimes |-> Task(shortTimes_contracts, shortTimes_terms, TRUE, "shortTimes", FALSE,
                           For(shortTimes_configure)),
       shortTimesDaov1 |-> Task(shortTimesDaov1_contracts, shortTimesDaov1_terms, TRUE,
                                "shortTimes", FALSE, For(shortTimesDaov1_configure)),
       cnnouns |-> Task(cnnouns_contracts, cnnouns_terms, FALSE, "cnnouns", TRUE,
                        For(cnnouns_configure)),
       nigi |-> Task(nigi_contracts, nigi_terms, FALSE, "nigi", TRUE, For(nigi_configure)),
       runLocal |-> Task(local_contracts, local_terms, FALSE, "local", FALSE, For(runLocal)),
       descriptorV2 |-> Task(descriptorV2_contracts, deploy_terms, FALSE, "given", FALSE,
                             For(descriptorV2_configure)),
       cnnounsDescriptorV2 |-> Task(cnnounsDescriptorV2_contracts, cnnouns_terms, FALSE, "given",
                                    TRUE, For(cnnounsDescriptorV2_configure)),
       nigiDescriptorV2 |-> Task(nigiDescriptorV2_contracts, nigi_terms, FALSE, "given", TRUE,
                                 For(nigiDescriptorV2_configure)) ]

ASSUME DeploymentAssumption ==
  /\ TaskNames \subseteq DOMAIN Tasks
  /\ FlagSets \subseteq [startAuction : BOOLEAN, updateConfigs : BOOLEAN, weth : BOOLEAN,
                         shortPeriod : BOOLEAN]

\* The WETH contract a task finds for a network.  Of the addresses the nigi task
\* lists, the first two end in a full stop and cannot be encoded.
FoundOn(networks, network) == IF network \in networks THEN "weth" ELSE "none"
deploy_weth(network) == FoundOn({"mainnet", "sepolia"}, network)
cnnouns_weth(network) == FoundOn({"mainnet", "sepolia"}, network)
shortTimes_weth(network) == FoundOn({"mainnet"}, network)
shortTimesDaov1_weth(network) == FoundOn({"mainnet"}, network)
nigi_weth(network) == IF network = "sepolia" THEN "malformed" ELSE FoundOn({"zKyoto"}, network)

Weth(family, network) ==
  CASE family = "deploy"          -> deploy_weth(network)
    [] family = "cnnouns"         -> cnnouns_weth(network)
    [] family = "shortTimes"      -> shortTimes_weth(network)
    [] family = "shortTimesDaov1" -> shortTimesDaov1_weth(network)
    [] family = "nigi"            -> nigi_weth(network)
    [] OTHER                      -> "weth"

TheTask == Tasks[run.task]
ChainAddresses == DOMAIN chain
Has(name) == name \in DOMAIN run.deployment
Deployed(name) == run.deployment[name]
NameAt(a) == IF a \in ChainAddresses THEN chain[a].name ELSE "none"
Send(entry) == chain' = Append(chain, entry)
Confirm(awaited) == confirmed' = IF awaited THEN Len(chain') ELSE confirmed
\* The contracts that are awaited in the tasks that do not wait for all (waitForConfirmation).
Awaited == {"NounsAuctionHouse", "NounsAuctionHouseProxy", "NounsDAOLogicV1", "NounsDAOLogicV2",
            "NounsDAOProxy", "NounsDAOProxyV2"}
\* map with key set to value.
Assigned(map, key, value) == [k \in DOMAIN map \cup {key} |-> IF k = key THEN value ELSE map[k]]

Fail(reason) == phase' = "failed" /\ why' = reason
Next_step == run' = [run EXCEPT !.step = @ + 1] /\ UNCHANGED <<phase, why>>

DeploymentInit ==
  /\ run = [task |-> "", flags |-> <<>>, weth |-> "", terms |-> <<>>, base |-> 0, step |-> 1,
            deployment |-> [name \in {} |-> Nowhere]]
  /\ phase = "idle" /\ why = ""
  /\ chain = <<>> /\ confirmed = 0 /\ ownedBy = [a \in {} |-> Deployer]
  /\ images = {} /\ auctions = {} /\ minted = {}
  /\ configs = [name \in {} |-> Nowhere]
  /\ disturbed = 0 /\ runs = 0

-----------------------------------------------------------------------------
\* Where the nonce may be read: getTransactionCount counts what is mined, while what is
\* sent next comes after what is pending.  run-local has started its own node.
Nonces(family) ==
  IF family = "local" THEN {Len(chain)}
  ELSE {base \in confirmed .. Len(chain) : Len(chain) - base <= MaxForeign}

\* A task is started: WETH is looked up unless it is given, and the nonce is read
\* from which the addresses ahead are computed.  run-local needs the local chain.
Start(task, network, flags) ==
  /\ phase \in {"idle", "done", "failed"} /\ runs < MaxRuns
  /\ runs' = runs + 1
  /\ LET family == Tasks[task].family
         weth == IF flags.weth THEN "weth" ELSE Weth(family, network)
         terms == IF flags.shortPeriod THEN [Tasks[task].terms EXCEPT !.votingPeriod = 100]
                  ELSE Tasks[task].terms
     IN /\ family \in {"local", "given", "ci"} => ~flags.weth /\ ~flags.shortPeriod
        /\ \E base \in Nonces(family) :
             /\ run' = [task |-> task, flags |-> flags, weth |-> weth, terms |-> terms,
                        base |-> base, step |-> 1, deployment |-> [name \in {} |-> Nowhere]]
             /\ disturbed' = Len(chain) - base
        /\ CASE family = "local" /\ network # "hardhat" -> Fail("wrong chain")
             [] weth = "none"                           -> Fail("weth")
             [] OTHER                                   -> phase' = "deploying" /\ why' = ""
  /\ UNCHANGED <<chain, confirmed, ownedBy, images, auctions, minted, configs>>

AddressOf(arg) == IF arg.ahead THEN run.base + arg.offset + 1 ELSE Deployed(arg.of)

\* Encoding the arguments or estimating the gas fails: nothing is sent.
Refused(contract) ==
  \/ contract.name = "NounsAuctionHouseProxy" /\ run.weth = "malformed"
  \/ ~TheTask.tested /\ contract.name = "NounsDAOExecutor" /\ ~ExecutorAccepts(run.terms)
  \/ ~TheTask.tested /\ contract.name \in Governors /\ ~GovernorAccepts(run.terms)

\* Mutant: the address is not compared with the one computed ahead.
MovedNever(contract, address) == FALSE

Moved(contract, address) ==
  contract.validated /\ address # run.base + contract.offset + 1

\* One contract is sent, recorded and validated.
SendContract ==
  /\ phase = "deploying" /\ run.step <= Len(TheTask.contracts)
  /\ LET contract == TheTask.contracts[run.step]
         address == Len(chain) + 1
         args == [role \in DOMAIN contract.args |-> AddressOf(contract.args[role])]
     IN IF Refused(contract)
        THEN Fail(IF run.weth = "malformed" THEN "weth" ELSE "terms")
             /\ UNCHANGED <<run, chain, confirmed, ownedBy>>
        ELSE /\ Send([name |-> contract.name, args |-> args])
             /\ Confirm(contract.name \in Awaited \/ (TheTask.waits /\ TheTask.family # "given"))
             /\ ownedBy' = IF contract.name \in Ownable THEN Assigned(ownedBy, address, Deployer)
                            ELSE ownedBy
             /\ run' = [run EXCEPT !.step = @ + 1,
                                   !.deployment = Assigned(@, contract.name, address)]
             /\ IF Moved(contract, address) THEN Fail("moved") ELSE UNCHANGED <<phase, why>>
  /\ UNCHANGED <<images, auctions, minted, configs, disturbed, runs>>

\* The operator is asked for DEPLOY, SKIP or EXIT; the answer is stored under
\* confirm and looked up under operation, so every answer deploys.
deploy == run.task \in {"deployAndConfigure", "ci"} /\ SendContract
deployShortTimes == run.task = "shortTimes" /\ SendContract
deployShortTimesDaov1 == run.task = "shortTimesDaov1" /\ SendContract
cnnounsDeploy == run.task = "cnnouns" /\ SendContract
nigiDeploy == run.task = "nigi" /\ SendContract
deployLocal == run.task = "runLocal" /\ SendContract
deployDescriptorV2 == run.task = "descriptorV2" /\ SendContract
cnnounsDeployDescriptorV2 == run.task = "cnnounsDescriptorV2" /\ SendContract
nigiDeployDescriptorV2 == run.task = "nigiDescriptorV2" /\ SendContract

\* All contracts are deployed, and mined: the last is awaited, or all of them are
\* at the end.  The deployment is returned to the task that configures it.
Return ==
  /\ phase = "deploying" /\ run.step > Len(TheTask.contracts)
  /\ phase' = "configuring" /\ run' = [run EXCEPT !.step = 1]
  /\ confirmed' = Len(chain)
  /\ UNCHANGED <<why, chain, ownedBy, images, auctions, minted, configs, disturbed, runs>>

-----------------------------------------------------------------------------
Configuration == TheTask.configuration[run.flags]
At_step(do) == /\ phase = "configuring" /\ run.step <= Len(Configuration)
               /\ Configuration[run.step].do = do
TheStep == Configuration[run.step]

ArtOf(descriptor) == chain[descriptor].args.art
Works(descriptor) ==
  /\ NameAt(descriptor) = "NounsDescriptorV2" /\ NameAt(ArtOf(descriptor)) = "NounsArt"
  /\ chain[ArtOf(descriptor)].args.descriptor = descriptor

\* The descriptor's functions are for its owner, and it is the only caller its art
\* accepts.  A page of images is stored; only identifiers raise the count of their part.
UploadPart ==
  /\ At_step("put") \/ At_step("page")
  /\ LET descriptor == Deployed("NounsDescriptorV2")
     IN IF Works(descriptor) /\ ownedBy[descriptor] = Deployer
        THEN /\ Send(Other) /\ Confirm(TheTask.waits) /\ Next_step
             /\ images' = IF TheStep.do = "page" THEN images
                          ELSE images \cup {<<ArtOf(descriptor), TheStep.what, TheStep.from>>}
        ELSE Fail("art") /\ UNCHANGED <<run, chain, confirmed, images>>
  /\ UNCHANGED <<ownedBy, auctions, minted, configs, disturbed, runs>>

TheExecutor == IF Has("NounsDAOExecutor") THEN Deployed("NounsDAOExecutor") ELSE DaoExecutor

TransferOwnership ==
  /\ At_step("own")
  /\ LET a == Deployed(TheStep.what)
     IN IF ownedBy[a] = Deployer
        THEN /\ Send(Other) /\ Confirm(TheTask.waits /\ TheTask.family # "given")
             /\ Next_step /\ ownedBy' = [ownedBy EXCEPT ![a] = TheExecutor]
        ELSE Fail("owner") /\ UNCHANGED <<run, chain, confirmed, ownedBy>>
  /\ UNCHANGED <<images, auctions, minted, configs, disturbed, runs>>

CountedIn(art) == {i[2] : i \in {j \in images : j[1] = art}}
\* A mint takes a number modulo the count of every part.
CanMint(token) ==
  LET d == chain[token].args.descriptor IN Works(d) /\ CountedParts \subseteq CountedIn(ArtOf(d))
MinterOf(token) == IF token \in minted THEN Deployer ELSE chain[token].args.minter

\* unpause of a paused house starts an auction.  It catches the refusal of a token
\* whose minter is another, and pauses again; a mint that panics makes it revert.
Unpaused(house) ==
  IF MinterOf(chain[house].args.nouns) = house THEN auctions \cup {house} ELSE auctions
\* Mutant: a mint does not need the images.
UnpauseRevertsForOthers(house) == ownedBy[house] # Deployer

UnpauseReverts(house) ==
  \/ ownedBy[house] # Deployer \/ house \in auctions
  \/ LET token == chain[house].args.nouns IN MinterOf(token) = house /\ ~CanMint(token)

\* A task that waits for the transaction fails with it; another goes on.
UnpauseHouse ==
  /\ At_step("unpause")
  /\ LET house == Deployed("NounsAuctionHouseProxy")
     IN /\ auctions' = IF UnpauseReverts(house) THEN auctions ELSE Unpaused(house)
        /\ Send(Other) /\ Confirm(TheTask.waits)
        /\ IF UnpauseReverts(house) /\ TheTask.waits
           THEN Fail("unpause") /\ UNCHANGED run
           ELSE Next_step
  /\ UNCHANGED <<ownedBy, images, minted, configs, disturbed, runs>>

\* update-configs of a deployment with the first governor, and with the second.
Addressed(governor) ==
  {"NounsToken", "NounsSeeder", "NounsDescriptorV2", "NFTDescriptorV2", "NounsAuctionHouse",
   "NounsAuctionHouseProxy", "NounsAuctionHouseProxyAdmin", "NounsDAOExecutor", governor}
WriteConfigs(governor) ==
  /\ At_step("configs") /\ TheStep.what = governor
  /\ configs' = [name \in Addressed(governor) |-> Deployed(name)]
  /\ Next_step
  /\ UNCHANGED <<chain, confirmed, ownedBy, images, auctions, minted, disturbed, runs>>
updateConfigs == WriteConfigs("NounsDAOProxy")
updateConfigsDaov2 == WriteConfigs("NounsDAOProxyV2")

\* deploy-ci logs two contracts of the first descriptor, which deploy does not send.
Logged == {"NFTDescriptor", "NounsDescriptor", "NounsSeeder", "NounsToken"}
WriteDeployLog ==
  /\ At_step("log")
  /\ IF \A name \in Logged : Has(name) THEN Next_step ELSE Fail("log") /\ UNCHANGED run
  /\ UNCHANGED <<chain, confirmed, ownedBy, images, auctions, minted, configs, disturbed, runs>>

RunUnregistered ==
  /\ At_step("run") /\ Fail("unregistered")
  /\ UNCHANGED <<run, chain, confirmed, ownedBy, images, auctions, minted, configs, disturbed,
                 runs>>

Finish ==
  /\ phase = "configuring" /\ run.step > Len(Configuration)
  /\ phase' = "done"
  /\ UNCHANGED <<run, why, chain, confirmed, ownedBy, images, auctions, minted, configs,
                 disturbed, runs>>

-----------------------------------------------------------------------------
(* Tasks run by hand on a deployment whose contracts were all accepted,    *)
(* its configuration complete or not.                                      *)

ByHand ==
  /\ phase \in {"done", "failed"} /\ why # "moved" /\ Has("NounsDAOProxyV2") /\ TheTask.waits

\* nigi-start-auction and nijinouns-start-auction: unpauses and waits, then hands
\* the house over.  Run again it fails, the house not being the deployer's any more.
startAuction ==
  /\ ByHand
  /\ LET house == Deployed("NounsAuctionHouseProxy")
     IN /\ ~UnpauseReverts(house)
        /\ auctions' = Unpaused(house)
        /\ ownedBy' = [ownedBy EXCEPT ![house] = TheExecutor]
  /\ Send(Other) /\ Confirm(TRUE)
  /\ UNCHANGED <<run, phase, why, images, minted, configs, disturbed, runs>>

nigiStartAuction == run.task = "nigi" /\ startAuction
cnnounsStartAuction == run.task = "cnnouns" /\ startAuction

\* mint-nigi-noun: the deployer makes itself the minter, for good, and mints if it can.
mintNigiNoun ==
  /\ ByHand
  /\ LET token == Deployed("NounsToken")
     IN /\ ownedBy[token] = Deployer /\ token \notin minted
        /\ minted' = minted \cup {token}
  /\ Send(Other) /\ Confirm(TRUE)
  /\ UNCHANGED <<run, phase, why, ownedBy, images, auctions, configs, disturbed, runs>>

\* What the verifying tasks find of a deployment they are given: the contracts that
\* match the executor as their owner, and what the contracts say of each other.
verifyOwnership(contracts) ==
  {name \in Ownable : ownedBy[contracts[name]] = contracts["NounsDAOExecutor"]}
verifyAddresses(contracts) ==
  [art |-> ArtOf(contracts["NounsDescriptorV2"]),
   minter |-> MinterOf(contracts["NounsToken"]),
   descriptor |-> chain[contracts["NounsToken"]].args.descriptor,
   nouns |-> chain[contracts["NounsAuctionHouseProxy"]].args.nouns,
   admin |-> chain[contracts["NounsDAOExecutor"]].args.governor]

\* Another transaction of the deployer.  run-local has just started its own node,
\* on which nobody else is.
ForeignTransaction ==
  /\ phase \in {"deploying", "configuring"} /\ run.task # "runLocal" /\ disturbed < MaxForeign
  /\ Send(Other) /\ disturbed' = disturbed + 1
  /\ UNCHANGED <<run, phase, why, confirmed, ownedBy, images, auctions, minted, configs, runs>>

\* A transaction cannot be sent, or the process dies, perhaps before it saw the last
\* one mined that it waits for: what was sent remains.
TransactionFails ==
  /\ phase \in {"deploying", "configuring"} /\ disturbed < MaxForeign
  /\ Fail("network") /\ disturbed' = disturbed + 1
  /\ \/ UNCHANGED confirmed
     \/ confirmed = Len(chain) /\ run.base < confirmed /\ confirmed' = confirmed - 1
  /\ UNCHANGED <<run, chain, ownedBy, images, auctions, minted, configs, runs>>

DeploymentNext ==
  \/ \E task \in TaskNames, network \in Networks, flags \in FlagSets : Start(task, network, flags)
  \/ deploy \/ deployShortTimes \/ deployShortTimesDaov1 \/ cnnounsDeploy \/ nigiDeploy
  \/ deployLocal \/ deployDescriptorV2 \/ cnnounsDeployDescriptorV2 \/ nigiDeployDescriptorV2
  \/ Return
  \/ UploadPart \/ TransferOwnership \/ UnpauseHouse \/ updateConfigs \/ updateConfigsDaov2
  \/ WriteDeployLog \/ RunUnregistered \/ Finish
  \/ nigiStartAuction \/ cnnounsStartAuction \/ mintNigiNoun
  \/ ForeignTransaction \/ TransactionFails

DeploymentSpec == DeploymentInit /\ [][DeploymentNext]_deploymentVars

-----------------------------------------------------------------------------
TokenOf(executor) == chain[chain[executor].args.governor].args.nouns
HouseOf(token) == chain[token].args.minter

\* What the verifying tasks find of a deployment that went through: nothing of it
\* points outside, but for a minter made by mint-nigi-noun, and nijinouns-deploy
\* leaves nothing but a house that has no auction yet with the deployer.
VerifiedWhenDone ==
  LET made == run.deployment
      found == verifyAddresses(made)
      match == verifyOwnership(made)
  IN /\ found.art = made["NounsArt"] /\ found.descriptor = made["NounsDescriptorV2"]
     /\ found.nouns = made["NounsToken"] /\ found.admin = made["NounsDAOProxyV2"]
     /\ found.minter \in {made["NounsAuctionHouseProxy"], Deployer}
     /\ run.task = "cnnouns" => Ownable \ match \subseteq {"NounsAuctionHouseProxy"}

\* What an executor is given belongs to one complete system: its admin is a
\* governor proxy that has it as timelock, the governor counts the votes of a
\* token, that token is minted by a house that sells it, and its descriptor and
\* art accept each other, whatever other transactions the deployer sent meanwhile;
\* and the verifying tasks agree (offsets and validateDeployment of the deploy tasks).
HandedOverIsWired ==
  /\ \A a \in DOMAIN ownedBy : ownedBy[a] > 0 =>
       LET executor == ownedBy[a]
           governor == chain[executor].args.governor
           token == TokenOf(executor)
           house == HouseOf(token)
       IN /\ NameAt(governor) \in Governors /\ chain[governor].args.timelock = executor
          /\ NameAt(token) = "NounsToken"
          /\ NameAt(house) = "NounsAuctionHouseProxy" /\ chain[house].args.nouns = token
          /\ Works(chain[token].args.descriptor)
          /\ a \in {token, house, chain[token].args.descriptor, chain[house].args.proxyAdmin}
  /\ phase = "done" /\ TheTask.waits /\ Has("NounsAuctionHouseProxy") => VerifiedWhenDone

\* A task stops only for a reason: what its constructors refuse it was given, and
\* addresses move, or art refuses, only when other transactions came in between or
\* were still pending when it read its nonce.  The auction that cnnouns is told to
\* start cannot start: of the pages it uploads nothing is counted.
FailsOnlyWhenDisturbed ==
  phase = "failed" =>
    \/ why \in {"weth", "wrong chain", "unregistered", "log"}
    \/ why = "terms" /\ run.flags.shortPeriod
    \/ why = "unpause" /\ run.task = "cnnouns" /\ run.flags.startAuction
    \/ why \in {"moved", "art", "network"} /\ disturbed > 0

\* A house in the hands of an executor has an auction under way, on art of which every
\* part the seeder picks from was counted, unless the deployer made itself the minter
\* before: nobody but the executor can start one (unpause, then transferOwnership), and
\* the tasks that do not wait hand over without knowing that the unpausing went through.
AuctionHandedOverRuns ==
  \A a \in DOMAIN ownedBy : ownedBy[a] > 0 /\ NameAt(a) = "NounsAuctionHouseProxy" =>
    LET token == chain[a].args.nouns
    IN token \in minted \/ (a \in auctions /\ CanMint(token))
=============================================================================
