--------------------------- MODULE DeploymentTasks ---------------------------
(***************************************************************************)
(* What the Hardhat tasks of nouns-contracts deploy and configure: for     *)
(* every task the contracts in the order they are sent, the addresses each *)
(* constructor is given, the terms it is given by default, and the         *)
(* transactions that follow.  A contract address follows from the          *)
(* deployer's nonce, so contracts that need each other's address are given *)
(* one computed ahead, a fixed number of nonces from the first.            *)
(***************************************************************************)
EXTENDS Integers, Sequences

\* An address a constructor is given: computed ahead, or of a contract deployed.
At(offset) == [ahead |-> TRUE, offset |-> offset, of |-> ""]
Of(contract) == [ahead |-> FALSE, offset |-> 0, of |-> contract]

NoArgs == [role \in {} |-> Of("")]
New(contract, args) == [name |-> contract, args |-> args, validated |-> FALSE]
\* validateDeployment: the address is compared with the one computed ahead.
Proxy(contract, args, offset, validated) ==
  [name |-> contract, args |-> args, validated |-> validated, offset |-> offset]

\* The thirteen contracts every full deployment consists of, with the offsets
\* the task counts for three of them.
Contracts(art, house, governor, logicName, proxyName, validated) ==
  << New("NFTDescriptorV2", NoArgs),
     New("SVGRenderer", NoArgs),
     New("NounsDescriptorV2", [art |-> At(art), renderer |-> Of("SVGRenderer"),
                               library |-> Of("NFTDescriptorV2")]),
     New("Inflator", NoArgs),
     New("NounsArt", [descriptor |-> Of("NounsDescriptorV2"), inflator |-> Of("Inflator")]),
     New("NounsSeeder", NoArgs),
     New("NounsToken", [minter |-> At(house), descriptor |-> Of("NounsDescriptorV2"),
                        seeder |-> Of("NounsSeeder")]),
     New("NounsAuctionHouse", NoArgs),
     New("NounsAuctionHouseProxyAdmin", NoArgs),
     Proxy("NounsAuctionHouseProxy",
           [logic |-> Of("NounsAuctionHouse"), nouns |-> Of("NounsToken"),
            proxyAdmin |-> Of("NounsAuctionHouseProxyAdmin")], house, validated),
     New("NounsDAOExecutor", [governor |-> At(governor)]),
     New(logicName, NoArgs),
     Proxy(proxyName, [timelock |-> Of("NounsDAOExecutor"), nouns |-> Of("NounsToken"),
                       logic |-> Of(logicName)], governor, validated) >>

deploy_contracts ==
  Contracts(4, 9, 12, "NounsDAOLogicV1", "NounsDAOProxy", TRUE)

\* Mutant: the offset still counts twelve contracts.
shortTimes_contracts_offByOne ==
  Contracts(4, 9, 11, "NounsDAOLogicV2", "NounsDAOProxyV2", TRUE)

shortTimes_contracts ==
  Contracts(4, 9, 12, "NounsDAOLogicV2", "NounsDAOProxyV2", TRUE)

shortTimesDaov1_contracts ==
  Contracts(4, 9, 12, "NounsDAOLogicV1", "NounsDAOProxy", TRUE)

cnnouns_contracts ==
  Contracts(4, 9, 12, "NounsDAOLogicV2", "NounsDAOProxyV2", TRUE)

nigi_contracts ==
  Contracts(4, 9, 12, "NounsDAOLogicV2", "NounsDAOProxyV2", TRUE)

\* WETH comes first on the local chain; no address is validated.
local_contracts ==
  <<New("WETH", NoArgs)>>
    \o Contracts(5, 10, 13, "NounsDAOLogicV2", "NounsDAOProxyV2", FALSE)
    \o <<New("Multicall2", NoArgs)>>

\* A new descriptor with its art, for a DAO that exists.
descriptorV2_contracts ==
  << New("NFTDescriptorV2", NoArgs), New("SVGRenderer", NoArgs),
     New("NounsDescriptorV2", [art |-> At(4), renderer |-> Of("SVGRenderer"),
                               library |-> Of("NFTDescriptorV2")]),
     New("Inflator", NoArgs),
     New("NounsArt", [descriptor |-> Of("NounsDescriptorV2"), inflator |-> Of("Inflator")]) >>

\* The library, the renderer and the inflator are given.
cnnounsDescriptorV2_contracts ==
  << New("NounsDescriptorV2", [art |-> At(1)]),
     New("NounsArt", [descriptor |-> Of("NounsDescriptorV2")]) >>

nigiDescriptorV2_contracts == cnnounsDescriptorV2_contracts

-----------------------------------------------------------------------------
(* Terms: what the executor and the governor are initialized with.         *)

Days(n) == n * 24 * 60 * 60
Terms(delay, period, wait, threshold, min, max) ==
  [timelockDelay |-> delay, votingPeriod |-> period, votingDelay |-> wait,
   proposalThreshold |-> threshold, minQuorumVotesBPS |-> min, maxQuorumVotesBPS |-> max]

\* Blocks of 13 seconds, rounded to the nearest integer.
deploy_terms == Terms(Days(2), 26585, 19938, 1, 1000, 1000)
shortTimes_terms == Terms(60, 80, 1, 100, 1000, 4000)
shortTimesDaov1_terms == Terms(60, 80, 1, 100, 1000, 1000)
cnnouns_terms == Terms(Days(2), 26585, 19938, 1, 1000, 1500)
nigi_terms == Terms(Days(2), 26585, 19938, 1, 1000, 1500)
local_terms == Terms(Days(2), 17280, 1, 1, 1000, 4000)

\* What the constructors require (NounsDAOExecutor line 72, initialize of the
\* governors).  The short-times tasks deploy an executor and a governor of
\* contracts/test, which skip the checks that would refuse short times.
ExecutorAccepts(terms) == terms.timelockDelay \in Days(2) .. Days(30)
GovernorAccepts(terms) ==
  /\ terms.votingPeriod \in 5760 .. 80640
  /\ terms.votingDelay \in 1 .. 40320
  /\ terms.proposalThreshold \in 1 .. 1000
  /\ terms.minQuorumVotesBPS \in 200 .. 2000
  /\ terms.maxQuorumVotesBPS \in terms.minQuorumVotesBPS .. 6000

-----------------------------------------------------------------------------
(* Configuration: one step per transaction or task run.                    *)

Step(do, what, from) == [do |-> do, what |-> what, from |-> from]
\* Identifiers of images are counted ("put"); a page of their bytes is not ("page").
Upload(do, part, images) == Step(do, part, images)
Own(contract) == Step("own", contract, "")
Unpause == Step("unpause", "NounsAuctionHouseProxy", "")
Configs(proxyName) == Step("configs", proxyName, "")
Unregistered(task) == Step("run", task, "")
LogContracts == Step("log", "logs/deploy.json", "")

Parts == {"bgcolors", "palette", "specials", "chokers", "headphones", "leftHands", "hats",
          "clothes", "ears", "backs", "backDecorations", "backgroundDecorations", "hairs"}

\* What the seeder takes a number modulo the count of.
CountedParts == Parts \ {"palette"}

\* The order the parts are sent in, as what, and what is sent as background
\* decorations.  The background colors are counted by themselves.
Uploads(do, backgroundDecorations) ==
  << Upload("put", "bgcolors", "bgcolors"), Upload("put", "palette", "palette"),
     Upload(do, "specials", "specials"), Upload(do, "chokers", "chokers"),
     Upload(do, "headphones", "headphones"), Upload(do, "leftHands", "leftHands"),
     Upload(do, "hats", "hats"), Upload(do, "clothes", "clothes"), Upload(do, "ears", "ears"),
     Upload(do, "backs", "backs"), Upload(do, "backDecorations", "backDecorations"),
     Upload(do, "backgroundDecorations", backgroundDecorations), Upload(do, "hairs", "hairs") >>

\* Two of the three tasks send the back decorations a second time; the third sends pages.
populateDescriptor == Uploads("put", "backDecorations")
nigi_populateDescriptor == Uploads("put", "backDecorations")
cnnouns_populateDescriptor == Uploads("page", "backgroundDecorations")

Handover == <<Own("NounsDescriptorV2"), Own("NounsToken"), Own("NounsAuctionHouseProxyAdmin")>>
When(flag, steps) == IF flag THEN steps ELSE <<>>
StartAuction(flag) == When(flag, <<Unpause, Own("NounsAuctionHouseProxy")>>)

deployAndConfigure(flags) ==
  populateDescriptor \o Handover \o StartAuction(flags.startAuction)
    \o When(flags.updateConfigs, <<Configs("NounsDAOProxy")>>)

shortTimes_configure(flags) ==
  populateDescriptor \o Handover \o StartAuction(flags.startAuction)
    \o When(flags.updateConfigs, <<Configs("NounsDAOProxyV2")>>)

shortTimesDaov1_configure(flags) ==
  populateDescriptor \o Handover \o StartAuction(flags.startAuction)
    \o When(flags.updateConfigs, <<Configs("NounsDAOProxy")>>)

cnnouns_configure(flags) ==
  cnnouns_populateDescriptor \o Handover \o StartAuction(flags.startAuction)
    \o When(flags.updateConfigs, <<Configs("NounsDAOProxyV2")>>)

\* Neither transfers ownership nor starts an auction, whatever the flags say.
nigi_configure(flags) ==
  nigi_populateDescriptor \o When(flags.updateConfigs, <<Configs("NounsDAOProxyV2")>>)

\* The auction starts before anything is handed over.
runLocal(flags) ==
  populateDescriptor \o <<Unpause>> \o Handover \o <<Own("NounsAuctionHouseProxy")>>

\* The addresses are written to a log for the continuous integration.
deployCi(flags) == <<LogContracts>>

descriptorV2_configure(flags) == populateDescriptor \o <<Own("NounsDescriptorV2")>>
cnnounsDescriptorV2_configure(flags) == cnnouns_populateDescriptor \o <<Own("NounsDescriptorV2")>>
\* There is no task of that name: the populating task is niginouns-populate-descriptor.
nigiDescriptorV2_configure(flags) ==
  <<Unregistered("nigi-populate-descriptor"), Own("NounsDescriptorV2")>>
=============================================================================
