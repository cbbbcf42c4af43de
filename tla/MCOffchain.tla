----------------------------- MODULE MCOffchain -----------------------------
(***************************************************************************)
(* The programs around the contracts, for TLC.  They share no state here:  *)
(* each brings what it sees of the chain with it, so a behaviour runs one  *)
(* of them and the others keep still.                                      *)
(***************************************************************************)
EXTENDS SubgraphToken, WebappGovernance, VoteModal, Bots, WebappAuction, Deployment,
        WebappLogs, NounActivity, DelegationPanel, ImageEncoding

CONSTANTS alice, bob

VARIABLE program

Programs == {"token index", "proposal page", "shared actions", "vote dialog", "auction bot",
             "governance bot", "auction page", "deployment", "log reader", "activity feed",
             "delegation panel", "artwork"}
GovernancePrograms == {"proposal page", "shared actions"}

tokenIndexVars == <<vars, subgraphTokenVars>>
botsVars == <<auctionBotVars, governanceBotVars>>

OffchainInit ==
  /\ program \in Programs
  /\ SubgraphTokenInit /\ Init
  /\ SubgraphDAOInit /\ PageInit
  /\ program # "proposal page" => latestParams.params = (CHOOSE p \in ParamsChoices : TRUE)
  /\ VoteModalInit
  /\ program # "vote dialog" => ~signerIsContract
  /\ SubgraphAuctionInit /\ BotsInit /\ WebappAuctionInit
  /\ DeploymentInit /\ LogsInit /\ ImageInit
  /\ FeedInit
  /\ program # "activity feed" => IsReward
  /\ DelegationPanelInit
  /\ program # "delegation panel" => delegateTo = NoText

Runs(running) == program = running /\ UNCHANGED program

\* Bound: the clock, for the governance bot, which has nothing to do after a warning.
LastWarning == ExpiryLimit

\* The page tells hashes apart but does not order them, as the bots do: there they are
\* numbered in the order of the chain.
HashesInOrder ==
  \A i \in BidEvents :
    LET earlier == {feed[j].tx : j \in {k \in BidEvents : k < i}}
    IN feed[i].tx - 1 \in {0} \cup earlier /\ \A tx \in earlier : tx <= feed[i].tx

\* Bound: the first bid in an auction is the lowest there is, so that another can follow.
StartsLow ==
  IF \A v \in Amounts : houseAuction'.amount <= v THEN TRUE ELSE houseAuction.amount # 0

\* Bound: proposals end by cancellation, which the bots treat as they do a veto.
NoVeto == \A id \in DOMAIN indexedProposal : indexedProposal[id].status # "VETOED"

\* The proposal page, of one proposal, made by the account of the page.
OneProposal == Created \subseteq {1} /\ \A id \in Created : proposals[id].proposer = User

\* Two proposals with shared actions, decided by votes in favour under one set of terms;
\* the page is loaded and read, and the transactions it offers are whoever's.  Bound:
\* they end by cancellation, which does to the flags what a veto does.
SharedActionsNext ==
  /\ \/ SubgraphDAONext /\ UNCHANGED pageVars
     \/ \E id \in ProposalIds : useProposal(id)
  /\ settings' = 0 /\ block' < LastBlock
  /\ \A id \in DOMAIN proposals' : ~proposals'[id].vetoed /\ proposals'[id].againstVotes = 0

\* Bound: the second task is given the flags of the first, and meets what that left
\* pending; what comes in between the transactions of a task does so in the first.
SecondTask ==
  /\ runs' = 2 => run'.flags = run.flags
  /\ runs = 2 => disturbed' = disturbed

OffchainNext ==
  /\ \/ Runs("token index") /\ SubgraphTokenNext
     \/ Runs("proposal page") /\ GovernancePageNext /\ OneProposal'
     \/ Runs("shared actions") /\ SharedActionsNext
     \/ Runs("vote dialog") /\ VoteModalNext
     \/ Runs("auction bot") /\ AuctionBotNext /\ StartsLow
     \/ Runs("governance bot") /\ GovernanceBotNext /\ NoVeto' /\ clock' <= LastWarning
     \/ Runs("auction page") /\ WebappAuctionNext
          /\ IF feed' = feed THEN TRUE ELSE StartsLow /\ HashesInOrder'
     \/ Runs("deployment") /\ DeploymentNext /\ SecondTask
     \/ Runs("log reader") /\ WebappLogsNext
     \/ Runs("activity feed") /\ NounActivityNext
     \/ Runs("delegation panel") /\ DelegationPanelNext
     \/ Runs("artwork") /\ ImageNext
  /\ program # "token index" => UNCHANGED tokenIndexVars
  /\ program \notin GovernancePrograms => UNCHANGED governancePageVars
  /\ program # "vote dialog" => UNCHANGED voteModalVars
  /\ program \notin {"auction bot", "governance bot"} => UNCHANGED botsVars
  /\ program # "auction page" => UNCHANGED auctionPageVars
  /\ program \notin {"auction bot", "governance bot", "auction page"} =>
       UNCHANGED subgraphAuctionVars
  /\ program # "deployment" => UNCHANGED deploymentVars
  /\ program # "log reader" => UNCHANGED logsVars
  /\ program # "activity feed" => UNCHANGED feedVars
  /\ program # "delegation panel" => UNCHANGED delegationPanelVars
  /\ program # "artwork" => UNCHANGED imageVars

offchainVars ==
  <<program, tokenIndexVars, governancePageVars, voteModalVars, subgraphAuctionVars, botsVars,
    auctionPageVars, deploymentVars, logsVars, feedVars, delegationPanelVars, imageVars>>

OffchainSpec == OffchainInit /\ [][OffchainNext]_offchainVars

-----------------------------------------------------------------------------
(* Instances                                                               *)

\* The token: a delegation to address(0) that is signed, and one to somebody after it.
TheSignatures ==
  {[signatory |-> alice, delegatee |-> d, nonce |-> IF d = Zero THEN 0 ELSE 1, expiry |-> 1] :
     d \in {Zero, bob}}

\* Governance: two proposers with votes enough, one of whom is the account of the page.
TheProposers == {"alice", "bob"}
TheWeights == [v \in {"alice", "bob"} |-> IF v = "alice" THEN 2 ELSE 1]

\* By the index of the token bob represents nothing: it forgot him (SubgraphToken).
TheRepresented == [v \in {"alice", "bob"} |-> IF v = "alice" THEN 2 ELSE 0]
QuorumParams(min, max, coefficient) ==
  [minQuorumVotesBPS |-> min, maxQuorumVotesBPS |-> max, quorumCoefficient |-> coefficient]
TheParams == {QuorumParams(3, 6, 5), QuorumParams(5, 6, 0)}

\* Two proposals that want the same, so that they share a flag if both are queued in
\* one block.
TheActions == [id \in 1 .. 2 |-> IF id = 1 THEN <<"pay", "mint">> ELSE <<"pay">>]

\* What index.tsx:162-176 writes down as the current auction.
TheFirstAuction == [nounId |-> 1, amount |-> 90, startTime |-> 0, endTime |-> 0,
                    bidder |-> "0x4B08", settled |-> FALSE]

\* Deployment: every task, on a network it knows WETH for, one it does not, one for which it lists a
\* malformed address, and the local chain.
AllTasks == DOMAIN Tasks
Flags(start, update, weth, short) ==
  [startAuction |-> start, updateConfigs |-> update, weth |-> weth, shortPeriod |-> short]
SomeFlags == {Flags(TRUE, TRUE, FALSE, FALSE), Flags(FALSE, FALSE, FALSE, FALSE),
              Flags(FALSE, FALSE, TRUE, TRUE)}

\* Delegations: the account itself, and a candidate with a name.
TheCandidates == ("account" :> 0) @@ ("candidate" :> 2)
TheNames == "candidate.eth" :> "candidate"

\* Artwork: pictures with and without clear borders, gaps and lines, in two colours or
\* one; two files of one folder and one of another with the same name.
Pixel(color) == [color |-> color, clear |-> FALSE]
Clear == [color |-> "000000", clear |-> TRUE]
Positions == (0 .. PictureWidth - 1) \X (0 .. PictureHeight - 1)
Drawn(top, bottom) ==
  [q \in Positions |-> IF q[1] \in (IF q[2] = 0 THEN top ELSE bottom)
                        THEN Pixel("ff0000") ELSE Clear]
Striped ==
  [q \in Positions |-> CASE q[1] = 0 -> Pixel("0000ff") [] q[1] = 1 -> Clear
                        [] OTHER -> Pixel("00ff00")]
ThePictures ==
  {Drawn(top, bottom) : top \in SUBSET (0 .. 2), bottom \in {{}, {0, 2}}}
    \cup {Striped, [q \in Positions |-> Pixel("0000ff")]}
TheFiles == << <<"ears", "a">>, <<"hats", "a">>, <<"hats", "b">> >>
NigiScripts == {"encode-more-nigi-32", "encode-more-nigi-48", "encode-more-nigi-64",
                "encode-more-nigi-80", "encode-more-nigi-96", "encode-more-nigi-120"}
ThePalettes ==
  [name \in NigiScripts |-> IF name = "encode-more-nigi-32" THEN <<Transparent, "0000ff", "ff0000">>
                            ELSE <<Transparent, "ff0000">>]
=============================================================================
