-------------------------- MODULE MCNounsDAOLogicV2 --------------------------
(***************************************************************************)
(* Instances of NounsDAOLogicV2 for TLC.                                   *)
(***************************************************************************)
EXTENDS NounsDAOLogicV2History, TLC

CONSTANTS alice, bob, ClockDelay, ClockPeriod

Alloc(a, b) == (alice :> a) @@ (bob :> b)
Swing == {Alloc(1, 2), Alloc(2, 1)}
Fixed == {Alloc(2, 1)}

Do(target, value) == [target |-> target, value |-> value]
Call(n) == Do("call", n)
CallTwice == {<<Call(1), Call(2)>>}
SharedCall == {<<Call(1)>>, <<Call(1), Call(2)>>}
\* The second and the third exclude each other once one is executed.  The last can
\* be queued, but votingDelay refuses 0: it never executes.  The delay becomes shorter
\* while other proposals wait for their eta.
Setters == {<<Do("delay", 1)>>, <<Do("quorumCoefficient", 0), Do("minQuorumVotesBPS", 5)>>,
            <<Do("maxQuorumVotesBPS", 4)>>, <<Do("votingDelay", 0)>>}
ActionsOf(lists) == UNION {{l[i] : i \in DOMAIN l} : l \in lists}
OneCall == {<<Call(1)>>}
OneCallActions == ActionsOf(OneCall)
CallTwiceActions == ActionsOf(CallTwice)
SharedCallActions == ActionsOf(SharedCall)
SettersActions == ActionsOf(Setters)

Clock == [f \in ConfigFields |-> IF f = "votingPeriod" THEN ClockPeriod
                                 ELSE IF f = "proposalThreshold" THEN 1 ELSE ClockDelay]
Bounds == [f \in ConfigFields |-> 1 .. 2]
SlowClock == [Clock EXCEPT !["delay"] = 2]
AllBallots == 0 .. 2
ForOrAgainst == 0 .. 1
ForOnly == {1}
InitialParams == [minQuorumVotesBPS |-> 3, maxQuorumVotesBPS |-> 6, quorumCoefficient |-> 10]
=============================================================================
