------------------------------- MODULE LoadMC -------------------------------
(* The load generators against the counting websocket servers, one of the   *)
(* programs at a time.                                                      *)
EXTENDS LoadTest, PoolLoad

VARIABLE program

MCFlags == {[c |-> 2, g |-> 2], [c |-> 3, g |-> 2], [c |-> 1, g |-> 2]}
MCSettings == {[mode |-> "handlers", c |-> 2, g |-> 1, sleep |-> TRUE],
               [mode |-> "handlers", c |-> 1, g |-> 1, sleep |-> FALSE],
               [mode |-> "loops", c |-> 2, g |-> 2, sleep |-> FALSE]}

poolOwnVars == <<setting, poolVars, echoVars, crashed>>

MCInit ==
    /\ protocol = "websocket" /\ ServerInit /\ ReportInit /\ LoadInit /\ PoolLoadInit
    /\ program \in {"test", "pool"}
    /\ program = "test" => setting = CHOOSE s \in Settings : TRUE
    /\ program = "pool" => flags = CHOOSE f \in Flags : TRUE

MCNext ==
    \/ program = "test" /\ LoadNext /\ UNCHANGED <<poolOwnVars, program>>
    \/ program = "pool" /\ PoolLoadNext /\ UNCHANGED <<clientVars, program>>

MCSpec ==
    /\ MCInit /\ [][MCNext]_<<serverVars, reportVars, clientVars, poolOwnVars, program>>
    /\ ServerFairness
    /\ WF_loadVars(program = "test" /\ MainStep)
    /\ \A g \in 1..MaxLoops : WF_loadVars(program = "test" /\ LoopStep(g))
    /\ WF_poolLoadVars(program = "pool" /\ (Starter \/ StartTask))
    /\ \A c \in Conns : WF_poolLoadVars(program = "pool" /\ (Task(c) \/ Handle(c)))
    /\ \A g \in 1..MaxLoopers : WF_poolLoadVars(program = "pool" /\ Loop(g))

(* Type correctness of the programs. *)
LoadersTypeOK == LoadTypeOK /\ PoolLoadTypeOK

(* No echo is counted before the last connection is made, main waits for    *)
(* ever exactly for the connections that division has left out, and only a  *)
(* broken connection makes a loop report a failure.                         *)
TestCountsAfterStart == program = "test" => CountsAfterStart
TestIsSound == TestCountsAfterStart /\ UnevenTestsWait /\ FailureNeedsBreak

(* When Wait returns every task has stored its connection, each connection   *)
(* carries one message at a time, and only a broken one makes OnMessage panic. *)
PoolLoadIsSound == NoNilConnection /\ OneMessageEach /\ PanicNeedsBreak

(* A test whose loops divide its connections ends with the report, and every *)
(* connection of the pooled clients gets its echoes.                         *)
TestEnds == program = "test" /\ Even ~> main = "exited"
PoolEchoes == program = "pool" ~> AllEchoed
LoadersFinish == TestEnds /\ PoolEchoes
=============================================================================
