---------------------------- MODULE StickyClient ----------------------------
(***************************************************************************)
(* websocket_tls/sticky/client: main dials a few connections to an echo    *)
(* server and gives a task pool more tasks than there are connections.     *)
(* Task i writes a text message to connection i % clientNum, reads the     *)
(* answer, and does the same with a binary message.  Nothing keeps two     *)
(* tasks of a connection apart but that the pool runs only clientNum of    *)
(* them at a time.                                                         *)
(***************************************************************************)
EXTENDS Naturals, Sequences, FiniteSets

CONSTANTS Tasks,        \* the number of lengths in nn
          ClientNum     \* connections, and workers of the pool

ASSUME CountsArePositive == Tasks \in Nat \ {0} /\ ClientNum \in Nat \ {0}

VARIABLES task,         \* what each task is doing
          next,         \* the task pool.Go is called with next
          toServer, toClient,   \* messages in flight on each connection
          success,      \* the slice of finished lengths
          old,          \* the slice a task is appending to
          main

taskVars == <<task, next, toServer, toClient, success, old, main>>

TaskIds == 0..Tasks - 1
TaskConns == 0..ClientNum - 1
ConnOf(t) == t % ClientNum

(* Lengths and contents of the tasks differ, so a message is known by its  *)
(* task and type.                                                          *)
TaskMessages == [task : TaskIds, type : {"text", "binary"}]
TaskMessage(t) == [task |-> t, type |-> IF task[t] \in {"write text", "read text"}
                                    THEN "text" ELSE "binary"]

TaskTypeOK ==
    /\ task \in [TaskIds -> {"none", "queued", "write text", "read text", "write binary",
                             "read binary", "append", "store", "done"}]
    /\ next \in 0..Tasks
    /\ toServer \in [TaskConns -> Seq(TaskMessages)]
    /\ toClient \in [TaskConns -> Seq(TaskMessages)]
    /\ success \in Seq(TaskIds)
    /\ old \in [TaskIds -> Seq(TaskIds)]
    /\ main \in {"adding", "waiting", "done", "fatal"}

TaskInit ==
    /\ task = [t \in TaskIds |-> "none"]
    /\ next = 0
    /\ toServer = [c \in TaskConns |-> <<>>] /\ toClient = [c \in TaskConns |-> <<>>]
    /\ success = <<>>
    /\ old = [t \in TaskIds |-> <<>>]
    /\ main = "adding"

TaskTo(t, from, to) ==
    /\ main \notin {"done", "fatal"}
    /\ task[t] = from /\ task' = [task EXCEPT ![t] = to]

Running == {t \in TaskIds : task[t] \notin {"none", "queued", "done"}}

-----------------------------------------------------------------------------
(* main: wg.Add(1), then pool.Go queues the task. *)
Go ==
    /\ main = "adding"
    /\ task' = [task EXCEPT ![next] = "queued"]
    /\ next' = next + 1
    /\ main' = IF next' = Tasks THEN "waiting" ELSE "adding"
    /\ UNCHANGED <<toServer, toClient, success, old>>

(* The pool runs the tasks in the order of Go, ClientNum at a time.        *)
Start(t) ==
    /\ TaskTo(t, "queued", "write text")
    /\ Cardinality(Running) < ClientNum
    /\ \A u \in 0..t - 1 : task[u] # "queued"
    /\ UNCHANGED <<next, toServer, toClient, success, old, main>>

(* A task: c.WriteMessage. *)
Write(t) ==
    /\ \/ TaskTo(t, "write text", "read text")
       \/ TaskTo(t, "write binary", "read binary")
    /\ toServer' = [toServer EXCEPT ![ConnOf(t)] = Append(@, TaskMessage(t))]
    /\ UNCHANGED <<next, toClient, success, old, main>>

(* A task: c.ReadMessage takes the next message of the connection; when it *)
(* is not the task's own, log.Fatalf ends the process.                     *)
Read(t) ==
    LET c == ConnOf(t)
    IN  /\ toClient[c] # <<>>
        /\ \/ TaskTo(t, "read text", "write binary")
           \/ TaskTo(t, "read binary", "append")
        /\ toClient' = [toClient EXCEPT ![c] = Tail(@)]
        /\ main' = IF Head(toClient[c]) = TaskMessage(t) THEN main ELSE "fatal"
        /\ UNCHANGED <<next, toServer, success, old>>

(* A task: success = append(success, n) reads the slice and stores it, no  *)
(* lock is held.                                                           *)
ReadSuccess(t) ==
    /\ TaskTo(t, "append", "store")
    /\ old' = [old EXCEPT ![t] = success]
    /\ UNCHANGED <<next, toServer, toClient, success, main>>

(* ... and the deferred wg.Done.                                           *)
StoreSuccess(t) ==
    /\ TaskTo(t, "store", "done")
    /\ success' = Append(old[t], t)
    /\ old' = [old EXCEPT ![t] = <<>>]
    /\ UNCHANGED <<next, toServer, toClient, main>>

(* Mutant: main does not wait for the last worker. *)
WaitTooShort ==
    /\ main = "waiting" /\ Cardinality({t \in TaskIds : task[t] = "done"}) >= Tasks - 1
    /\ main' = "done"
    /\ UNCHANGED <<task, next, toServer, toClient, success, old>>

(* main: wg.Wait returns. *)
Wait ==
    /\ main = "waiting" /\ \A t \in TaskIds : task[t] = "done"
    /\ main' = "done"
    /\ UNCHANGED <<task, next, toServer, toClient, success, old>>

(* The server answers the messages of a connection in order.               *)
TaskServerEcho(c) ==
    /\ toServer[c] # <<>>
    /\ toServer' = [toServer EXCEPT ![c] = Tail(@)]
    /\ toClient' = [toClient EXCEPT ![c] = Append(@, Head(toServer[c]))]
    /\ UNCHANGED <<task, next, success, old, main>>

TaskStep(t) == Start(t) \/ Write(t) \/ Read(t) \/ ReadSuccess(t) \/ StoreSuccess(t)

TaskNext ==
    \/ Go \/ Wait
    \/ \E t \in TaskIds : TaskStep(t)
    \/ \E c \in TaskConns : TaskServerEcho(c)

TaskSpec == TaskInit /\ [][TaskNext]_taskVars

-----------------------------------------------------------------------------
(* A task never reads what is not its own message, as the tasks assert     *)
(* with log.Fatalf.                                                        *)
EachItsOwn == main # "fatal"

(* On a connection there are as many messages on the way as tasks waiting  *)
(* to read: sharing it may mix up the answers but lets no task starve.     *)
AnAnswerForEach ==
    main # "fatal" =>
        \A c \in TaskConns :
            Cardinality({t \in TaskIds : ConnOf(t) = c /\ task[t] \in {"read text", "read binary"}})
                = Len(toServer[c]) + Len(toClient[c])

(* What main reports when wg.Wait has returned are tasks that are done,    *)
(* each once; some may have been overwritten by a concurrent append.       *)
ReportIsHonest ==
    main = "done" => /\ \A t \in TaskIds : task[t] = "done"
                     /\ success # <<>>
                     /\ \A i, j \in 1..Len(success) : i # j => success[i] # success[j]

(* The client always ends, by wg.Wait or by log.Fatalf.                    *)
Ends == <>(main \in {"done", "fatal"})
=============================================================================
