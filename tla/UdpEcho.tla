------------------------------ MODULE UdpEcho ------------------------------
(***************************************************************************)
(* The UDP echo programs: a server that answers whatever it reads, a       *)
(* client on nbio that sends one request and waits a second for the answer *)
(* (nb), and a client on net that sends three and waits for each (std).    *)
(* The network may lose, duplicate and reorder datagrams.                  *)
(***************************************************************************)
EXTENDS Naturals

CONSTANTS Requests,     \* of the std client
          MaxDuplicates \* bound: the duplicates the network makes
ASSUME SomeRequests == Requests \in Nat \ {0} /\ MaxDuplicates \in Nat

VARIABLES kind,         \* which client runs
          sender,       \* where it stands
          sent,         \* its current request
          doneClosed,   \* the nb client's channel
          requests, answers,    \* datagrams on the way, with their copies
          duplicates

echoVars == <<kind, sender, sent, doneClosed, requests, answers, duplicates>>

Copies == [1..Requests -> 0..(2 * MaxDuplicates + 2)]

UdpEchoTypeOK ==
    /\ kind \in {"nb", "std"}
    /\ sender \in {"write", "wait", "success", "timeout", "panicked"}
    /\ sent \in 1..Requests /\ doneClosed \in BOOLEAN
    /\ requests \in Copies /\ answers \in Copies /\ duplicates \in 0..MaxDuplicates

UdpEchoInit ==
    /\ kind \in {"nb", "std"} /\ sender = "write" /\ sent = 1 /\ doneClosed = FALSE
    /\ requests = [r \in 1..Requests |-> 0] /\ answers = requests /\ duplicates = 0

More(wire, r) == [wire EXCEPT ![r] = @ + 1]
Less(wire, r) == [wire EXCEPT ![r] = @ - 1]

-----------------------------------------------------------------------------
SenderWrites ==
    /\ sender = "write" /\ sender' = "wait" /\ requests' = More(requests, sent)
    /\ UNCHANGED <<kind, sent, doneClosed, answers, duplicates>>

(* Both servers: a datagram is read and sent back. *)
ServerAnswers ==
    \E r \in 1..Requests :
        /\ requests[r] > 0 /\ requests' = Less(requests, r) /\ answers' = More(answers, r)
        /\ UNCHANGED <<kind, sender, sent, doneClosed, duplicates>>

(* The nb client: OnData closes done, whatever has closed it before.  It   *)
(* is called until main has stopped the engine.                            *)
NbOnData ==
    /\ kind = "nb" /\ sender = "wait" /\ answers[1] > 0 /\ answers' = Less(answers, 1)
    /\ doneClosed' = TRUE /\ sender' = IF doneClosed THEN "panicked" ELSE sender
    /\ UNCHANGED <<kind, sent, requests, duplicates>>

(* main: the select; done or the timeout. *)
NbSelects ==
    /\ kind = "nb" /\ sender = "wait"
    /\ \/ doneClosed /\ sender' = "success"
       \/ sender' = "timeout"
    /\ UNCHANGED <<kind, sent, doneClosed, requests, answers, duplicates>>

(* The std client reads, without a timeout; another answer is a panic. *)
StdReads ==
    /\ kind = "std" /\ sender = "wait"
    /\ \E r \in 1..Requests :
          /\ answers[r] > 0 /\ answers' = Less(answers, r)
          /\ IF r # sent THEN sender' = "panicked" /\ UNCHANGED sent
             ELSE IF sent < Requests THEN sender' = "write" /\ sent' = sent + 1
             ELSE sender' = "success" /\ UNCHANGED sent
    /\ UNCHANGED <<kind, doneClosed, requests, duplicates>>

LoseOne ==
    \E r \in 1..Requests :
        /\ \/ requests[r] > 0 /\ requests' = Less(requests, r) /\ UNCHANGED answers
           \/ answers[r] > 0 /\ answers' = Less(answers, r) /\ UNCHANGED requests
        /\ UNCHANGED <<kind, sender, sent, doneClosed, duplicates>>

Duplicate ==
    \E r \in 1..Requests :
        /\ duplicates < MaxDuplicates /\ duplicates' = duplicates + 1
        /\ \/ requests[r] > 0 /\ requests' = More(requests, r) /\ UNCHANGED answers
           \/ answers[r] > 0 /\ answers' = More(answers, r) /\ UNCHANGED requests
        /\ UNCHANGED <<kind, sender, sent, doneClosed>>

UdpEchoNext ==
    \/ SenderWrites \/ ServerAnswers \/ NbOnData \/ NbSelects \/ StdReads
    \/ LoseOne \/ Duplicate

-----------------------------------------------------------------------------
(* Neither client survives every duplicate: the nb client would close done *)
(* twice, the std client would compare an old answer with a new request.   *)
(* But without a duplicate, whatever is lost, neither panics.              *)
PanicNeedsDuplicate == sender = "panicked" => duplicates > 0
=============================================================================
