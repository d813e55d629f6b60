------------------------------ MODULE TlsCount ------------------------------
(***************************************************************************)
(* The test of the TLS server, tls_test: its client writes readCount       *)
(* records and waits for a context which the server cancels when its       *)
(* OnData has been called readCount times.  The library's WrapData calls   *)
(* OnData for the first record only of what a poller has read at once (its *)
(* loop is that of wrapData in TlsRing): the others wait for the next      *)
(* event.  TestTLS dials a nanosecond (time.Sleep(1)) after it has started *)
(* the server's goroutine: the server may listen by then or not.           *)
(***************************************************************************)
EXTENDS Naturals

CONSTANT readCount
ASSUME SomeRecords == readCount \in Nat \ {0}

VARIABLES listening,    \* g.Start has opened the server's listener
          sentRecords,  \* records the client has written
          onTheWay,     \* records not yet read by the server's poller
          leftover,     \* records appended to tls.Conn and not read from it
          count,        \* calls of OnData
          ctxDone,      \* cancelFunc was called
          together,     \* a poller has read two records at once
          testAt        \* where TestTLS stands

countVars == <<listening, sentRecords, onTheWay, leftover, count, ctxDone, together, testAt>>

TlsCountTypeOK ==
    /\ count \in 0..readCount /\ onTheWay \in Nat /\ leftover \in Nat
    /\ sentRecords = onTheWay + leftover + count /\ sentRecords =< readCount
    /\ listening \in BOOLEAN /\ ctxDone \in BOOLEAN /\ together \in BOOLEAN
    /\ testAt \in {"dials", "writes", "waits", "passed", "panicked"}

TlsCountInit ==
    /\ sentRecords = 0 /\ onTheWay = 0 /\ leftover = 0 /\ count = 0
    /\ listening = FALSE /\ ctxDone = FALSE /\ together = FALSE /\ testAt = "dials"

(* server: g.Start. *)
TestServerStarts ==
    /\ ~listening /\ testAt # "panicked" /\ listening' = TRUE
    /\ UNCHANGED <<sentRecords, onTheWay, leftover, count, ctxDone, together, testAt>>

(* client: tls.Dial, which panics when the server does not listen yet. *)
TestDials ==
    /\ testAt = "dials" /\ testAt' = IF listening THEN "writes" ELSE "panicked"
    /\ UNCHANGED <<listening, sentRecords, onTheWay, leftover, count, ctxDone, together>>

(* client: the loop over conn.Write. *)
TestWrites ==
    /\ testAt = "writes"
    /\ sentRecords' = sentRecords + 1 /\ onTheWay' = onTheWay + 1
    /\ testAt' = IF sentRecords' = readCount THEN "waits" ELSE "writes"
    /\ UNCHANGED <<listening, leftover, count, ctxDone, together>>

(* client: <-ctx.Done().  server waits in g.Wait and never gets to Done,   *)
(* so that TestTLS's own Done is the only one.                             *)
TestReturns ==
    /\ testAt = "waits" /\ ctxDone /\ testAt' = "passed"
    /\ UNCHANGED <<listening, sentRecords, onTheWay, leftover, count, ctxDone, together>>

(* server: an event, WrapData and OnData. *)
TestOnData ==
    \E k \in 1..onTheWay :
        /\ onTheWay' = onTheWay - k /\ together' = (together \/ k > 1)
        /\ leftover' = leftover + k - 1
        /\ count' = count + 1 /\ ctxDone' = (ctxDone \/ count' = readCount)
        /\ UNCHANGED <<listening, sentRecords, testAt>>

TlsCountNext == TestServerStarts \/ TestDials \/ TestWrites \/ TestReturns \/ TestOnData

-----------------------------------------------------------------------------
(* Records that are read at once are counted as one: the test passes only  *)
(* if every record was read on its own,                                    *)
PassNeedsSeparateRecords == ctxDone => ~together

(* and then it does pass.  It waits for ever when records were read at     *)
(* once, and panics when it has dialled before the server listens.         *)
TestReturnsOrMerged ==
    \/ testAt = "passed"
    \/ together
    \/ testAt = "panicked" /\ ~listening
=============================================================================
