----------------------------- MODULE LoadReport -----------------------------
(***************************************************************************)
(* The counters of a load generator and its report, which swaps success    *)
(* and failed for zero once per second and adds what they held to the      *)
(* totals, while the goroutines of the test go on counting.                *)
(***************************************************************************)
EXTENDS CountingServer

VARIABLES success, failed,              \* counted since the last report
          nSuccess, nFailed,            \* swapped, not added yet
          totalSuccess, totalFailed,
          reporting                     \* where the report stands

reportVars == <<success, failed, nSuccess, nFailed, totalSuccess, totalFailed, reporting>>

ReportTypeOK ==
    /\ success \in Nat /\ failed \in Nat
    /\ nSuccess \in Nat /\ nFailed \in Nat
    /\ totalSuccess \in Nat /\ totalFailed \in Nat
    /\ reporting \in {"ticker", "success", "failed"}

ReportInit ==
    /\ success = 0 /\ failed = 0 /\ nSuccess = 0 /\ nFailed = 0
    /\ totalSuccess = 0 /\ totalFailed = 0 /\ reporting = "ticker"

Succeed == success' = success + 1 /\
    UNCHANGED <<failed, nSuccess, nFailed, totalSuccess, totalFailed, reporting>>

Fail == failed' = failed + 1 /\
    UNCHANGED <<success, nSuccess, nFailed, totalSuccess, totalFailed, reporting>>

(* The tick: nSuccess := atomic.SwapUint64(&success, 0). *)
SwapSuccess ==
    /\ reporting = "ticker" /\ reporting' = "success"
    /\ nSuccess' = success /\ success' = 0
    /\ UNCHANGED <<failed, nFailed, totalSuccess, totalFailed>>

(* nFailed := atomic.SwapUint64(&failed, 0). *)
SwapFailed ==
    /\ reporting = "success" /\ reporting' = "failed"
    /\ nFailed' = failed /\ failed' = 0
    /\ UNCHANGED <<success, nSuccess, totalSuccess, totalFailed>>

(* The totals, which only the report uses, and the line it prints. *)
AddTotals ==
    /\ reporting = "failed" /\ reporting' = "ticker"
    /\ totalSuccess' = totalSuccess + nSuccess /\ nSuccess' = 0
    /\ totalFailed' = totalFailed + nFailed /\ nFailed' = 0
    /\ UNCHANGED <<success, failed>>

(* What has been counted so far, wherever the count is. *)
Successes == success + nSuccess + totalSuccess
Failures == failed + nFailed + totalFailed

Reports == INSTANCE Tally WITH served <- Served, counted <- Successes

(* Whatever the interleaving of the client's and the server's swaps with   *)
(* the counting: the client never counts more than the server, and neither *)
(* loses a count.                                                          *)
TallySpec == Reports!Spec
=============================================================================
