--------------------------- MODULE BatchImageLedger ---------------------------
(***************************************************************************)
(* The money of batch image jobs: a user's balance, the user's frozen      *)
(* balance, and the rows of usage_billing_dedup that make the reservation, *)
(* the capture and the release of a job's hold each happen once.  Every    *)
(* operation is one transaction.  The frozen balance is one number per     *)
(* user: it also holds what the user's other batches have frozen.          *)
(***************************************************************************)
EXTENDS BatchImage, Integers

CONSTANTS
    Hold,       \* what a job's submission freezes (hold_amount)
    Start,      \* at most what the user has at the start
    Elsewhere   \* frozen at the start, for the user's other batches

ASSUME MoneyAssumption == Hold \in Nat \ {0} /\ Start \in Nat /\ Elsewhere \in Nat

VARIABLES
    balance, frozen,
    held, captured, released, \* jobs whose batch_image_hold:, batch_image_capture:
                              \* and batch_image_release: request id is claimed
    returned    \* history: jobs whose release moved money

ledgerVars == <<balance, frozen, held, captured, released, returned>>

LedgerTypeOK ==
    /\ balance \in Nat /\ frozen \in Nat
    /\ held \subseteq Jobs /\ captured \subseteq Jobs
    /\ released \subseteq Jobs /\ returned \subseteq released

LedgerInit ==
    /\ balance \in 0..Start /\ frozen = Elsewhere
    /\ held = {} /\ captured = {} /\ released = {} /\ returned = {}

-----------------------------------------------------------------------------
(* Mutant: the reservation overdraws the balance. *)
ReserveHoldOverdraft(j) ==
    /\ j \notin held
    /\ held' = held \cup {j}
    /\ balance' = balance - Hold /\ frozen' = frozen + Hold
    /\ UNCHANGED <<captured, released, returned>>

(* ReserveBatchImageBalance, applied and refused. *)
ReserveHold(j) ==
    /\ j \notin held /\ balance >= Hold
    /\ held' = held \cup {j}
    /\ balance' = balance - Hold /\ frozen' = frozen + Hold
    /\ UNCHANGED <<captured, released, returned>>
ReserveRefused(j) == j \notin held /\ balance < Hold /\ UNCHANGED ledgerVars

(* CaptureBatchImageBalance for an amount, applied, found done and refused. *)
CaptureHold(j, amount) ==
    \/ j \in captured /\ UNCHANGED ledgerVars
    \/ /\ j \notin captured /\ amount <= Hold /\ frozen >= Hold
       /\ captured' = captured \cup {j}
       /\ balance' = balance + (Hold - amount) /\ frozen' = frozen - Hold
       /\ UNCHANGED <<held, released, returned>>
CaptureRefused(j, amount) ==
    /\ j \notin captured /\ (amount > Hold \/ frozen < Hold)
    /\ UNCHANGED ledgerVars

(* Mutant: the check that a hold was ever reserved is missing. *)
ReleaseHoldUnchecked(j) ==
    \/ j \in released /\ UNCHANGED ledgerVars
    \/ /\ j \notin released /\ frozen >= Hold
       /\ released' = released \cup {j} /\ returned' = returned \cup {j}
       /\ balance' = balance + Hold /\ frozen' = frozen - Hold
       /\ UNCHANGED <<held, captured>>

(* ReleaseBatchImageBalance, found done, with nothing held, applied and    *)
(* refused.  With nothing held it still claims the request id.             *)
ReleaseHold(j) ==
    \/ j \in released /\ UNCHANGED ledgerVars
    \/ /\ j \notin released /\ j \notin held
       /\ released' = released \cup {j}
       /\ UNCHANGED <<balance, frozen, held, captured, returned>>
    \/ /\ j \notin released /\ j \in held /\ frozen >= Hold
       /\ released' = released \cup {j} /\ returned' = returned \cup {j}
       /\ balance' = balance + Hold /\ frozen' = frozen - Hold
       /\ UNCHANGED <<held, captured>>
ReleaseRefused(j) ==
    /\ j \notin released /\ j \in held /\ frozen < Hold
    /\ UNCHANGED ledgerVars
=============================================================================
