------------------------------- MODULE BatchImage -------------------------------
(* What the batch image modules share: the jobs and their status machine.   *)
CONSTANT Jobs   \* batch jobs of one user

(* "none" is a job whose row has not been inserted. *)
Statuses == {"none", "created", "uploading", "submitted", "running", "indexing",
             "settling", "completed", "failed", "cancelled", "output_deleted"}
Terminal == {"completed", "failed", "cancelled", "output_deleted"}

(* Statuses a job may pass to, failed aside. *)
Allowed ==
    [created   |-> {"uploading", "submitted", "cancelled"},
     uploading |-> {"submitted", "cancelled"},
     submitted |-> {"running", "indexing", "cancelled"},
     running   |-> {"running", "indexing", "cancelled"},
     indexing  |-> {"settling"},
     settling  |-> {"completed"}]

(* CanTransitionBatchImageJob, for the targets callers ask for. *)
CanTransition(from, to) ==
    from \notin Terminal \cup {"none"} /\ (to = "failed" \/ to \in Allowed[from])
=============================================================================
