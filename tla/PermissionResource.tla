------------------------- MODULE PermissionResource -------------------------
(***************************************************************************)
(* What the rest of the cluster may rely on of a Permission resource: the  *)
(* policy its user wants, the copy of it a worker has in hand, the policy  *)
(* in force in RAM, and what the status reports. How the worker gets RAM   *)
(* there (versions, tags, copies of the status) is Permission's affair,    *)
(* which implements this; a ResourceShare that refers to the resource is   *)
(* composed with it.                                                       *)
(***************************************************************************)
CONSTANTS Templates, NoTemplate

VARIABLE res

Conditions == {"none", "True", "False", "error", "terminal"}
Record ==
  [life : {"unmanaged", "managed", "deleting", "gone"},
   wanted : Templates,                     \* the spec
   pending : BOOLEAN,                      \* in the work queue
   doing : {"nothing", "apply", "remove"}, \* what the worker is at
   copy : Templates \cup {NoTemplate},     \* the spec it has in hand
   inForce : Templates \cup {NoTemplate},  \* the policy RAM enforces
   reported : Conditions,                  \* the Synced and Terminal conditions
   known : BOOLEAN]                        \* the status has the ARN

Fresh(t) == [life |-> "unmanaged", wanted |-> t, pending |-> TRUE, doing |-> "nothing",
             copy |-> NoTemplate, inForce |-> NoTemplate, reported |-> "none", known |-> FALSE]

Idle(r) == [r EXCEPT !.doing = "nothing", !.copy = NoTemplate]
Busy == res.doing # "nothing"
Exists == res.life # "gone"

-----------------------------------------------------------------------------
(* The user and the resync timer.                                          *)

Edit == /\ res.life \in {"unmanaged", "managed"}
        /\ \E t \in Templates : res' = [res EXCEPT !.wanted = t, !.pending = TRUE]

Delete == /\ res.life \in {"unmanaged", "managed"}
          /\ res' = [res EXCEPT !.life = IF @ = "managed" THEN "deleting" ELSE "gone",
                                !.pending = TRUE]

Resync == Exists /\ ~Busy /\ res' = [res EXCEPT !.pending = TRUE]

-----------------------------------------------------------------------------
(* The worker.                                                             *)

Take == /\ Exists /\ ~Busy /\ res.pending
        /\ res' = [res EXCEPT !.pending = FALSE, !.copy = res.wanted,
                              !.doing = IF res.life = "deleting" THEN "remove" ELSE "apply"]

\* The finalizer comes before anything in RAM.
Manage == /\ res.doing = "apply" /\ res.life = "unmanaged"
          /\ res' = [res EXCEPT !.life = "managed"]

Publish == /\ res.doing = "apply" /\ res.life \in {"managed", "deleting"}
           /\ res' = [res EXCEPT !.inForce = res.copy]

\* Synced is said only when RAM enforces the policy the worker has in hand, and
\* a terminal condition is never the end of a deletion.
Report(c) ==
  /\ Busy /\ Exists
  /\ c = "True" => res.doing = "apply" /\ res.inForce = res.copy
  /\ res.doing = "remove" => c = "error"
  /\ \E k \in {res.known, TRUE} :
       /\ c = "True" => k
       /\ res' = Idle([res EXCEPT !.reported = c, !.known = k,
                                  !.pending = res.pending \/ c \in {"error", "False"}])

\* A restart, or a status patch that fails.
GiveUp == res' = Idle([res EXCEPT !.pending = TRUE])

\* The resource left the cluster while the worker was at it.
Drop == ~Exists /\ Busy /\ \E b \in BOOLEAN : res' = Idle([res EXCEPT !.pending = b])

Unpublish == /\ res.doing = "remove" /\ res.inForce # NoTemplate
             /\ res' = [res EXCEPT !.inForce = NoTemplate]

\* The finalizer goes after the policy, as long as the status knows of it.
Remove == /\ res.doing = "remove" /\ (res.known => res.inForce = NoTemplate)
          /\ res' = Idle([res EXCEPT !.life = "gone"])

-----------------------------------------------------------------------------
Init == \E t \in Templates : res = Fresh(t)

Worker == Take \/ Manage \/ Publish \/ (\E c \in Conditions : Report(c)) \/ GiveUp \/ Drop
          \/ Unpublish \/ Remove
Next == Edit \/ Delete \/ Resync \/ Worker
Spec == Init /\ [][Next]_res

-----------------------------------------------------------------------------
\* With nothing pending, Synced means that RAM enforces what the user wants.
SyncedMeansInForce ==
  ~Busy /\ ~res.pending /\ res.life = "managed" /\ res.reported = "True"
    => res.inForce = res.wanted

\* The resource does not leave the cluster before a policy its status knows of
\* is out of force.
GoneMeansOutOfForce == ~Exists /\ res.known => res.inForce = NoTemplate
=============================================================================
