--------------------------- MODULE DocumentedClaims --------------------------
(***************************************************************************)
(* Statements of the repository's documentation and messages about the     *)
(* service that its code does not keep.  A run refutes each of them.       *)
(***************************************************************************)
EXTENDS ImportDeploy

\* README.md:106, on PUT: "Changing owner or kafka_topic is not allowed."
\* The request's owner is always empty, and replaces the stored one.
OwnerKept ==
    [][\A i \in Ids : records[i] # NoRecord /\ records'[i] # NoRecord
            => records'[i].owner = records[i].owner]_vars

\* mongo/instances.go:245, "requested instance nonexistent or missing rights": an
\* update of an instance that does not exist is turned down.  A DELETE between the
\* check and ReplaceOne makes the upsert bring the document back.
UpdateNeedsDocument ==
    [][\A r \in Reqs : pc[r] = "replace" /\ pc'[r] = "ok" => records[target[r]] # NoRecord]_vars

\* kubernetes-api/api.go:138, "update deployment": a deployment that is there, and no
\* failing call, is all that UpdateContainer needs to update in place.
UpdateAccepted ==
    [][\A r \in Reqs :
            /\ pc[r] = "update" /\ pc'[r] \notin {"update", "killed"}
            /\ OfKind(target[r], TRUE) # {}
            /\ faults' = faults
            => pc'[r] = "mayWrite"]_vars
\* mongo/instances.go:245, "requested instance nonexistent or missing rights": a PUT or
\* DELETE whose user lacks the right is turned down, and the instance stays as it was,
\* with its container.  The right is looked at when the container is gone already.
RefusalChangesNothing ==
    [][\A r \in Reqs :
            /\ pc[r] \in {"mayWrite", "mayDelete"}
            /\ pc'[r] = "failed"
            /\ faults' = faults
            => Deployed(target[r])]_vars
=============================================================================
