--------------------------- MODULE MountRelation ---------------------------
(***************************************************************************)
(* filesystem-client together with the workloads at the other end of its   *)
(* mount relations: MountRequires in mount_info.py, and test-mount-client. *)
(*                                                                         *)
(* A workload learns of the mounted flag from relation-changed events,     *)
(* which Juju queues when a hook of the client leaves another value in its *)
(* databag than it found, whatever it wrote in between.                    *)
(***************************************************************************)
EXTENDS FilesystemClient

VARIABLES
    notices,  \* the relations with a relation-changed event for the workload
    heard     \* heard[r]: the last event emitted to the workload of r

relationVars == <<notices, heard>>
allVars == <<vars, relationVars>>

MountInit ==
    /\ Init
    /\ notices = {}
    /\ heard = [r \in Relations |-> "nothing"]

(* The event that MountRequires makes of the flag; none before it is set. *)
Emitted(r) ==
    CASE mounted[r] = "true" -> "mounted"
      [] mounted[r] = "false" -> "unmounted"
      [] OTHER -> heard[r]

OnRelationChanged(r) ==
    /\ r \in notices
    /\ notices' = notices \ {r}
    /\ heard' = [heard EXCEPT ![r] = Emitted(r)]
    /\ UNCHANGED vars

(* Juju's comparison at the end of the client's hook.  Mutant: a relation is told
   once. *)
Told_Once == {r \in Related : mounted'[r] # mounted[r] /\ heard[r] = "nothing"}
Told == {r \in Related : mounted'[r] # mounted[r]}

CommitAndNotify ==
    /\ Commit
    /\ notices' = notices \cup Told
    /\ UNCHANGED heard

(* A relation that is made or removed starts with nothing. *)
RelateWorkload(r) ==
    /\ Relate(r)
    /\ notices' = notices \ {r}
    /\ heard' = [heard EXCEPT ![r] = "nothing"]

(* on_config_changed of the workload, and its provider-connected event. *)
OnConfigChanged ==
    /\ \E r \in Relations, q \in Requests : SetMountInfo(r, q)
    /\ UNCHANGED relationVars

Elsewhere ==
    /\ \/ HandleEvent \/ Setup \/ Mount \/ Reload
       \/ Crash \/ Reboot \/ Configure \/ UmountFilesystem
       \/ \E e \in Endpoints : SetEndpoint(e)
    /\ UNCHANGED relationVars

MountNext ==
    \/ Elsewhere \/ CommitAndNotify \/ OnConfigChanged
    \/ \E r \in Relations : OnRelationChanged(r) \/ RelateWorkload(r)

MountSpec == MountInit /\ [][MountNext]_allVars

(* Juju dispatches to both charms. *)
MountFairness ==
    /\ WF_allVars(HandleEvent /\ UNCHANGED relationVars)
    /\ WF_allVars((Setup \/ Mount \/ Reload) /\ UNCHANGED relationVars)
    /\ WF_allVars(CommitAndNotify)
    /\ \A r \in Relations : WF_allVars(OnRelationChanged(r))

FairMountSpec == MountSpec /\ MountFairness

-----------------------------------------------------------------------------
(* Properties. *)

(* A workload that heard "mounted" last can use the filesystem between two hooks of
   the client, even with a newer event queued: autofs serves an entry, and it is the
   one in the map (mount_info.py:186-231, charm.py:50-96). *)
HeardIsServed ==
    \A r \in Relations :
        heard[r] = "mounted" /\ hook.pc = "idle" => served = host.map /\ served # NoEntry

(* If in the end there is something to mount, then in the end it is mounted and
   the workload has heard so, whatever it heard before (mount_info.py:196-214). *)
WorkloadLearns ==
    \A q \in Requests, e \in Endpoints :
        <>[]Wanted(q, e) =>
            <>[](served = Entry(q, e) /\ \A r \in Related : heard[r] = "mounted")
=============================================================================
