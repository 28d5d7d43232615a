--------------------------- MODULE FilesystemInfo ---------------------------
(***************************************************************************)
(* The provider's side of the filesystem relation: the units of a server   *)
(* proxy, whose config-changed hooks publish an endpoint (charm.py of the  *)
(* proxies), the library that keeps it in the peer relation and copies it  *)
(* to every client relation (FilesystemProvides), and what a client reads  *)
(* there (the conversions to a URI and back, the Ceph secret).             *)
(*                                                                         *)
(* A hook is two steps: Handle runs the handler, Flush commits its writes, *)
(* if it has any.                                                          *)
(***************************************************************************)
EXTENDS Naturals, Sequences

CONSTANTS
    Units,
    Clients,           \* the client relations that may exist
    Proxies,           \* of each proxy charm: the configurations it may get
    NoInfo,            \* a configuration that lacks an option
    NoUri,
    NoKey,
    Unrelated,
    Denied,            \* what a client reads that may not read the secret
    ConfigChanged,     \* the event
    SettledElections,  \* leadership moves only to a unit between two hooks
    MaxElections,      \* bound: elections
    MaxCrashes,        \* bound: hooks that are killed
    MaxChanges,        \* bound: changes of the configuration
    MaxRelations       \* bound: relations made or removed

VARIABLES
    proxy,      \* the charm
    config,
    leader,
    peer,       \* the endpoint in the peer relation
    secret,     \* the content of the secret with label "auth"
    granted,    \* the relations that may read it
    bag,        \* bag[c]: the endpoint in client relation c
    pending,    \* pending[u]: events that Juju has for unit u
    hook,       \* hook[u]: where the hook of u is, its event, its writes
    used        \* how much of each bound has been spent

databags == <<peer, secret, granted, bag>>
vars == <<proxy, config, leader, databags, pending, hook, used>>

-----------------------------------------------------------------------------
(* Infos and URIs: a host as it was typed, a path as its steps.  An info of
   cephfs has a key, its URI the identity of the one secret. *)

Host == [name : STRING, upper : BOOLEAN]
Path == [steps : Seq(STRING), absolute : BOOLEAN]
Uri == [type : {"nfs", "cephfs", "lustre"}, hosts : Seq(Host), path : Path]

(* The list of hosts is not empty: mgs-nids may be set to blanks.  Mutant:
   nobody looks. *)
Valid_Any(i) == TRUE
Valid(i) == i.hosts # <<>>

(* A URI has an absolute path. *)
ToUri(i) == [type |-> i.type, hosts |-> i.hosts,
             path |-> [i.path EXCEPT !.absolute = TRUE]]

(* The host of a URI is read in lower case.  *)
Lower(host) == [host EXCEPT !.upper = FALSE]
FromUri(uri, key) ==
    [type |-> uri.type,
     hosts |-> [n \in DOMAIN uri.hosts |-> Lower(uri.hosts[n])],
     path |-> uri.path,
     key |-> IF uri.type = "cephfs" THEN key ELSE NoKey]

-----------------------------------------------------------------------------
(* State. *)

Infos == (UNION Proxies) \ {NoInfo}
(* A URI names a host. *)
Endpoints == {ToUri(i) : i \in {j \in Infos : j.hosts # <<>>}}
AllKeys == {i.key : i \in Infos} \cup {NoKey}
Events == {ConfigChanged} \cup Clients

(* A hook in error is run again by Juju, with the same event. *)
Hook == [pc : {"idle", "flush", "error"}, event : Events,
         uri : Endpoints \cup {NoUri}, key : AllKeys, to : SUBSET Clients]
Idle == [pc |-> "idle", event |-> ConfigChanged, uri |-> NoUri, key |-> NoKey, to |-> {}]

ASSUME NamesAssumption ==
    /\ NoUri \notin Endpoints /\ Unrelated \notin Endpoints \cup {NoUri}
    /\ \A e \in Endpoints, k \in AllKeys : FromUri(e, k) \notin {NoUri, Unrelated}
    /\ ConfigChanged \notin Clients
    /\ \A i \in Infos : i.type = "cephfs" <=> i.key # NoKey
ASSUME LimitsAssumption ==
    /\ SettledElections \in BOOLEAN /\ MaxElections \in Nat
    /\ MaxCrashes \in Nat /\ MaxChanges \in Nat /\ MaxRelations \in Nat

TypeOK ==
    /\ proxy \in Proxies /\ config \in proxy
    /\ leader \in Units
    /\ peer \in Endpoints \cup {NoUri}
    /\ secret \in AllKeys
    /\ granted \subseteq Clients
    /\ bag \in [Clients -> Endpoints \cup {NoUri, Unrelated}]
    /\ pending \in [Units -> SUBSET Events]
    /\ hook \in [Units -> Hook]
    /\ used \in [elections : Nat, crashes : Nat, changes : Nat, relations : Nat]

Init ==
    /\ proxy \in Proxies /\ config \in proxy
    /\ leader \in Units
    /\ peer = NoUri /\ secret = NoKey /\ granted = {}
    /\ bag = [c \in Clients |-> Unrelated]
    /\ pending = [u \in Units |-> {ConfigChanged}]
    /\ hook = [u \in Units |-> Idle]
    /\ used = [elections |-> 0, crashes |-> 0, changes |-> 0, relations |-> 0]

Related == {c \in Clients : bag[c] # Unrelated}

-----------------------------------------------------------------------------
(* The handlers.  A Write is what Flush commits: a new endpoint in the peer
   relation and in these relations, which are granted the secret. *)

Write(u, event, uri, key, to) ==
    hook' = [hook EXCEPT ![u] =
               [pc |-> "flush", event |-> event, uri |-> uri, key |-> key, to |-> to]]
Nothing(u) == hook' = [hook EXCEPT ![u] = Idle]
Error(u, event) ==
    hook' = [hook EXCEPT ![u] = [Idle EXCEPT !.pc = "error", !.event = event]]

(* _on_config_changed and set_info.  Who is not the leader writes nothing. *)
SetInfo(u) ==
    IF config = NoInfo \/ u # leader THEN Nothing(u)
    ELSE IF Valid(config) THEN Write(u, ConfigChanged, ToUri(config), config.key, Related)
    ELSE Error(u, ConfigChanged)

(* _update_relation, on relation-joined. *)
UpdateRelation(u, c) ==
    IF u # leader \/ peer = NoUri THEN Nothing(u)
    ELSE Write(u, c, peer, FromUri(peer, secret).key, {c})

Run(u, event) ==
    \/ event = ConfigChanged /\ SetInfo(u)
    \/ event \in Clients /\ UpdateRelation(u, event)

(* The next event of a unit, or the one whose hook has failed. *)
Handle(u) ==
    /\ \/ /\ hook[u].pc = "idle"
          /\ \E e \in pending[u] :
               Run(u, e) /\ pending' = [pending EXCEPT ![u] = @ \ {e}]
       \/ /\ hook[u].pc = "error"
          /\ Run(u, hook[u].event) /\ UNCHANGED pending
    /\ UNCHANGED <<proxy, config, leader, databags, used>>

(* The secret exists from the first key on.  Mutant: its content is not set
   again. *)
Secret_First(key) == IF secret = NoKey THEN key ELSE secret
Secret(key) == IF key = NoKey THEN secret ELSE key
(* Mutant: the secret is granted where set_info finds the relation only. *)
Granted_SetInfo(h) == IF h.event = ConfigChanged /\ h.key # NoKey THEN h.to ELSE {}
Granted(h) == IF h.key # NoKey THEN h.to ELSE {}

Commit(u) ==
    LET h == hook[u] IN
    /\ u = leader
    /\ peer' = IF h.event = ConfigChanged THEN h.uri ELSE peer
    /\ secret' = Secret(h.key)
    /\ granted' = granted \cup Granted(h)
    /\ bag' = [c \in Clients |-> IF c \in h.to THEN h.uri ELSE bag[c]]

Flush(u) ==
    /\ hook[u].pc = "flush"
    /\ Commit(u)
    /\ hook' = [hook EXCEPT ![u] = Idle]
    /\ UNCHANGED <<proxy, config, leader, pending, used>>

(* Juju takes no application data from a unit that is not the leader. *)
FlushRefused(u) ==
    /\ hook[u].pc = "flush" /\ u # leader
    /\ Error(u, hook[u].event)
    /\ UNCHANGED <<proxy, config, leader, databags, pending, used>>

-----------------------------------------------------------------------------
(* Juju and the operator. *)

Crash(u) ==
    /\ hook[u].pc = "flush" /\ used.crashes < MaxCrashes
    /\ used' = [used EXCEPT !.crashes = @ + 1]
    /\ Error(u, hook[u].event)
    /\ UNCHANGED <<proxy, config, leader, databags, pending>>

Elect(u) ==
    /\ u # leader /\ used.elections < MaxElections
    /\ SettledElections => hook[u].pc # "flush"
    /\ leader' = u
    /\ used' = [used EXCEPT !.elections = @ + 1]
    /\ UNCHANGED <<proxy, config, databags, pending, hook>>

Configure ==
    /\ used.changes < MaxChanges
    /\ config' \in proxy \ {config}
    /\ pending' = [u \in Units |-> pending[u] \cup {ConfigChanged}]
    /\ used' = [used EXCEPT !.changes = @ + 1]
    /\ UNCHANGED <<proxy, leader, databags, hook>>

SpendRelation ==
    used.relations < MaxRelations /\ used' = [used EXCEPT !.relations = @ + 1]

Relate(c) ==
    /\ bag[c] = Unrelated /\ SpendRelation
    /\ bag' = [bag EXCEPT ![c] = NoUri]
    /\ pending' = [u \in Units |-> pending[u] \cup {c}]
    /\ UNCHANGED <<proxy, config, leader, peer, secret, granted, hook>>

(* A relation is gone when no hook knows it any more. *)
Unrelate(c) ==
    /\ bag[c] # Unrelated /\ SpendRelation
    /\ \A u \in Units : c \notin hook[u].to /\ hook[u].event # c
    /\ bag' = [bag EXCEPT ![c] = Unrelated]
    /\ granted' = granted \ {c}
    /\ pending' = [u \in Units |-> pending[u] \ {c}]
    /\ UNCHANGED <<proxy, config, leader, peer, secret, hook>>

-----------------------------------------------------------------------------
HookStep(u) == Handle(u) \/ Flush(u) \/ FlushRefused(u)

Environment ==
    \/ Configure
    \/ \E u \in Units : Crash(u) \/ Elect(u)
    \/ \E c \in Clients : Relate(c) \/ Unrelate(c)

Next == Environment \/ \E u \in Units : HookStep(u)

Spec == Init /\ [][Next]_vars

(* Juju dispatches what it has queued and runs a hook to its end. *)
Fairness == \A u \in Units : WF_vars(HookStep(u))
FairSpec == Spec /\ Fairness

-----------------------------------------------------------------------------
(* Properties. *)

(* FilesystemRequires.endpoints: what client c makes of its relation. *)
Reads(c) ==
    IF bag[c] \in {NoUri, Unrelated} THEN bag[c]
    ELSE IF bag[c].type = "cephfs" /\ c \notin granted THEN Denied
    ELSE FromUri(bag[c], secret)

Board == INSTANCE Publication WITH
    Values <- {FromUri(e, k) : e \in Endpoints, k \in AllKeys},
    NoValue <- NoUri,
    value <- IF peer = NoUri THEN NoUri ELSE FromUri(peer, secret),
    copy <- [c \in Clients |-> Reads(c)]

(* The library is a Publication: what clients read, through their relation, the
   secret and the grants, is one value that changes for all of them at once,
   whichever unit leads and whichever hooks are refused, killed or repeated
   (filesystem_info.py:671-698). *)
Publishes == Board!Spec

(* An info is another one up to the case of hosts and a leading "/". *)
SameEndpoint(i, j) ==
    /\ i.type = j.type /\ i.key = j.key /\ i.path.steps = j.path.steps
    /\ Len(i.hosts) = Len(j.hosts)
    /\ \A n \in DOMAIN i.hosts : i.hosts[n].name = j.hosts[n].name

(* A configuration that reaches the unit that leads, and goes on leading, is in
   the end what every client reads, also one that is related while it is being
   published (filesystem_info.py:681, :692).  A unit that becomes the leader
   later does not repeat the events it has had. *)
FollowsConfig ==
    \A u \in Units, i \in Infos :
        [](/\ leader = u /\ config = i /\ Valid(i) /\ ConfigChanged \in pending[u]
           /\ [](leader = u /\ config = i)
           => <>[]\A c \in Related :
                    Reads(c) \notin {NoUri, Denied} /\ SameEndpoint(Reads(c), i))
=============================================================================
