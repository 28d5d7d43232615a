----------------------- MODULE FilesystemInfo_proofs -----------------------
(***************************************************************************)
(* Proofs about FilesystemInfo, for any units, clients, configurations and *)
(* bounds: its types, and that it implements Publication if leadership     *)
(* moves only to units that are between two hooks.                         *)
(***************************************************************************)
EXTENDS FilesystemInfo, TLAPS

UsedType == [elections : Nat, crashes : Nat, changes : Nat, relations : Nat]

LEMMA IdleIsAHook == Idle \in Hook /\ Idle.pc = "idle" /\ Idle.event = ConfigChanged /\ Idle.to = {}
BY DEF Idle, Hook, Events, AllKeys

LEMMA ErrorIsAHook ==
    ASSUME NEW e \in Events
    PROVE  LET h == [Idle EXCEPT !.pc = "error", !.event = e]
           IN  h \in Hook /\ h.pc = "error" /\ h.event = e /\ h.to = {}
BY DEF Idle, Hook, AllKeys

(* What a handler leaves in its hook. *)
HandlerLeaves(u, e, h) ==
    /\ h \in Hook /\ h.event \in {ConfigChanged, e}
    /\ h.pc # "flush" => h.to = {}
    /\ h.pc = "flush" =>
        /\ u = leader /\ h.event = e /\ h.uri \in Endpoints
        /\ e = ConfigChanged =>
             h.to = Related /\ (h.uri.type = "cephfs" <=> h.key # NoKey)
        /\ e \in Clients =>
             h.to = {e} /\ h.uri = peer /\ h.key = FromUri(peer, secret).key

LEMMA RunLeaves ==
    ASSUME TypeOK, NEW u \in Units, NEW e \in Events, Run(u, e)
    PROVE  \E h : HandlerLeaves(u, e, h) /\ hook' = [hook EXCEPT ![u] = h]
<1>1. CASE Nothing(u)
    BY <1>1, IdleIsAHook DEF Nothing, HandlerLeaves
<1>2. CASE Error(u, e)
    BY <1>2, ErrorIsAHook DEF Error, HandlerLeaves
<1>3. ASSUME u = leader, config # NoInfo, Valid(config), e = ConfigChanged,
             Write(u, ConfigChanged, ToUri(config), config.key, Related)
      PROVE  \E h : HandlerLeaves(u, e, h) /\ hook' = [hook EXCEPT ![u] = h]
  <2> DEFINE h == [pc |-> "flush", event |-> ConfigChanged, uri |-> ToUri(config),
                   key |-> config.key, to |-> Related]
  <2>1. config \in Infos
      BY <1>3 DEF TypeOK, Infos
  <2>2. ToUri(config) \in Endpoints
      BY <1>3, <2>1 DEF Endpoints, Valid
  <2>3. config.key \in AllKeys
      BY <2>1 DEF AllKeys
  <2>4. h \in Hook
      BY <2>2, <2>3 DEF Hook, Events, Related
  <2>5. ToUri(config).type = "cephfs" <=> config.key # NoKey
      BY <2>1, NamesAssumption DEF ToUri
  <2>6. HandlerLeaves(u, e, h)
      BY <1>3, <2>2, <2>4, <2>5, NamesAssumption DEF HandlerLeaves
  <2> QED
      BY <1>3, <2>6 DEF Write
<1>4. ASSUME u = leader, peer # NoUri, e \in Clients,
             Write(u, e, peer, FromUri(peer, secret).key, {e})
      PROVE  \E h : HandlerLeaves(u, e, h) /\ hook' = [hook EXCEPT ![u] = h]
  <2> DEFINE h == [pc |-> "flush", event |-> e, uri |-> peer,
                   key |-> FromUri(peer, secret).key, to |-> {e}]
  <2>1. FromUri(peer, secret).key \in AllKeys
      BY DEF FromUri, TypeOK, AllKeys
  <2>2. h \in Hook
      BY <1>4, <2>1 DEF Hook, Events, TypeOK
  <2>3. HandlerLeaves(u, e, h)
      BY <1>4, <2>2, NamesAssumption DEF HandlerLeaves, TypeOK
  <2> QED
      BY <1>4, <2>3 DEF Write
<1> QED
    BY <1>1, <1>2, <1>3, <1>4 DEF Run, SetInfo, UpdateRelation

LEMMA HandleLeaves ==
    ASSUME TypeOK, NEW u \in Units, Handle(u)
    PROVE  \E e \in Events : \E h :
             /\ e \in pending[u] \/ e = hook[u].event
             /\ HandlerLeaves(u, e, h) /\ hook' = [hook EXCEPT ![u] = h]
<1>1. \A e \in pending[u] \cup {hook[u].event} : e \in Events
    BY DEF TypeOK, Hook
<1>2. PICK e \in pending[u] \cup {hook[u].event} : Run(u, e)
    BY DEF Handle
<1> QED
    BY <1>1, <1>2, RunLeaves

-----------------------------------------------------------------------------
(* Types. *)

LEMMA InitType == Init => TypeOK
BY IdleIsAHook DEF Init, TypeOK, Events, AllKeys

LEMMA SpentType ==
    ASSUME used \in UsedType, NEW f \in {"elections", "crashes", "changes", "relations"},
           used' = [used EXCEPT ![f] = @ + 1]
    PROVE  used' \in UsedType
BY DEF UsedType

LEMMA HandleType == ASSUME TypeOK, NEW u \in Units, Handle(u) PROVE TypeOK'
<1>1. PICK h : h \in Hook /\ hook' = [hook EXCEPT ![u] = h]
    BY HandleLeaves DEF HandlerLeaves
<1>2. hook' \in [Units -> Hook]
    BY <1>1 DEF TypeOK
<1>3. pending' \in [Units -> SUBSET Events]
    BY DEF Handle, TypeOK
<1> QED
    BY <1>2, <1>3 DEF TypeOK, Handle, databags

LEMMA FlushType == ASSUME TypeOK, NEW u \in Units, Flush(u) PROVE TypeOK'
<1>1. hook[u] \in Hook
    BY DEF TypeOK
<1>2. hook' \in [Units -> Hook]
    BY IdleIsAHook DEF TypeOK, Flush
<1>3. PICK x \in Endpoints \cup {NoUri} :
        /\ peer' \in {x, peer}
        /\ bag' = [c \in Clients |-> IF c \in hook[u].to THEN x ELSE bag[c]]
    BY <1>1 DEF Flush, Commit, Hook
<1>4. bag' \in [Clients -> Endpoints \cup {NoUri, Unrelated}]
    BY <1>3 DEF TypeOK
<1>5. secret' \in AllKeys
    BY <1>1 DEF Flush, Commit, Secret, Hook, TypeOK
<1>6. granted' \subseteq Clients
    BY <1>1 DEF Flush, Commit, Granted, Hook, TypeOK
<1> QED
    BY <1>2, <1>3, <1>4, <1>5, <1>6 DEF TypeOK, Flush

LEMMA ErrorType ==
    ASSUME TypeOK, NEW u \in Units, Error(u, hook[u].event),
           UNCHANGED <<proxy, config, leader, databags, pending>>, used' \in UsedType
    PROVE  TypeOK'
<1>1. hook[u].event \in Events
    BY DEF TypeOK, Hook
<1>2. hook' \in [Units -> Hook]
    BY <1>1, ErrorIsAHook DEF TypeOK, Error
<1> QED
    BY <1>2 DEF TypeOK, UsedType, databags

LEMMA EnvironmentType == ASSUME TypeOK, Environment PROVE TypeOK'
<1>0. used \in UsedType
    BY DEF TypeOK, UsedType
<1>1. CASE Configure
  <2>1. used' \in UsedType
      BY <1>0, <1>1, SpentType DEF Configure
  <2>2. pending' \in [Units -> SUBSET Events]
      BY <1>1 DEF Configure, TypeOK, Events
  <2> QED
      BY <1>1, <2>1, <2>2 DEF Configure, TypeOK, UsedType, databags
<1>2. ASSUME NEW u \in Units, Crash(u) PROVE TypeOK'
  <2>1. used' \in UsedType
      BY <1>0, <1>2, SpentType DEF Crash
  <2> QED
      BY <1>2, <2>1, ErrorType DEF Crash
<1>3. ASSUME NEW u \in Units, Elect(u) PROVE TypeOK'
  <2>1. used' \in UsedType
      BY <1>0, <1>3, SpentType DEF Elect
  <2> QED
      BY <1>3, <2>1 DEF Elect, TypeOK, UsedType, databags
<1>4. ASSUME NEW c \in Clients, Relate(c) PROVE TypeOK'
  <2>1. used' \in UsedType
      BY <1>0, <1>4, SpentType DEF Relate, SpendRelation
  <2>2. pending' \in [Units -> SUBSET Events]
      BY <1>4 DEF Relate, TypeOK, Events
  <2>3. bag' \in [Clients -> Endpoints \cup {NoUri, Unrelated}]
      BY <1>4 DEF Relate, TypeOK
  <2> QED
      BY <1>4, <2>1, <2>2, <2>3 DEF Relate, TypeOK, UsedType
<1>5. ASSUME NEW c \in Clients, Unrelate(c) PROVE TypeOK'
  <2>1. used' \in UsedType
      BY <1>0, <1>5, SpentType DEF Unrelate, SpendRelation
  <2>2. pending' \in [Units -> SUBSET Events]
      BY <1>5 DEF Unrelate, TypeOK, Events
  <2>3. bag' \in [Clients -> Endpoints \cup {NoUri, Unrelated}]
      BY <1>5 DEF Unrelate, TypeOK
  <2> QED
      BY <1>5, <2>1, <2>2, <2>3 DEF Unrelate, TypeOK, UsedType
<1> QED
    BY <1>1, <1>2, <1>3, <1>4, <1>5 DEF Environment

LEMMA NextType == TypeOK /\ [Next]_vars => TypeOK'
<1> SUFFICES ASSUME TypeOK, [Next]_vars PROVE TypeOK'
    OBVIOUS
<1>1. CASE Environment
    BY <1>1, EnvironmentType
<1>2. ASSUME NEW u \in Units, HookStep(u) PROVE TypeOK'
  <2>1. CASE FlushRefused(u)
      BY <2>1, ErrorType DEF FlushRefused, TypeOK, UsedType
  <2> QED
      BY <1>2, <2>1, HandleType, FlushType DEF HookStep
<1>3. CASE UNCHANGED vars
    BY <1>3 DEF vars, databags, TypeOK
<1> QED
    BY <1>1, <1>2, <1>3 DEF Next

(* Every variable keeps its type: what is published is always an endpoint that a
   configuration asks for, and names a host (filesystem_info.py:671-698). *)
THEOREM TypeCorrect == Spec => []TypeOK
BY InitType, NextType, PTL DEF Spec

-----------------------------------------------------------------------------
(* Why the clients agree, if no unit becomes the leader between a handler and
   its flush. *)

Served(c) == bag[c] \notin {NoUri, Unrelated}

(* The secret is there, and granted, as soon as an endpoint needs it. *)
KeyKnown == peer # NoUri /\ peer.type = "cephfs" => secret # NoKey
OneEndpoint ==
    \A c \in Clients :
        Served(c) => bag[c] = peer /\ (peer.type = "cephfs" => c \in granted)

(* No hook knows a relation that is gone. *)
Knows(u, c) == c \in pending[u] \/ c = hook[u].event \/ c \in hook[u].to
KnownAreRelated == \A u \in Units, c \in Clients : Knows(u, c) => bag[c] # Unrelated

(* The leader's writes reach everyone who is served, or repeat the endpoint. *)
UpToDate(u) ==
    LET h == hook[u] IN
    IF h.event = ConfigChanged THEN \A c \in Clients : Served(c) => c \in h.to
    ELSE h.uri = peer /\ h.key = FromUri(peer, secret).key
Writes(u) ==
    LET h == hook[u] IN
    h.pc = "flush" =>
        /\ h.uri \in Endpoints
        /\ h.event = ConfigChanged => (h.uri.type = "cephfs" <=> h.key # NoKey)
        /\ h.event \in Clients => h.to = {h.event}
        /\ u = leader => UpToDate(u)

Sync ==
    /\ TypeOK /\ KeyKnown /\ OneEndpoint /\ KnownAreRelated
    /\ \A u \in Units : Writes(u)

LEMMA InitSync == Init => Sync
BY InitType, IdleIsAHook, NamesAssumption
   DEF Init, Sync, KeyKnown, OneEndpoint, Served, KnownAreRelated, Knows, Writes

LEMMA HandleSync == ASSUME Sync, NEW u \in Units, Handle(u) PROVE Sync'
<1>1. TypeOK'
    BY HandleType DEF Sync
<1>2. PICK e \in Events : \E h :
        /\ e \in pending[u] \/ e = hook[u].event
        /\ HandlerLeaves(u, e, h) /\ hook' = [hook EXCEPT ![u] = h]
    BY HandleLeaves DEF Sync
<1>3. PICK h :
        /\ e \in pending[u] \/ e = hook[u].event
        /\ HandlerLeaves(u, e, h) /\ hook' = [hook EXCEPT ![u] = h]
    BY <1>2
<1>4. /\ hook'[u] = h
      /\ \A v \in Units \ {u} : hook'[v] = hook[v]
      /\ \A v \in Units : pending'[v] \subseteq pending[v]
    BY <1>3 DEF Sync, TypeOK, Handle
<1>5. UNCHANGED <<leader, peer, secret, granted, bag>>
    BY DEF Handle, databags
<1>6. KeyKnown' /\ OneEndpoint'
    BY <1>5 DEF Sync, KeyKnown, OneEndpoint, Served
<1>7. ASSUME NEW v \in Units, NEW c \in Clients, Knows(v, c)' PROVE bag'[c] # Unrelated
  <2>1. CASE v # u
      BY <1>4, <1>5, <1>7, <2>1 DEF Sync, KnownAreRelated, Knows
  <2>2. CASE v = u /\ (c \in pending[u] \/ c = e)
      BY <1>3, <1>5, <2>2 DEF Sync, KnownAreRelated, Knows
  <2>3. CASE v = u /\ c \in h.to
    <3>1. CASE e = ConfigChanged
        BY <1>3, <1>5, <2>3, <3>1 DEF HandlerLeaves, Related
    <3>2. CASE e \in Clients
        BY <1>3, <1>5, <2>2, <2>3, <3>2 DEF HandlerLeaves
    <3> QED
        BY <3>1, <3>2 DEF Events
  <2> QED
      BY <1>3, <1>4, <1>7, <2>1, <2>2, <2>3, NamesAssumption DEF Knows, HandlerLeaves
<1>8. ASSUME NEW v \in Units PROVE Writes(v)'
  <2>1. CASE v # u
      BY <1>4, <1>5, <2>1 DEF Sync, Writes, UpToDate, Served
  <2>2. CASE v = u /\ e = ConfigChanged
    <3>1. h.pc = "flush" => UpToDate(u)'
        BY <1>3, <1>4, <1>5, <2>2 DEF HandlerLeaves, UpToDate, Related, Served
    <3> QED
        BY <1>3, <1>4, <1>5, <2>2, <3>1, NamesAssumption DEF HandlerLeaves, Writes
  <2>3. CASE v = u /\ e \in Clients
    <3>1. h.pc = "flush" => UpToDate(u)'
        BY <1>3, <1>4, <1>5, <2>3, NamesAssumption DEF HandlerLeaves, UpToDate
    <3> QED
        BY <1>3, <1>4, <1>5, <2>3, <3>1, NamesAssumption DEF HandlerLeaves, Writes
  <2> QED
      BY <2>1, <2>2, <2>3 DEF Events
<1> QED
    BY <1>1, <1>6, <1>7, <1>8 DEF Sync, KnownAreRelated

(* What a hook without writes leaves behind is in order. *)
LEMMA EndOfHook ==
    ASSUME Sync, TypeOK', NEW u \in Units, NEW h,
           hook' = [hook EXCEPT ![u] = h], h.pc # "flush", h.to = {},
           h.event \in {ConfigChanged, hook[u].event},
           UNCHANGED <<leader, databags, pending>>
    PROVE  Sync'
<1>1. hook'[u] = h /\ \A v \in Units \ {u} : hook'[v] = hook[v]
    BY DEF Sync, TypeOK
<1>2. UNCHANGED <<peer, secret, granted, bag>>
    BY DEF databags
<1>3. KeyKnown' /\ OneEndpoint'
    BY <1>2 DEF Sync, KeyKnown, OneEndpoint, Served
<1>4. ASSUME NEW v \in Units PROVE Writes(v)'
  <2>1. CASE v = u
      BY <1>1, <2>1 DEF Writes
  <2>2. CASE v # u
      BY <1>1, <1>2, <2>2 DEF Sync, Writes, UpToDate, Served
  <2> QED
      BY <2>1, <2>2
<1>5. ASSUME NEW v \in Units, NEW c \in Clients, Knows(v, c)' PROVE bag'[c] # Unrelated
  <2>1. Knows(v, c)
      BY <1>1, <1>5, NamesAssumption DEF Knows
  <2> QED
      BY <1>2, <2>1 DEF Sync, KnownAreRelated
<1> QED
    BY <1>3, <1>4, <1>5 DEF Sync, KnownAreRelated

(* What the leader commits: a new endpoint for everyone who is served, or the
   same endpoint for one relation more. *)
LEMMA CommitIsOne ==
    ASSUME Sync, NEW u \in Units, Flush(u)
    PROVE  LET h == hook[u] IN
           /\ h.uri \in Endpoints /\ h.to \subseteq Related
           /\ peer' = h.uri /\ secret' \in AllKeys
           /\ bag' = [c \in Clients |-> IF c \in h.to THEN h.uri ELSE bag[c]]
           /\ granted \subseteq granted'
           /\ h.uri.type = "cephfs" => secret' # NoKey /\ h.to \subseteq granted'
           /\ \/ h.event = ConfigChanged /\ \A c \in Clients : Served(c) => c \in h.to
              \/ h.event \in Clients /\ h.to = {h.event} /\ UNCHANGED <<peer, secret>>
<1> DEFINE h == hook[u]
<1>0. h \in Hook
    BY DEF Sync, TypeOK
<1>1. /\ h.uri \in Endpoints /\ UpToDate(u)
      /\ h.event = ConfigChanged => (h.uri.type = "cephfs" <=> h.key # NoKey)
      /\ h.event \in Clients => h.to = {h.event}
    BY DEF Sync, Flush, Commit, Writes
<1>2. h.to \subseteq Related
    BY <1>0 DEF Hook, Sync, KnownAreRelated, Knows, Related
<1>3. secret' \in AllKeys
    BY <1>0 DEF Hook, Flush, Commit, Secret, Sync, TypeOK
<1>4. granted \subseteq granted' /\ (h.key # NoKey => h.to \subseteq granted')
    BY DEF Flush, Commit, Granted
<1>5. CASE h.event = ConfigChanged
  <2>1. peer' = h.uri /\ \A c \in Clients : Served(c) => c \in h.to
      BY <1>1, <1>5 DEF Flush, Commit, UpToDate
  <2>2. h.uri.type = "cephfs" => secret' # NoKey /\ h.to \subseteq granted'
      BY <1>1, <1>4, <1>5 DEF Flush, Commit, Secret
  <2> QED
      BY <1>1, <1>2, <1>3, <1>4, <1>5, <2>1, <2>2 DEF Flush, Commit
<1>6. CASE h.event # ConfigChanged
  <2>1. h.event \in Clients /\ h.uri = peer /\ h.key = FromUri(peer, secret).key
      BY <1>0, <1>1, <1>6 DEF UpToDate, Hook, Events
  <2>2. peer # NoUri
      BY <1>1, <2>1, NamesAssumption
  <2>3. h.key = IF peer.type = "cephfs" THEN secret ELSE NoKey
      BY <2>1 DEF FromUri
  <2>4. UNCHANGED <<peer, secret>>
      BY <1>6, <2>3 DEF Flush, Commit, Secret
  <2>5. peer.type = "cephfs" => secret' # NoKey /\ h.key # NoKey
      BY <2>2, <2>3, <2>4 DEF Sync, KeyKnown
  <2> QED
      BY <1>1, <1>2, <1>3, <1>4, <2>1, <2>4, <2>5 DEF Flush, Commit
<1> QED
    BY <1>5, <1>6

LEMMA FlushSync == ASSUME Sync, NEW u \in Units, Flush(u) PROVE Sync'
<1> DEFINE h == hook[u]
<1>1. TypeOK'
    BY FlushType DEF Sync
<1>2. KeyKnown'
    BY CommitIsOne DEF KeyKnown
<1>3. OneEndpoint'
  <2> SUFFICES ASSUME NEW c \in Clients, Served(c)'
               PROVE  bag'[c] = peer' /\ (peer'.type = "cephfs" => c \in granted')
      BY DEF OneEndpoint
  <2>1. CASE c \in h.to
      BY <2>1, CommitIsOne
  <2>2. CASE c \notin h.to
    <3>1. bag'[c] = bag[c] /\ UNCHANGED peer
        BY <2>2, CommitIsOne DEF Served
    <3> QED
        BY <3>1, CommitIsOne DEF Sync, OneEndpoint, Served
  <2> QED
      BY <2>1, <2>2
<1>4. hook'[u] = Idle /\ UNCHANGED <<leader, pending>> /\ u = leader
      /\ \A v \in Units \ {u} : hook'[v] = hook[v]
    BY DEF Sync, TypeOK, Flush, Commit
<1>5. ASSUME NEW v \in Units PROVE Writes(v)'
  <2>1. CASE v = u
      BY <1>4, <2>1, IdleIsAHook DEF Writes
  <2>2. CASE v # u
      BY <1>4, <2>2 DEF Sync, Writes
  <2> QED
      BY <2>1, <2>2
<1>6. ASSUME NEW v \in Units, NEW c \in Clients, Knows(v, c)' PROVE bag'[c] # Unrelated
  <2>1. Knows(v, c)
      BY <1>4, <1>6, IdleIsAHook, NamesAssumption DEF Knows
  <2>2. bag[c] # Unrelated
      BY <2>1 DEF Sync, KnownAreRelated
  <2> QED
      BY <2>2, CommitIsOne, NamesAssumption
<1> QED
    BY <1>1, <1>2, <1>3, <1>5, <1>6 DEF Sync, KnownAreRelated

LEMMA ErrorSync ==
    ASSUME Sync, TypeOK', NEW u \in Units, Error(u, hook[u].event),
           UNCHANGED <<leader, databags, pending>>
    PROVE  Sync'
<1>1. hook[u].event \in Events
    BY DEF Sync, TypeOK, Hook
<1> QED
    BY <1>1, EndOfHook, ErrorIsAHook DEF Error

LEMMA RelationSync ==
    ASSUME Sync, TypeOK', NEW c \in Clients, Relate(c) \/ Unrelate(c)
    PROVE  Sync'
<1>1. UNCHANGED <<leader, peer, secret, hook>>
      /\ \A d \in Clients \ {c} : bag'[d] = bag[d] /\ (d \in granted => d \in granted')
    BY DEF Relate, Unrelate, Sync, TypeOK
<1>2. ~Served(c)' /\ (Relate(c) => bag'[c] # Unrelated)
    BY NamesAssumption DEF Relate, Unrelate, Served, Sync, TypeOK
<1>3. KeyKnown' /\ OneEndpoint'
    BY <1>1, <1>2 DEF Sync, KeyKnown, OneEndpoint, Served
<1>4. ASSUME NEW u \in Units PROVE Writes(u)'
  <2>1. \A d \in Clients : Served(d)' => Served(d)
      BY <1>1, <1>2 DEF Served
  <2>2. hook[u].pc = "flush" /\ u = leader => UpToDate(u)'
      BY <1>1, <2>1 DEF Sync, Writes, UpToDate
  <2> QED
      BY <1>1, <2>2 DEF Sync, Writes
<1>5. ASSUME NEW u \in Units, NEW d \in Clients, Knows(u, d)' PROVE bag'[d] # Unrelated
  <2>1. CASE d = c
    <3>1. ~Unrelate(c)
        BY <1>5, <2>1 DEF Unrelate, Knows
    <3> QED
        BY <1>2, <2>1, <3>1
  <2>2. CASE d # c
    <3>1. Knows(u, d)
        BY <1>5, <2>2 DEF Relate, Unrelate, Knows
    <3> QED
        BY <1>1, <2>2, <3>1 DEF Sync, KnownAreRelated
  <2> QED
      BY <2>1, <2>2
<1> QED
    BY <1>3, <1>4, <1>5 DEF Sync, KnownAreRelated

LEMMA NextSync == SettledElections /\ Sync /\ [Next]_vars => Sync'
<1> SUFFICES ASSUME SettledElections, Sync, [Next]_vars PROVE Sync'
    OBVIOUS
<1>0. TypeOK'
    BY NextType DEF Sync
<1>1. CASE Configure
  <2>1. \A u \in Units, c \in Clients : Knows(u, c)' => Knows(u, c)
      BY <1>1, NamesAssumption DEF Configure, Knows
  <2>2. UNCHANGED <<leader, peer, secret, granted, bag, hook>>
      BY <1>1 DEF Configure, databags
  <2> QED
      BY <1>0, <2>1, <2>2
         DEF Sync, KeyKnown, OneEndpoint, Served, KnownAreRelated, Writes, UpToDate
<1>2. ASSUME NEW u \in Units, Crash(u) \/ FlushRefused(u) PROVE Sync'
    BY <1>0, <1>2, ErrorSync DEF Crash, FlushRefused
<1>3. ASSUME NEW u \in Units, Elect(u) PROVE Sync'
  <2>1. UNCHANGED <<pending, peer, secret, granted, bag, hook>>
        /\ leader' = u /\ hook[u].pc # "flush"
      BY <1>3 DEF Elect, databags
  <2> QED
      BY <1>0, <2>1
         DEF Sync, KeyKnown, OneEndpoint, Served, KnownAreRelated, Knows, Writes
<1>4. CASE UNCHANGED vars
    BY <1>0, <1>4 DEF vars, databags,
        Sync, KeyKnown, OneEndpoint, Served, KnownAreRelated, Knows, Writes, UpToDate
<1> QED
    BY <1>0, <1>1, <1>2, <1>3, <1>4, HandleSync, FlushSync, RelationSync
       DEF Next, Environment, HookStep

LEMMA AlwaysSync == ASSUME SettledElections PROVE Spec => []Sync
<1>1. Sync /\ [Next]_vars => Sync'
    BY NextSync
<1> QED
    BY InitSync, <1>1, PTL DEF Spec

-----------------------------------------------------------------------------
(* The library implements Publication. *)

Values == {FromUri(e, k) : e \in Endpoints, k \in AllKeys}
Value == IF peer = NoUri THEN NoUri ELSE FromUri(peer, secret)
Copy == [c \in Clients |-> Reads(c)]
BoardStep == Board!Next \/ UNCHANGED <<Value, Copy>>

(* Whoever is served reads what is published. *)
AllRead ==
    \A c \in Clients :
        /\ ~Served(c) => Reads(c) = bag[c]
        /\ Served(c) => /\ Reads(c) = Value /\ Value \in Values
                        /\ peer # NoUri /\ Value \notin {NoUri, Unrelated}
        /\ Reads(c) = Unrelated <=> bag[c] = Unrelated
        /\ Reads(c) \in Values => Served(c)

LEMMA ReadsOneValue == Sync => AllRead
<1> SUFFICES ASSUME Sync, NEW c \in Clients
             PROVE  /\ ~Served(c) => Reads(c) = bag[c]
                    /\ Served(c) => /\ Reads(c) = Value /\ Value \in Values
                                    /\ peer # NoUri /\ Value \notin {NoUri, Unrelated}
                    /\ Reads(c) = Unrelated <=> bag[c] = Unrelated
                    /\ Reads(c) \in Values => Served(c)
    BY DEF AllRead
<1>1. ASSUME Served(c)
      PROVE  /\ Reads(c) = Value /\ Value \in Values
             /\ peer # NoUri /\ Value \notin {NoUri, Unrelated}
  <2>1. bag[c] = peer /\ (peer.type = "cephfs" => c \in granted)
      BY <1>1 DEF Sync, OneEndpoint
  <2>2. peer \in Endpoints /\ peer # NoUri /\ secret \in AllKeys
      BY <1>1, <2>1 DEF Sync, TypeOK, Served
  <2>3. Reads(c) = FromUri(peer, secret) /\ Value = FromUri(peer, secret)
      BY <1>1, <2>1, <2>2 DEF Reads, Served, Value
  <2> QED
      BY <2>2, <2>3, NamesAssumption DEF Values
<1>2. ~Served(c) => Reads(c) = bag[c]
    BY DEF Served, Reads
<1>3. Reads(c) \in Values => Served(c)
    BY <1>2, NamesAssumption DEF Values, Served
<1> QED
    BY <1>1, <1>2, <1>3 DEF Served

LEMMA ReadsOneValueNext == Sync' => AllRead'
BY ReadsOneValue, PTL

LEMMA FlushImplements ==
    ASSUME Sync, AllRead, AllRead', NEW u \in Units, Flush(u) PROVE BoardStep
<1> DEFINE h == hook[u]
<1>1. \A c \in h.to : c \in Clients /\ bag[c] # Unrelated
    BY CommitIsOne DEF Related
<1>2. \A c \in Clients : c \in h.to => Served(c)'
    BY CommitIsOne, NamesAssumption DEF Served
<1>3. \A c \in h.to : Reads(c)' = Value'
    BY <1>1, <1>2 DEF AllRead
<1>4. ASSUME NEW c \in Clients \ h.to, UNCHANGED Value \/ ~Served(c)
      PROVE  Reads(c)' = Reads(c)
  <2>1. bag'[c] = bag[c]
      BY CommitIsOne
  <2>2. CASE Served(c)
      BY <1>4, <2>1, <2>2 DEF AllRead, Served
  <2>3. CASE ~Served(c)
      BY <2>1, <2>3 DEF AllRead, Served
  <2> QED
      BY <2>2, <2>3
<1>5. CASE /\ h.event = ConfigChanged
           /\ \A c \in Clients : Served(c) => c \in h.to
  <2> DEFINE v == FromUri(h.uri, secret')
  <2>1. v \in Values /\ Value' = v
      BY CommitIsOne, NamesAssumption DEF Values, Value
  <2>2. h.to \in SUBSET Clients
      BY <1>1
  <2>3. \A c \in Clients : Copy[c] \in Values => c \in h.to
      BY <1>5 DEF AllRead, Copy
  <2>4. ASSUME NEW c \in Clients
        PROVE  Reads(c)' = IF Copy[c] # Unrelated /\ c \in h.to THEN v ELSE Copy[c]
    <3>1. CASE c \in h.to
        BY <1>1, <1>3, <2>1, <3>1 DEF AllRead, Copy
    <3>2. CASE c \notin h.to
        BY <1>4, <1>5, <3>2 DEF Copy
    <3> QED
        BY <3>1, <3>2
  <2>5. Copy' = [c \in Clients |->
                   IF Copy[c] # Unrelated /\ c \in h.to THEN v ELSE Copy[c]]
      BY <2>4 DEF Copy
  <2>6. Board!Publish(v)
      BY <2>1, <2>2, <2>3, <2>5 DEF Board!Publish, Values, Value, Copy
  <2> QED
      BY <2>1, <2>6 DEF BoardStep, Board!Next, Values
<1>6. CASE /\ h.event \in Clients /\ h.to = {h.event}
           /\ UNCHANGED <<peer, secret>>
  <2>1. UNCHANGED Value
      BY <1>6 DEF Value
  <2>2. Value # NoUri
      BY <1>2, <1>6, <2>1 DEF AllRead
  <2>3. Copy[h.event] # Unrelated
      BY <1>1, <1>6 DEF AllRead, Copy
  <2>4. ASSUME NEW c \in Clients
        PROVE  Reads(c)' = IF c = h.event THEN Value ELSE Reads(c)
    <3>1. CASE c = h.event
        BY <1>3, <1>6, <2>1, <3>1
    <3>2. CASE c # h.event
        BY <1>4, <1>6, <2>1, <3>2
    <3> QED
        BY <3>1, <3>2
  <2>5. Copy' = [Copy EXCEPT ![h.event] = Value]
      BY <1>6, <2>4 DEF Copy
  <2>6. Board!Serve(h.event)
      BY <2>1, <2>2, <2>3, <2>5 DEF Board!Serve, Value, Copy
  <2> QED
      BY <1>6, <2>6 DEF BoardStep, Board!Next
<1> QED
    BY <1>5, <1>6, CommitIsOne

LEMMA RelationImplements ==
    ASSUME Sync, AllRead, AllRead', NEW c \in Clients, Relate(c) \/ Unrelate(c) PROVE BoardStep
<1>1. UNCHANGED Value
    BY DEF Relate, Unrelate, Value
<1>2. \A d \in Clients \ {c} : bag'[d] = bag[d]
    BY DEF Relate, Unrelate, Sync, TypeOK
<1>3. ASSUME NEW d \in Clients, d # c PROVE Reads(d)' = Reads(d)
    BY <1>1, <1>2, <1>3 DEF AllRead, Served
<1>4. CASE Relate(c)
  <2>1. Copy[c] = Unrelated /\ Reads(c)' = NoUri
      BY <1>4 DEF AllRead, Relate, Copy, Served, Sync, TypeOK
  <2>2. Copy' = [Copy EXCEPT ![c] = NoUri]
      BY <1>3, <2>1 DEF Copy
  <2>3. Board!Relate(c)
      BY <1>1, <2>1, <2>2 DEF Board!Relate, Value, Copy
  <2> QED
      BY <2>3 DEF BoardStep, Board!Next
<1>5. CASE Unrelate(c)
  <2>1. Reads(c)' = Unrelated
      BY <1>5 DEF AllRead, Unrelate, Served, Sync, TypeOK
  <2>2. Copy' = [Copy EXCEPT ![c] = Unrelated]
      BY <1>3, <2>1 DEF Copy
  <2>3. Board!Unrelate(c)
      BY <1>1, <2>2 DEF Board!Unrelate, Value, Copy
  <2> QED
      BY <2>3 DEF BoardStep, Board!Next
<1> QED
    BY <1>4, <1>5

LEMMA NextImplements == Sync /\ AllRead /\ AllRead' /\ [Next]_vars => BoardStep
<1> SUFFICES ASSUME Sync, AllRead, AllRead', [Next]_vars PROVE BoardStep
    OBVIOUS
<1>1. ASSUME UNCHANGED databags PROVE BoardStep
  <2>1. UNCHANGED <<peer, secret, granted, bag>>
      BY <1>1 DEF databags
  <2> QED
      BY <2>1 DEF BoardStep, Value, Copy, Reads
<1>2. ASSUME NEW u \in Units, Handle(u) \/ FlushRefused(u) \/ Crash(u) \/ Elect(u)
      PROVE  BoardStep
    BY <1>1, <1>2 DEF Handle, FlushRefused, Crash, Elect
<1>3. CASE Configure \/ UNCHANGED vars
    BY <1>1, <1>3 DEF Configure, vars
<1> QED
    BY <1>2, <1>3, FlushImplements, RelationImplements DEF Next, Environment, HookStep

(* If units are elected only between two of their hooks, what clients read is one
   value that changes for all of them at once, for any number of clients,
   elections, crashes and configurations (filesystem_info.py:671-698). *)
THEOREM ReadersSeeOneValue ==
    ASSUME SettledElections
    PROVE  Spec => Publishes
<1>1. Init => Board!Init
  <2> SUFFICES ASSUME Init PROVE Value = NoUri /\ Copy = [c \in Clients |-> Unrelated]
      BY DEF Board!Init, Value, Copy
  <2> QED
      BY DEF Init, Value, Copy, Reads
<1>2. Sync /\ Sync' /\ [Next]_vars => [Board!Next]_(Board!vars)
    BY NextImplements, ReadsOneValue, ReadsOneValueNext DEF BoardStep, Board!vars, Value, Copy
<1> QED
    BY <1>1, <1>2, AlwaysSync, PTL DEF Spec, Publishes, Board!Spec
=============================================================================
