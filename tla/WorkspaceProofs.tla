-------------------------- MODULE WorkspaceProofs --------------------------
(***************************************************************************)
(* Proofs about editing the configuration, for every limit of the schema,  *)
(* every number of saves, every entry in a form, every document and every  *)
(* file an OpenSSH import may find.                                        *)
(***************************************************************************)
EXTENDS Workspace, SequenceTheorems, FiniteSetTheorems, TLAPS

-----------------------------------------------------------------------------
(* Lists.  Ids, names and configurations have no common type, so a list is *)
(* described by its length and its elements.                               *)

\* A list is a sequence of its own elements.
LEMMA VecIsSeq ==
  ASSUME NEW s, IsVec(s)
  PROVE  /\ Len(s) \in Nat /\ DOMAIN s = 1..Len(s)
         /\ s \in Seq({s[i] : i \in 1..Len(s)})
<1>1. s \in [1..Len(s) -> {s[i] : i \in 1..Len(s)}]
  BY DEF IsVec
<1> QED
  BY <1>1, SeqDef DEF IsVec

\* A function on 1..n is a list of length n.
LEMMA VecOf ==
  ASSUME NEW n \in Nat, NEW s, s = [i \in 1..n |-> s[i]]
  PROVE  IsVec(s) /\ Len(s) = n /\ DOMAIN s = 1..n
<1>1. s \in [1..n -> {s[i] : i \in 1..n}]
  OBVIOUS
<1>2. s \in Seq({s[i] : i \in 1..n}) /\ Len(s) = n
  BY <1>1, SeqDef, LenProperties
<1> QED
  BY <1>2 DEF IsVec

LEMMA VecAppend ==
  ASSUME NEW s, NEW e, IsVec(s)
  PROVE  /\ IsVec(Append(s, e)) /\ Len(Append(s, e)) = Len(s) + 1
         /\ DOMAIN Append(s, e) = 1..(Len(s) + 1)
         /\ \A i \in 1..Len(s) : Append(s, e)[i] = s[i]
         /\ Append(s, e)[Len(s) + 1] = e
<1> DEFINE S == {s[i] : i \in 1..Len(s)} \cup {e}
<1>1. s \in Seq(S) /\ e \in S
  <2>1. s \in [1..Len(s) -> S] /\ Len(s) \in Nat
    BY DEF IsVec
  <2> QED
    BY <2>1, SeqDef
<1> HIDE DEF S
<1>2. Append(s, e) \in Seq(S) /\ Len(Append(s, e)) = Len(s) + 1 /\ Len(s) \in Nat
  BY <1>1, AppendProperties, LenProperties
<1>3. DOMAIN Append(s, e) = 1..(Len(s) + 1) /\ Append(s, e) = [i \in 1..(Len(s) + 1) |-> Append(s, e)[i]]
  BY <1>2, LenProperties
<1> QED
  BY <1>1, <1>2, <1>3, AppendProperties DEF IsVec

LEMMA VecTail ==
  ASSUME NEW s, IsVec(s), s # <<>>
  PROVE  /\ IsVec(Tail(s)) /\ Len(s) \in Nat \ {0} /\ Len(Tail(s)) = Len(s) - 1
         /\ DOMAIN Tail(s) = 1..(Len(s) - 1)
         /\ \A i \in 1..(Len(s) - 1) : Tail(s)[i] = s[i + 1]
         /\ Head(s) = s[1]
<1> DEFINE S == {s[i] : i \in 1..Len(s)}
<1>1. s \in Seq(S)
  BY VecIsSeq
<1> HIDE DEF S
<1>2. Len(s) \in Nat \ {0} /\ Tail(s) \in Seq(S) /\ Len(Tail(s)) = Len(s) - 1
  BY <1>1, EmptySeq, HeadTailProperties, LenProperties
<1>3. DOMAIN Tail(s) = 1..(Len(s) - 1) /\ Tail(s) = [i \in 1..(Len(s) - 1) |-> Tail(s)[i]]
  BY <1>2, LenProperties
<1> QED
  BY <1>1, <1>2, <1>3, HeadTailProperties DEF IsVec

\* The empty list, and a list of one.
LEMMA VecSmall ==
  /\ IsVec(<<>>) /\ Len(<<>>) = 0 /\ DOMAIN <<>> = {}
  /\ \A e : IsVec(<<e>>) /\ Len(<<e>>) = 1 /\ DOMAIN <<e>> = {1} /\ <<e>>[1] = e
  BY DEF IsVec

LEMMA VecEmpty ==
  ASSUME NEW s, IsVec(s), Len(s) = 0
  PROVE  s = <<>>
  BY DEF IsVec

-----------------------------------------------------------------------------
(* Records with ids.                                                       *)

\* An id occurs once if one record has it and no other.
LEMMA CountIsOne ==
  ASSUME NEW records, NEW id, IsVec(records)
  PROVE  CountId(records, id) = 1 <=>
           \E i \in DOMAIN records : /\ records[i].id = id
                                     /\ \A j \in DOMAIN records : records[j].id = id => j = i
<1> DEFINE S == {i \in DOMAIN records : records[i].id = id}
<1>1. IsFiniteSet(DOMAIN records) /\ S \in SUBSET DOMAIN records
  <2>1. Len(records) \in Int /\ DOMAIN records = 1..Len(records)
    BY VecIsSeq
  <2>2. IsFiniteSet(1..Len(records))
    BY <2>1, FS_Interval
  <2> QED
    BY <2>1, <2>2
<1>2. IsFiniteSet(S)
  BY <1>1, FS_Subset
<1>3. Cardinality(S) = 1 <=> \E x : S = {x}
  BY <1>2, FS_Singleton
<1>4. (\E x : S = {x}) <=>
        \E i \in DOMAIN records : /\ records[i].id = id
                                  /\ \A j \in DOMAIN records : records[j].id = id => j = i
  OBVIOUS
<1> QED
  BY <1>3, <1>4 DEF CountId

\* No id is given twice: what DistinctIds comes to.
LEMMA DistinctMeans ==
  ASSUME NEW records, IsVec(records)
  PROVE  DistinctIds(records) <=>
           \A i, j \in DOMAIN records : records[i].id = records[j].id => i = j
<1>1. ASSUME DistinctIds(records), NEW i \in DOMAIN records, NEW j \in DOMAIN records,
             records[i].id = records[j].id
      PROVE  i = j
  <2>1. CountId(records, records[i].id) = 1
    BY <1>1 DEF DistinctIds, Ids
  <2> QED
    BY <1>1, <2>1, CountIsOne
<1>2. ASSUME \A i, j \in DOMAIN records : records[i].id = records[j].id => i = j
      PROVE  DistinctIds(records)
  <2> SUFFICES ASSUME NEW i \in DOMAIN records PROVE CountId(records, records[i].id) = 1
    BY DEF DistinctIds, Ids
  <2>1. \A j \in DOMAIN records : records[j].id = records[i].id => j = i
    BY <1>2
  <2> QED
    BY <2>1, CountIsOne
<1> QED
  BY <1>1, <1>2

\* Records that are converted one by one and keep their ids.
LEMMA SameIds ==
  ASSUME NEW s, NEW t, IsVec(s), t = [i \in DOMAIN s |-> t[i]],
         \A i \in DOMAIN s : t[i].id = s[i].id
  PROVE  /\ IsVec(t) /\ Len(t) = Len(s) /\ DOMAIN t = DOMAIN s
         /\ \A id : CountId(t, id) = CountId(s, id)
         /\ Ids(t) = Ids(s)
         /\ DistinctIds(t) <=> DistinctIds(s)
<1>1. Len(s) \in Nat /\ DOMAIN s = 1..Len(s)
  BY VecIsSeq
<1>2. IsVec(t) /\ Len(t) = Len(s) /\ DOMAIN t = DOMAIN s
  BY <1>1, VecOf
<1>3. ASSUME NEW id PROVE CountId(t, id) = CountId(s, id)
  <2>1. {i \in DOMAIN t : t[i].id = id} = {i \in DOMAIN s : s[i].id = id}
    BY <1>2
  <2> QED
    BY <2>1 DEF CountId
<1>4. Ids(t) = Ids(s)
  BY <1>2 DEF Ids
<1> QED
  BY <1>2, <1>3, <1>4 DEF DistinctIds

-----------------------------------------------------------------------------
(* Configurations, as tunnel-domain types them.                            *)

IsSshHost(host) ==
  /\ host = [id |-> host.id, name |-> host.name, hostname |-> host.hostname, port |-> host.port,
             username |-> host.username, auth |-> host.auth,
             connect_timeout |-> host.connect_timeout, keepalive_max |-> host.keepalive_max]
  /\ host.auth = [type |-> host.auth.type, credential_ref |-> host.auth.credential_ref,
                  key_path |-> host.auth.key_path]
  /\ host.auth.type # "Password" => host.auth.credential_ref = <<>>
  /\ host.auth.key_path = IF host.auth.type = "PrivateKey" THEN <<host.auth.key_path[1]>> ELSE <<>>

IsEndpoint(endpoint) == endpoint = [host |-> endpoint.host, port |-> endpoint.port]

IsTunnelConfig(tunnel) ==
  /\ tunnel = [id |-> tunnel.id, name |-> tunnel.name, group_id |-> tunnel.group_id,
               mode |-> tunnel.mode, jump_chain |-> tunnel.jump_chain, local |-> tunnel.local,
               remote |-> tunnel.remote, reconnect |-> tunnel.reconnect]
  /\ IsOption(tunnel.group_id) /\ IsOption(tunnel.remote)
  /\ \A i \in DOMAIN tunnel.remote : IsEndpoint(tunnel.remote[i])
  /\ tunnel.reconnect \in ReconnectPolicy

IsDomainConfig(config) ==
  /\ config = [app |-> config.app, hosts |-> config.hosts, groups |-> config.groups,
               tunnels |-> config.tunnels]
  /\ IsVec(config.hosts) /\ IsVec(config.groups) /\ IsVec(config.tunnels)
  /\ \A i \in DOMAIN config.hosts : IsSshHost(config.hosts[i])
  /\ \A i \in DOMAIN config.groups : IsGroupRecord(config.groups[i])
  /\ \A i \in DOMAIN config.tunnels : IsTunnelConfig(config.tunnels[i])

\* A host with the home directory put in.
ExpandedHost(host) == [host EXCEPT !.auth.key_path = Map(@, expand_home)]

\* A host that is written and read is the same but for the home directory.
LEMMA HostRoundTrip ==
  ASSUME NEW host, IsSshHost(host)
  PROVE  HostDomain(HostRecord(host)) = ExpandedHost(host)
<1> DEFINE auth == host.auth
           expanded == [type |-> auth.type, credential_ref |-> auth.credential_ref,
                        key_path |-> Map(auth.key_path, expand_home)]
<1>1. Map(auth.key_path, expand_home) =
        IF auth.type = "PrivateKey" THEN <<expand_home(auth.key_path[1])>> ELSE <<>>
  <2>1. CASE auth.type = "PrivateKey"
    <3>1. auth.key_path = <<auth.key_path[1]>>
      BY <2>1 DEF IsSshHost
    <3>2. DOMAIN auth.key_path = 1..1
      BY <3>1
    <3>3. Map(auth.key_path, expand_home) = [i \in 1..1 |-> expand_home(auth.key_path[i])]
      BY <3>2 DEF Map
    <3>4. Map(auth.key_path, expand_home) = <<expand_home(auth.key_path[1])>>
      BY <3>3
    <3> QED
      BY <2>1, <3>4
  <2>2. CASE auth.type # "PrivateKey"
    <3>1. auth.key_path = <<>>
      BY <2>2 DEF IsSshHost
    <3> QED
      BY <2>2, <3>1 DEF Map
  <2> QED
    BY <2>1, <2>2
<1>2. [auth EXCEPT !.key_path = Map(@, expand_home)] = expanded
  BY DEF IsSshHost
<1>3. ExpandedHost(host) = [host EXCEPT !.auth = expanded]
  BY <1>2 DEF ExpandedHost, IsSshHost
<1>4. HostDomain(HostRecord(host)).auth = expanded
  BY <1>1 DEF HostDomain, HostRecord, IsSshHost
<1> HIDE DEF expanded
<1> QED
  BY <1>3, <1>4 DEF HostDomain, HostRecord, IsSshHost

\* An optional value is a list.
LEMMA OptionIsVec ==
  ASSUME NEW s, IsOption(s)
  PROVE  IsVec(s) /\ DOMAIN s = 1..Len(s) /\ s = [i \in DOMAIN s |-> s[i]] /\ Len(s) \in 0..1
<1>1. CASE s = <<>>
  BY <1>1, VecSmall
<1>2. CASE s = <<s[1]>>
  <2>1. IsVec(s) /\ Len(s) = 1
    BY <1>2, VecSmall
  <2> QED
    BY <2>1 DEF IsVec
<1> QED
  BY <1>1, <1>2 DEF IsOption

\* A tunnel that is written and read is the same.
LEMMA TunnelRoundTrip ==
  ASSUME NEW tunnel, IsTunnelConfig(tunnel)
  PROVE  TunnelDomain(TunnelRecord(tunnel)) = tunnel
<1> DEFINE remote == tunnel.remote
           again == [i \in DOMAIN remote |-> [host |-> remote[i].host, port |-> remote[i].port]]
<1>1. remote = [i \in DOMAIN remote |-> remote[i]]
  BY OptionIsVec DEF IsTunnelConfig
<1>2. \A i \in DOMAIN remote : remote[i] = [host |-> remote[i].host, port |-> remote[i].port]
  BY DEF IsTunnelConfig, IsEndpoint
<1>3. again = remote
  BY <1>1, <1>2
<1>4. TunnelDomain(TunnelRecord(tunnel)).remote = again
  BY DEF TunnelDomain, TunnelRecord
<1> HIDE DEF remote, again
<1>5. TunnelDomain(TunnelRecord(tunnel)) = [tunnel EXCEPT !.remote = again]
  BY <1>4 DEF TunnelDomain, TunnelRecord, IsTunnelConfig
<1> QED
  BY <1>3, <1>5 DEF remote, IsTunnelConfig

\* A configuration that is written and read is the same but for the home
\* directory.
LEMMA ConfigRoundTrip ==
  ASSUME NEW config, IsDomainConfig(config)
  PROVE  into_domain(try_from(config)) = Expanded(config)
<1> DEFINE hosts == [i \in DOMAIN config.hosts |-> ExpandedHost(config.hosts[i])]
<1>1. Map(Map(config.hosts, HostRecord), HostDomain) = hosts
  BY HostRoundTrip DEF Map, IsDomainConfig
<1>2. Map(Map(config.tunnels, TunnelRecord), TunnelDomain) = config.tunnels
  <2>1. config.tunnels = [i \in DOMAIN config.tunnels |-> config.tunnels[i]]
    BY DEF IsDomainConfig, IsVec
  <2>2. \A i \in DOMAIN config.tunnels : TunnelDomain(TunnelRecord(config.tunnels[i])) = config.tunnels[i]
    BY TunnelRoundTrip DEF IsDomainConfig
  <2> QED
    BY <2>1, <2>2 DEF Map
<1>3. into_domain(try_from(config)) =
        [app |-> config.app, hosts |-> hosts, groups |-> config.groups, tunnels |-> config.tunnels]
  BY <1>1, <1>2 DEF into_domain, try_from
<1>4. Expanded(config) = [config EXCEPT !.hosts = hosts]
  BY DEF Expanded, ExpandedHost, Map
<1> HIDE DEF hosts
<1> QED
  BY <1>3, <1>4 DEF IsDomainConfig

\* What Loads and validate ask of a configuration, without the documents
\* between.
Sound(config) ==
  /\ Len(config.hosts) <= MaxHosts
  /\ Len(config.groups) <= MaxGroups
  /\ Len(config.tunnels) <= MaxTunnels
  /\ DistinctIds(config.hosts) /\ DistinctIds(config.groups) /\ DistinctIds(config.tunnels)
  /\ \A i \in DOMAIN config.hosts : HostLoads(HostRecord(config.hosts[i]))
  /\ \A i \in DOMAIN config.tunnels :
       /\ Len(config.tunnels[i].jump_chain) <= MaxJumpHops
       /\ validate(config.tunnels[i], config.hosts, config.groups)

\* validate looks only at how often an id occurs.
LEMMA ValidateByCount ==
  ASSUME NEW tunnel, NEW hosts, NEW groups, NEW others,
         \A id : CountId(hosts, id) = CountId(others, id)
  PROVE  validate(tunnel, hosts, groups) <=> validate(tunnel, others, groups)
  BY DEF validate

\* Putting the home directory in keeps the ids.
LEMMA ExpandedIds ==
  ASSUME NEW config, IsDomainConfig(config)
  PROVE  /\ Expanded(config).groups = config.groups
         /\ Expanded(config).tunnels = config.tunnels
         /\ Expanded(config).hosts = [i \in DOMAIN config.hosts |-> ExpandedHost(config.hosts[i])]
         /\ \A id : CountId(Expanded(config).hosts, id) = CountId(config.hosts, id)
<1>1. /\ Expanded(config).groups = config.groups
      /\ Expanded(config).tunnels = config.tunnels
      /\ Expanded(config).hosts = [i \in DOMAIN config.hosts |-> ExpandedHost(config.hosts[i])]
  BY DEF Expanded, ExpandedHost, Map, IsDomainConfig
<1>2. \A i \in DOMAIN config.hosts : ExpandedHost(config.hosts[i]).id = config.hosts[i].id
  BY DEF ExpandedHost, IsDomainConfig, IsSshHost
<1> QED
  BY <1>1, <1>2, SameIds DEF IsDomainConfig

\* What is accepted, then, is what converts and is sound.
LEMMA AcceptedMeans ==
  ASSUME NEW config, IsDomainConfig(config)
  PROVE  Accepted(config) <=> Converts(config) /\ Sound(config)
<1> DEFINE document == try_from(config)
           hosts == Map(config.hosts, HostRecord)
           tunnels == Map(config.tunnels, TunnelRecord)
<1>1. /\ document.schema_version = SCHEMA_VERSION
      /\ document.hosts = hosts /\ document.groups = config.groups /\ document.tunnels = tunnels
  BY DEF try_from
<1>2. IsVec(config.hosts) /\ IsVec(config.groups) /\ IsVec(config.tunnels)
  BY DEF IsDomainConfig
<1>3. /\ Len(hosts) = Len(config.hosts) /\ DOMAIN hosts = DOMAIN config.hosts
      /\ DistinctIds(hosts) <=> DistinctIds(config.hosts)
  <2>1. \A i \in DOMAIN config.hosts : hosts[i].id = config.hosts[i].id
    BY DEF Map, HostRecord
  <2>2. hosts = [i \in DOMAIN config.hosts |-> hosts[i]]
    BY DEF Map
  <2> HIDE DEF hosts
  <2> QED
    BY <1>2, <2>1, <2>2, SameIds
<1>4. /\ Len(tunnels) = Len(config.tunnels) /\ DOMAIN tunnels = DOMAIN config.tunnels
      /\ DistinctIds(tunnels) <=> DistinctIds(config.tunnels)
  <2>1. \A i \in DOMAIN config.tunnels : tunnels[i].id = config.tunnels[i].id
    BY DEF Map, TunnelRecord
  <2>2. tunnels = [i \in DOMAIN config.tunnels |-> tunnels[i]]
    BY DEF Map
  <2> HIDE DEF tunnels
  <2> QED
    BY <1>2, <2>1, <2>2, SameIds
<1>5. \A i \in DOMAIN config.hosts : hosts[i] = HostRecord(config.hosts[i])
  BY DEF Map
<1>6. ASSUME NEW i \in DOMAIN config.tunnels
      PROVE  /\ TunnelLoads(tunnels[i]) <=> Len(config.tunnels[i].jump_chain) <= MaxJumpHops
             /\ LET domain == into_domain(document)
                IN validate(domain.tunnels[i], domain.hosts, domain.groups) <=>
                     validate(config.tunnels[i], config.hosts, config.groups)
  <2>1. tunnels[i] = TunnelRecord(config.tunnels[i]) /\ into_domain(document) = Expanded(config)
    BY ConfigRoundTrip DEF Map
  <2> HIDE DEF document, tunnels
  <2>2. Len(tunnels[i].remote_host) = Len(tunnels[i].remote_port)
    <3>1. /\ Len(config.tunnels[i].remote) \in Nat
          /\ DOMAIN config.tunnels[i].remote = 1..Len(config.tunnels[i].remote)
      BY OptionIsVec DEF IsDomainConfig, IsTunnelConfig
    <3>2. /\ tunnels[i].remote_host =
               [k \in 1..Len(config.tunnels[i].remote) |-> tunnels[i].remote_host[k]]
          /\ tunnels[i].remote_port =
               [k \in 1..Len(config.tunnels[i].remote) |-> tunnels[i].remote_port[k]]
      BY <2>1, <3>1 DEF TunnelRecord
    <3> QED
      BY <3>1, <3>2, VecOf
  <2>3. tunnels[i].jump_chain = config.tunnels[i].jump_chain
    BY <2>1 DEF TunnelRecord
  <2>4. validate(config.tunnels[i], Expanded(config).hosts, config.groups) <=>
          validate(config.tunnels[i], config.hosts, config.groups)
    BY ExpandedIds, ValidateByCount
  <2>5. TunnelLoads(tunnels[i]) <=> Len(config.tunnels[i].jump_chain) <= MaxJumpHops
    BY <2>2, <2>3 DEF TunnelLoads
  <2> QED
    BY <2>1, <2>4, <2>5, ExpandedIds
<1> HIDE DEF document, hosts, tunnels
<1>7. Loads(document) <=> Sound(config)
  BY <1>1, <1>3, <1>4, <1>5, <1>6, Zenon DEF Loads, Sound
<1> QED
  BY <1>7 DEF Accepted, document

\* A configuration the program may work with.
Usable(config) == IsDomainConfig(config) /\ Accepted(config)

\* The document made of a usable configuration is one a file can hold.
LEMMA UsableIsDocument ==
  ASSUME NEW config, Usable(config)
  PROVE  IsConfigDocument(try_from(config)) /\ Loads(try_from(config))
<1> DEFINE document == try_from(config)
           hosts == Map(config.hosts, HostRecord)
           tunnels == Map(config.tunnels, TunnelRecord)
<1>1. document.hosts = hosts /\ document.groups = config.groups /\ document.tunnels = tunnels
  BY DEF try_from
<1>2. IsDomainConfig(config) /\ Converts(config) /\ Loads(document)
  BY DEF Usable, Accepted
<1>3. /\ DOMAIN hosts = DOMAIN config.hosts /\ IsVec(hosts)
      /\ DOMAIN tunnels = DOMAIN config.tunnels /\ IsVec(tunnels)
  BY <1>2, VecOf, VecIsSeq DEF Map, IsDomainConfig
<1>4. \A i \in DOMAIN hosts : hosts[i].connect_timeout_ms <= MaxMillis
  BY <1>2 DEF Map, HostRecord, Converts
<1>5. ASSUME NEW i \in DOMAIN tunnels
      PROVE  /\ IsOption(tunnels[i].group_id) /\ IsOption(tunnels[i].remote_host)
             /\ IsOption(tunnels[i].remote_port)
             /\ tunnels[i].reconnect \in ReconnectPolicy
             /\ \A field \in {"base_delay", "max_delay", "reset_after_healthy"} :
                  tunnels[i].reconnect[field] <= MaxMillis
  <2> DEFINE tunnel == config.tunnels[i]
  <2>1. tunnels[i] = TunnelRecord(tunnel) /\ i \in DOMAIN config.tunnels /\ IsTunnelConfig(tunnel)
    BY <1>2, <1>3 DEF Map, IsDomainConfig
  <2> HIDE DEF tunnels
  <2>2. tunnels[i].group_id = tunnel.group_id /\ tunnels[i].reconnect = tunnel.reconnect
    BY <2>1 DEF TunnelRecord
  <2>3. IsOption(tunnels[i].remote_host) /\ IsOption(tunnels[i].remote_port)
    <3>1. CASE tunnel.remote = <<>>
      BY <2>1, <3>1 DEF TunnelRecord, IsOption
    <3>2. CASE tunnel.remote = <<tunnel.remote[1]>>
      <4>1. DOMAIN tunnel.remote = 1..1
        BY <3>2
      <4>2. /\ tunnels[i].remote_host = [k \in 1..1 |-> tunnel.remote[k].host]
            /\ tunnels[i].remote_port = [k \in 1..1 |-> tunnel.remote[k].port]
        BY <2>1, <4>1 DEF TunnelRecord
      <4>3. /\ tunnels[i].remote_host = <<tunnel.remote[1].host>>
            /\ tunnels[i].remote_port = <<tunnel.remote[1].port>>
        BY <4>2
      <4> QED
        BY <4>3 DEF IsOption
    <3> QED
      BY <2>1, <3>1, <3>2 DEF IsTunnelConfig, IsOption
  <2>4. \A field \in {"base_delay", "max_delay", "reset_after_healthy"} :
          tunnel.reconnect[field] <= MaxMillis
    BY <1>2, <2>1 DEF Converts
  <2> HIDE DEF tunnel
  <2> QED
    BY <2>1, <2>2, <2>3, <2>4 DEF IsTunnelConfig
<1> HIDE DEF document, hosts, tunnels
<1>6. IsConfigDocument(document)
  BY <1>1, <1>2, <1>3, <1>4, <1>5 DEF IsConfigDocument, IsDomainConfig
<1> QED
  BY <1>2, <1>6 DEF document

\* The home directory is put in when a host is read, and only then.
LEMMA DomainHost ==
  ASSUME NEW record
  PROVE  /\ IsSshHost(HostDomain(record))
         /\ ExpandedHost(HostDomain(record)) = HostDomain(record)
         /\ HostLoads(record) => HostLoads(HostRecord(HostDomain(record)))
<1> DEFINE host == HostDomain(record)
           path == host.auth.key_path
<1>1. IsSshHost(host)
  BY DEF IsSshHost, HostDomain
<1>2. Map(path, expand_home) = path
  <2>1. CASE record.auth_type = "PrivateKey"
    <3>1. path = <<expand_home(record.identity_file[1])>>
      BY <2>1 DEF HostDomain
    <3>2. expand_home(expand_home(record.identity_file[1])) = expand_home(record.identity_file[1])
      BY DEF expand_home
    <3> QED
      BY <3>1, <3>2 DEF Map
  <2>2. CASE record.auth_type # "PrivateKey"
    <3>1. path = <<>>
      BY <2>2 DEF HostDomain
    <3> QED
      BY <3>1 DEF Map
  <2> QED
    BY <2>1, <2>2
<1>3. ExpandedHost(host) = host
  <2> HIDE DEF host
  <2>1. [host.auth EXCEPT !.key_path = path] = host.auth
    BY <1>1 DEF IsSshHost
  <2> QED
    BY <1>1, <1>2, <2>1 DEF ExpandedHost, IsSshHost
<1>4. HostLoads(record) => HostLoads(HostRecord(host))
  BY DEF HostLoads, Expands, expand_home, HostRecord, HostDomain
<1> QED
  BY <1>1, <1>3, <1>4

LEMMA DomainTunnel ==
  ASSUME NEW record, IsOption(record.group_id), IsOption(record.remote_host),
         record.reconnect \in ReconnectPolicy
  PROVE  IsTunnelConfig(TunnelDomain(record))
<1> DEFINE tunnel == TunnelDomain(record)
<1>1. /\ tunnel.group_id = record.group_id /\ tunnel.reconnect = record.reconnect
      /\ tunnel.remote = [i \in DOMAIN record.remote_host |->
                            [host |-> record.remote_host[i], port |-> record.remote_port[i]]]
  BY DEF TunnelDomain
<1>2. tunnel = [id |-> tunnel.id, name |-> tunnel.name, group_id |-> tunnel.group_id,
                mode |-> tunnel.mode, jump_chain |-> tunnel.jump_chain, local |-> tunnel.local,
                remote |-> tunnel.remote, reconnect |-> tunnel.reconnect]
  BY DEF TunnelDomain
<1> HIDE DEF tunnel
<1>3. IsOption(tunnel.remote)
  <2>1. CASE record.remote_host = <<>>
    BY <1>1, <2>1 DEF IsOption
  <2>2. CASE record.remote_host = <<record.remote_host[1]>>
    <3>1. DOMAIN record.remote_host = 1..1
      BY <2>2
    <3>2. tunnel.remote = <<[host |-> record.remote_host[1], port |-> record.remote_port[1]]>>
      BY <1>1, <3>1
    <3> QED
      BY <3>2 DEF IsOption
  <2> QED
    BY <2>1, <2>2 DEF IsOption
<1>4. \A i \in DOMAIN tunnel.remote : IsEndpoint(tunnel.remote[i])
  BY <1>1 DEF IsEndpoint
<1>5. IsTunnelConfig(tunnel)
  BY <1>1, <1>2, <1>3, <1>4 DEF IsTunnelConfig
<1> QED
  BY <1>5 DEF tunnel

\* What a document that loads is made into is usable, and is what it will be
\* read as again.
LEMMA LoadedIsUsable ==
  ASSUME NEW document, IsConfigDocument(document), Loads(document)
  PROVE  /\ Usable(into_domain(document))
         /\ Expanded(into_domain(document)) = into_domain(document)
<1> DEFINE config == into_domain(document)
           hosts == Map(document.hosts, HostDomain)
           tunnels == Map(document.tunnels, TunnelDomain)
<1>1. /\ config = [app |-> document.app, hosts |-> hosts, groups |-> document.groups, tunnels |-> tunnels]
      /\ hosts = [i \in DOMAIN document.hosts |-> HostDomain(document.hosts[i])]
      /\ tunnels = [i \in DOMAIN document.tunnels |-> TunnelDomain(document.tunnels[i])]
  BY DEF into_domain, Map
<1>2. IsVec(document.hosts) /\ IsVec(document.groups) /\ IsVec(document.tunnels)
  BY DEF IsConfigDocument
<1> HIDE DEF hosts, tunnels
<1>3. /\ IsVec(hosts) /\ Len(hosts) = Len(document.hosts) /\ DOMAIN hosts = DOMAIN document.hosts
      /\ DistinctIds(hosts) <=> DistinctIds(document.hosts)
  <2>1. \A i \in DOMAIN document.hosts : hosts[i].id = document.hosts[i].id
    BY <1>1 DEF HostDomain
  <2>2. hosts = [i \in DOMAIN document.hosts |-> hosts[i]]
    BY <1>1
  <2> QED
    BY <1>2, <2>1, <2>2, SameIds
<1>4. /\ IsVec(tunnels) /\ Len(tunnels) = Len(document.tunnels) /\ DOMAIN tunnels = DOMAIN document.tunnels
      /\ DistinctIds(tunnels) <=> DistinctIds(document.tunnels)
  <2>1. \A i \in DOMAIN document.tunnels : tunnels[i].id = document.tunnels[i].id
    BY <1>1 DEF TunnelDomain
  <2>2. tunnels = [i \in DOMAIN document.tunnels |-> tunnels[i]]
    BY <1>1
  <2> QED
    BY <1>2, <2>1, <2>2, SameIds
<1>5. /\ config.hosts = hosts /\ config.groups = document.groups /\ config.tunnels = tunnels
      /\ config = [app |-> config.app, hosts |-> config.hosts, groups |-> config.groups,
                   tunnels |-> config.tunnels]
  BY <1>1
<1>6. \A i \in DOMAIN tunnels : validate(tunnels[i], hosts, document.groups)
  BY <1>4, <1>5 DEF Loads
<1> HIDE DEF config
<1>7. IsDomainConfig(config)
  <2>1. \A i \in DOMAIN hosts : IsSshHost(hosts[i])
    BY <1>1, <1>3, DomainHost
  <2>2. \A i \in DOMAIN tunnels : IsTunnelConfig(tunnels[i])
    BY <1>1, <1>4, DomainTunnel DEF IsConfigDocument
  <2>3. \A i \in DOMAIN document.groups : IsGroupRecord(document.groups[i])
    BY DEF IsConfigDocument
  <2> QED
    BY <1>2, <1>3, <1>4, <1>5, <2>1, <2>2, <2>3 DEF IsDomainConfig
<1>8. Converts(config)
  <2>1. \A i \in DOMAIN hosts : hosts[i].connect_timeout <= MaxMillis
    BY <1>1, <1>3 DEF HostDomain, IsConfigDocument
  <2>2. ASSUME NEW i \in DOMAIN tunnels
        PROVE  /\ tunnels[i].reconnect.base_delay <= MaxMillis
               /\ tunnels[i].reconnect.max_delay <= MaxMillis
               /\ tunnels[i].reconnect.reset_after_healthy <= MaxMillis
    <3>1. tunnels[i].reconnect = document.tunnels[i].reconnect
      BY <1>1, <1>4 DEF TunnelDomain
    <3> QED
      BY <1>4, <3>1 DEF IsConfigDocument
  <2> QED
    BY <1>5, <2>1, <2>2 DEF Converts
<1>9. Sound(config)
  <2>1. \A i \in DOMAIN hosts : HostLoads(HostRecord(hosts[i]))
    BY <1>1, <1>3, DomainHost DEF Loads
  <2>2. \A i \in DOMAIN tunnels : Len(tunnels[i].jump_chain) <= MaxJumpHops
    BY <1>1, <1>4 DEF Loads, TunnelLoads, TunnelDomain
  <2>3. /\ Len(document.hosts) <= MaxHosts /\ Len(document.groups) <= MaxGroups
        /\ Len(document.tunnels) <= MaxTunnels
        /\ DistinctIds(document.hosts) /\ DistinctIds(document.groups) /\ DistinctIds(document.tunnels)
    BY DEF Loads
  <2> QED
    BY <1>3, <1>4, <1>5, <1>6, <2>1, <2>2, <2>3 DEF Sound
<1>10. Expanded(config) = config
  <2>1. Expanded(config).hosts = hosts
    BY <1>1, <1>3, <1>5, <1>7, ExpandedIds, DomainHost
  <2>2. Expanded(config) = [config EXCEPT !.hosts = Expanded(config).hosts]
    BY <1>5 DEF Expanded
  <2> QED
    BY <1>5, <2>1, <2>2
<1> QED
  BY <1>7, <1>8, <1>9, <1>10, AcceptedMeans DEF Usable, config

-----------------------------------------------------------------------------
(* The changes that are sent without being validated keep a configuration  *)
(* usable.                                                                 *)

\* A setting.
LEMMA ToggledIsUsable ==
  ASSUME NEW config, NEW app, Usable(config)
  PROVE  Usable([config EXCEPT !.app = app])
<1> DEFINE new == [config EXCEPT !.app = app]
<1>1. IsDomainConfig(config) /\ Converts(config) /\ Sound(config)
  BY AcceptedMeans DEF Usable
<1>2. /\ new = [app |-> new.app, hosts |-> new.hosts, groups |-> new.groups, tunnels |-> new.tunnels]
      /\ new.hosts = config.hosts /\ new.groups = config.groups /\ new.tunnels = config.tunnels
  BY <1>1 DEF IsDomainConfig
<1> HIDE DEF new
<1>3. IsDomainConfig(new)
  BY <1>1, <1>2 DEF IsDomainConfig
<1>4. Converts(new) /\ Sound(new)
  BY <1>1, <1>2 DEF Converts, Sound
<1> QED
  BY <1>3, <1>4, AcceptedMeans DEF Usable, new

\* A tunnel that has left its group, or not, and is in one of these or in none.
Regrouped(new, old, groups) ==
  /\ new \in {old, [old EXCEPT !.group_id = <<>>]}
  /\ \A i \in DOMAIN new.group_id : new.group_id[i] \in Ids(groups)

LEMMA UngroupedTunnel ==
  ASSUME NEW old, NEW new, NEW hosts, NEW groups, NEW others, IsTunnelConfig(old),
         Regrouped(new, old, others), DistinctIds(others), validate(old, hosts, groups)
  PROVE  /\ IsTunnelConfig(new)
         /\ new.id = old.id /\ new.reconnect = old.reconnect /\ new.jump_chain = old.jump_chain
         /\ validate(new, hosts, others)
<1>1. /\ new.id = old.id /\ new.name = old.name /\ new.reconnect = old.reconnect
      /\ new.jump_chain = old.jump_chain /\ new.mode = old.mode
      /\ new.local = old.local /\ new.remote = old.remote
      /\ new = [id |-> new.id, name |-> new.name, group_id |-> new.group_id, mode |-> new.mode,
                jump_chain |-> new.jump_chain, local |-> new.local, remote |-> new.remote,
                reconnect |-> new.reconnect]
  BY DEF IsTunnelConfig, Regrouped
<1>2. new.group_id = old.group_id \/ new.group_id = <<>>
  BY DEF IsTunnelConfig, Regrouped
<1>3. IsTunnelConfig(new)
  BY <1>1, <1>2 DEF IsTunnelConfig, IsOption
<1>4. validate(new, hosts, others)
  <2>1. \A i \in DOMAIN new.group_id : CountId(others, new.group_id[i]) = 1
    BY DEF Regrouped, DistinctIds
  <2> QED
    BY <1>1, <2>1 DEF validate, RemoteValid
<1> QED
  BY <1>1, <1>3, <1>4

LEMMA RegroupedParts ==
  ASSUME NEW config, NEW groups, NEW tunnels, IsDomainConfig(config)
  PROVE  [config EXCEPT !.groups = groups, !.tunnels = tunnels] =
           [app |-> config.app, hosts |-> config.hosts, groups |-> groups, tunnels |-> tunnels]
<1>1. config = [app |-> config.app, hosts |-> config.hosts, groups |-> config.groups,
                tunnels |-> config.tunnels]
  BY DEF IsDomainConfig
<1> DEFINE mid == [config EXCEPT !.groups = groups]
<1>2. mid = [app |-> config.app, hosts |-> config.hosts, groups |-> groups, tunnels |-> config.tunnels]
  BY <1>1
<1>3. [config EXCEPT !.groups = groups, !.tunnels = tunnels] = [mid EXCEPT !.tunnels = tunnels]
  BY Zenon
<1> HIDE DEF mid
<1>4. [mid EXCEPT !.tunnels = tunnels] =
        [app |-> config.app, hosts |-> config.hosts, groups |-> groups, tunnels |-> tunnels]
  BY <1>2
<1> QED
  BY <1>3, <1>4

\* Other groups, and tunnels that are in one of them or in none.
LEMMA RegroupedIsUsable ==
  ASSUME NEW config, NEW groups, NEW tunnels, Usable(config),
         IsVec(groups), Len(groups) <= MaxGroups, DistinctIds(groups),
         \A i \in DOMAIN groups : IsGroupRecord(groups[i]),
         tunnels = [i \in DOMAIN config.tunnels |-> tunnels[i]],
         \A i \in DOMAIN config.tunnels : Regrouped(tunnels[i], config.tunnels[i], groups)
  PROVE  Usable([config EXCEPT !.groups = groups, !.tunnels = tunnels])
<1> DEFINE new == [config EXCEPT !.groups = groups, !.tunnels = tunnels]
<1>1. IsDomainConfig(config) /\ Converts(config) /\ Sound(config)
  BY AcceptedMeans DEF Usable
<1>2. /\ new = [app |-> new.app, hosts |-> new.hosts, groups |-> new.groups, tunnels |-> new.tunnels]
      /\ new.hosts = config.hosts /\ new.groups = groups /\ new.tunnels = tunnels
  <2>1. new = [app |-> config.app, hosts |-> config.hosts, groups |-> groups, tunnels |-> tunnels]
    BY <1>1, RegroupedParts
  <2> HIDE DEF new
  <2> QED
    BY <2>1
<1> HIDE DEF new
<1>3. ASSUME NEW i \in DOMAIN config.tunnels
      PROVE  /\ IsTunnelConfig(tunnels[i])
             /\ tunnels[i].id = config.tunnels[i].id
             /\ tunnels[i].reconnect = config.tunnels[i].reconnect
             /\ tunnels[i].jump_chain = config.tunnels[i].jump_chain
             /\ validate(tunnels[i], config.hosts, groups)
  <2>1. IsTunnelConfig(config.tunnels[i])
    BY <1>1 DEF IsDomainConfig
  <2>2. validate(config.tunnels[i], config.hosts, config.groups)
    BY <1>1 DEF Sound
  <2>3. Regrouped(tunnels[i], config.tunnels[i], groups)
    OBVIOUS
  <2> QED
    BY <2>1, <2>2, <2>3, UngroupedTunnel, Zenon
<1>4. /\ IsVec(tunnels) /\ Len(tunnels) = Len(config.tunnels) /\ DOMAIN tunnels = DOMAIN config.tunnels
      /\ DistinctIds(tunnels) <=> DistinctIds(config.tunnels)
  <2>1. IsVec(config.tunnels) /\ \A i \in DOMAIN config.tunnels : tunnels[i].id = config.tunnels[i].id
    BY <1>1, <1>3 DEF IsDomainConfig
  <2> QED
    BY <2>1, SameIds
<1>5. IsDomainConfig(new)
  BY <1>1, <1>2, <1>3, <1>4 DEF IsDomainConfig
<1>6. Converts(new)
  <2>1. \A i \in DOMAIN config.tunnels : tunnels[i].reconnect = config.tunnels[i].reconnect
    BY <1>3
  <2>2. \A i \in DOMAIN new.hosts : new.hosts[i].connect_timeout <= MaxMillis
    BY <1>1, <1>2, Zenon DEF Converts
  <2>3. ASSUME NEW i \in DOMAIN new.tunnels
        PROVE  \A d \in {new.tunnels[i].reconnect.base_delay, new.tunnels[i].reconnect.max_delay,
                         new.tunnels[i].reconnect.reset_after_healthy} : d <= MaxMillis
    <3>1. new.tunnels[i].reconnect = config.tunnels[i].reconnect /\ i \in DOMAIN config.tunnels
      BY <1>2, <1>4, <2>1
    <3> QED
      BY <1>1, <3>1, Zenon DEF Converts
  <2> QED
    BY <2>2, <2>3, Zenon DEF Converts
<1>7. Sound(new)
  BY <1>1, <1>2, <1>3, <1>4 DEF Sound
<1> QED
  BY <1>5, <1>6, <1>7, AcceptedMeans DEF Usable, new

\* Groups of which none is missing.
LEMMA MoreGroupsAreUsable ==
  ASSUME NEW config, NEW groups, Usable(config),
         IsVec(groups), Len(groups) <= MaxGroups, DistinctIds(groups),
         \A i \in DOMAIN groups : IsGroupRecord(groups[i]),
         Ids(config.groups) \subseteq Ids(groups)
  PROVE  Usable([config EXCEPT !.groups = groups])
<1>1. IsDomainConfig(config) /\ Sound(config)
  BY AcceptedMeans DEF Usable
<1>2. config.tunnels = [i \in DOMAIN config.tunnels |-> config.tunnels[i]]
  BY <1>1 DEF IsDomainConfig, IsVec
<1>3. ASSUME NEW i \in DOMAIN config.tunnels, NEW k \in DOMAIN config.tunnels[i].group_id
      PROVE  config.tunnels[i].group_id[k] \in Ids(groups)
  <2>1. CountId(config.groups, config.tunnels[i].group_id[k]) = 1
    BY <1>1 DEF Sound, validate
  <2>2. config.tunnels[i].group_id[k] \in Ids(config.groups)
    BY <1>1, <2>1, CountIsOne DEF IsDomainConfig, Ids
  <2> QED
    BY <2>2
<1>4. \A i \in DOMAIN config.tunnels : Regrouped(config.tunnels[i], config.tunnels[i], groups)
  BY <1>3 DEF Regrouped
<1>5. Usable([config EXCEPT !.groups = groups, !.tunnels = config.tunnels])
  BY <1>2, <1>4, RegroupedIsUsable
<1>6. [config EXCEPT !.groups = groups, !.tunnels = config.tunnels] = [config EXCEPT !.groups = groups]
  BY <1>1 DEF IsDomainConfig
<1> QED
  BY <1>5, <1>6

\* What was appended is cut off again.
LEMMA CutAppended ==
  ASSUME NEW s, NEW e, IsVec(s)
  PROVE  SubSeq(Append(s, e), 1, Len(s)) = s
<1> DEFINE S == {s[i] : i \in 1..Len(s)} \cup {e}
<1>1. s \in Seq(S) /\ e \in S
  <2>1. s \in [1..Len(s) -> S] /\ Len(s) \in Nat
    BY DEF IsVec
  <2> QED
    BY <2>1, SeqDef
<1> HIDE DEF S
<1> QED
  BY <1>1

\* save_group: a group is changed, or comes last; then there may be one too many.
LEMMA SavedGroup ==
  ASSUME NEW config, NEW group, Usable(config), IsGroupRecord(group)
  PROVE  LET new == [config EXCEPT !.groups = Upsert(@, group)]
         IN /\ IsDomainConfig(new)
            /\ \/ Accepted(new)
               \/ /\ Len(new.groups) = MaxGroups + 1
                  /\ Accepted([new EXCEPT !.groups = SubSeq(@, 1, MaxGroups)])
<1> DEFINE groups == Upsert(config.groups, group)
           new == [config EXCEPT !.groups = groups]
<1>1. /\ IsDomainConfig(config) /\ IsVec(config.groups)
      /\ Len(config.groups) <= MaxGroups /\ DistinctIds(config.groups)
      /\ \A i \in DOMAIN config.groups : IsGroupRecord(config.groups[i])
  BY AcceptedMeans DEF Usable, IsDomainConfig, Sound
<1>2. CASE group.id \in Ids(config.groups)
  <2>1. groups = [i \in DOMAIN config.groups |->
                    IF config.groups[i].id = group.id THEN group ELSE config.groups[i]]
    BY <1>2 DEF Upsert, Map
  <2> HIDE DEF groups
  <2>2. groups = [i \in DOMAIN config.groups |-> groups[i]]
    BY <2>1
  <2>3. \A i \in DOMAIN config.groups : groups[i].id = config.groups[i].id
    BY <2>1
  <2>4. /\ IsVec(groups) /\ Len(groups) = Len(config.groups) /\ DOMAIN groups = DOMAIN config.groups
        /\ Ids(groups) = Ids(config.groups) /\ DistinctIds(groups)
    BY <1>1, <2>2, <2>3, SameIds, Zenon
  <2>5. \A i \in DOMAIN groups : IsGroupRecord(groups[i])
    BY <1>1, <2>1, <2>4
  <2>6. Usable(new)
    BY <1>1, <2>4, <2>5, MoreGroupsAreUsable
  <2> QED
    BY <2>6 DEF Usable, groups
<1>3. CASE group.id \notin Ids(config.groups)
  <2>1. groups = Append(config.groups, group)
    BY <1>3 DEF Upsert
  <2> HIDE DEF groups
  <2>2. /\ IsVec(groups) /\ Len(groups) = Len(config.groups) + 1
        /\ DOMAIN groups = 1..(Len(config.groups) + 1) /\ DOMAIN config.groups = 1..Len(config.groups)
        /\ Len(config.groups) \in Nat
        /\ \A i \in 1..Len(config.groups) : groups[i] = config.groups[i]
        /\ groups[Len(config.groups) + 1] = group
    BY <1>1, <2>1, VecAppend, VecIsSeq
  <2>3. \A i \in DOMAIN groups : i \in DOMAIN config.groups \/ i = Len(config.groups) + 1
    BY <2>2
  <2>4. \A i \in DOMAIN groups : IsGroupRecord(groups[i])
    BY <1>1, <2>2, <2>3
  <2>5. DistinctIds(groups)
    <3>1. \A i, j \in DOMAIN config.groups : config.groups[i].id = config.groups[j].id => i = j
      BY <1>1, DistinctMeans
    <3>2. \A i \in DOMAIN config.groups : config.groups[i].id # group.id
      BY <1>3 DEF Ids
    <3>3. \A i, j \in DOMAIN groups : groups[i].id = groups[j].id => i = j
      BY <2>2, <2>3, <3>1, <3>2
    <3> QED
      BY <2>2, <3>3, DistinctMeans
  <2>6. Ids(config.groups) \subseteq Ids(groups)
    BY <2>2 DEF Ids
  <2>7. /\ new = [app |-> config.app, hosts |-> config.hosts, groups |-> groups,
                  tunnels |-> config.tunnels]
        /\ new.groups = groups
    BY <1>1 DEF IsDomainConfig
  <2>8. IsDomainConfig(new)
    <3> HIDE DEF new
    <3>1. /\ new = [app |-> new.app, hosts |-> new.hosts, groups |-> new.groups, tunnels |-> new.tunnels]
          /\ new.hosts = config.hosts /\ new.tunnels = config.tunnels
      BY <2>7
    <3> QED
      BY <1>1, <2>2, <2>4, <2>7, <3>1 DEF IsDomainConfig
  <2>9. CASE Len(config.groups) < MaxGroups
    <3>1. Len(groups) <= MaxGroups
      BY <2>2, <2>9, MaxGroupsAssumption
    <3>2. Usable(new)
      BY <1>1, <2>2, <2>4, <2>5, <2>6, <3>1, MoreGroupsAreUsable
    <3> QED
      BY <3>2 DEF Usable, groups
  <2>10. CASE Len(config.groups) = MaxGroups
    <3>1. SubSeq(new.groups, 1, MaxGroups) = config.groups /\ Len(new.groups) = MaxGroups + 1
      BY <1>1, <2>1, <2>2, <2>7, <2>10, CutAppended
    <3>2. [new EXCEPT !.groups = config.groups] = config
      <4> HIDE DEF new
      <4> QED
        BY <1>1, <2>7 DEF IsDomainConfig
    <3>3. Accepted([new EXCEPT !.groups = SubSeq(@, 1, MaxGroups)])
      BY <3>1, <3>2 DEF Usable
    <3> QED
      BY <2>8, <3>1, <3>3 DEF groups
  <2> QED
    BY <1>1, <2>2, <2>9, <2>10, MaxGroupsAssumption
<1> QED
  BY <1>2, <1>3

\* Groups taken from others, each at most once, have ids of their own.
TakenFrom(groups, new, n, f) ==
  /\ f \in [1..n -> DOMAIN groups] /\ IsInjective(f)
  /\ new = [i \in 1..n |-> new[i]]
  /\ \A i \in 1..n : new[i].id = groups[f[i]].id

LEMMA TakenOnce ==
  ASSUME NEW groups, NEW n \in Nat, NEW f, NEW new,
         IsVec(groups), DistinctIds(groups), TakenFrom(groups, new, n, f)
  PROVE  IsVec(new) /\ DOMAIN new = 1..n /\ Len(new) = n /\ DistinctIds(new)
<1> USE DEF TakenFrom
<1>1. IsVec(new) /\ DOMAIN new = 1..n /\ Len(new) = n
  BY VecOf
<1>2. \A i, j \in DOMAIN groups : groups[i].id = groups[j].id => i = j
  BY DistinctMeans
<1>3. \A i, j \in 1..n : f[i] = f[j] => i = j
  BY DEF IsInjective
<1>4. \A i, j \in 1..n : new[i].id = new[j].id => i = j
  BY <1>2, <1>3
<1> QED
  BY <1>1, <1>4, DistinctMeans

\* delete_group: no tunnel is left in the group that is gone.
LEMMA DeletedGroup ==
  ASSUME NEW config, NEW id, NEW kept, NEW place, NEW groups, NEW tunnels, Usable(config),
         kept = {i \in DOMAIN config.groups : config.groups[i].id # id},
         place \in Bijection(1..Cardinality(kept), kept),
         groups = [i \in DOMAIN place |-> config.groups[place[i]]],
         tunnels = [i \in DOMAIN config.tunnels |-> ungroup(config.tunnels[i], id)]
  PROVE  Usable([config EXCEPT !.groups = groups, !.tunnels = tunnels])
<1> DEFINE n == Cardinality(kept)
<1>1. /\ IsDomainConfig(config) /\ IsVec(config.groups)
      /\ Len(config.groups) <= MaxGroups /\ DistinctIds(config.groups)
      /\ \A i \in DOMAIN config.groups : IsGroupRecord(config.groups[i])
      /\ \A i \in DOMAIN config.tunnels : validate(config.tunnels[i], config.hosts, config.groups)
  BY AcceptedMeans DEF Usable, IsDomainConfig, Sound
<1>2. n \in Nat /\ n <= Len(config.groups) /\ Len(config.groups) \in Nat
  <2>1. Len(config.groups) \in Nat /\ DOMAIN config.groups = 1..Len(config.groups)
    BY <1>1, VecIsSeq
  <2>2. IsFiniteSet(1..Len(config.groups)) /\ Cardinality(1..Len(config.groups)) = Len(config.groups)
    BY <2>1, FS_Interval
  <2>3. kept \in SUBSET (1..Len(config.groups))
    BY <2>1
  <2> QED
    BY <2>1, <2>2, <2>3, FS_Subset, FS_CardinalityType
<1>3. /\ place \in [1..n -> kept] /\ IsInjective(place)
      /\ \A i \in kept : \E k \in 1..n : place[k] = i
  BY DEF Bijection, Injection, Surjection
<1> HIDE DEF n
<1>4. place \in [1..n -> DOMAIN config.groups] /\ DOMAIN place = 1..n
  BY <1>3
<1>5. groups = [i \in 1..n |-> groups[i]] /\ \A i \in 1..n : groups[i] = config.groups[place[i]]
  BY <1>4
<1>6. IsVec(groups) /\ DOMAIN groups = 1..n /\ Len(groups) = n /\ DistinctIds(groups)
  <2>1. TakenFrom(config.groups, groups, n, place)
    BY <1>3, <1>4, <1>5 DEF TakenFrom
  <2> QED
    BY <1>1, <1>2, <2>1, TakenOnce
<1>7. \A i \in DOMAIN groups : IsGroupRecord(groups[i])
  BY <1>1, <1>4, <1>5, <1>6
<1>8. Len(groups) <= MaxGroups
  BY <1>1, <1>2, <1>6, MaxGroupsAssumption
<1>9. \A other \in Ids(config.groups) : other # id => other \in Ids(groups)
  <2> SUFFICES ASSUME NEW i \in DOMAIN config.groups, config.groups[i].id # id
               PROVE  config.groups[i].id \in Ids(groups)
    BY DEF Ids
  <2>1. PICK k \in 1..n : place[k] = i
    BY <1>3
  <2> QED
    BY <1>5, <1>6, <2>1 DEF Ids
<1>10. ASSUME NEW i \in DOMAIN config.tunnels
       PROVE  Regrouped(tunnels[i], config.tunnels[i], groups)
  <2> DEFINE old == config.tunnels[i]
  <2>1. tunnels[i] = IF old.group_id = <<id>> THEN [old EXCEPT !.group_id = <<>>] ELSE old
    BY DEF ungroup
  <2>2. IsTunnelConfig(old) /\ IsOption(old.group_id)
    BY <1>1 DEF IsDomainConfig, IsTunnelConfig
  <2>3. \A k \in DOMAIN old.group_id : CountId(config.groups, old.group_id[k]) = 1
    BY <1>1 DEF validate
  <2>4. \A k \in DOMAIN old.group_id : old.group_id[k] \in Ids(config.groups)
    BY <1>1, <2>3, CountIsOne DEF Ids
  <2> HIDE DEF old
  <2>5. CASE old.group_id = <<id>>
    <3>1. tunnels[i].group_id = <<>> /\ tunnels[i] = [old EXCEPT !.group_id = <<>>]
      BY <2>1, <2>2, <2>5 DEF IsTunnelConfig
    <3> QED
      BY <3>1 DEF Regrouped, old
  <2>6. CASE old.group_id # <<id>>
    <3>1. \A k \in DOMAIN old.group_id : old.group_id[k] # id
      BY <2>2, <2>6 DEF IsOption
    <3> QED
      BY <1>9, <2>1, <2>4, <2>6, <3>1 DEF Regrouped, old
  <2> QED
    BY <2>5, <2>6
<1>11. tunnels = [i \in DOMAIN config.tunnels |-> tunnels[i]]
  OBVIOUS
<1> QED
  BY <1>6, <1>7, <1>8, <1>10, <1>11, RegroupedIsUsable

LEMMA RenumberedGroup ==
  ASSUME NEW group, NEW new, NEW n, IsGroupRecord(group), new = [group EXCEPT !.sort_order = n]
  PROVE  new.id = group.id /\ IsGroupRecord(new)
<1>1. new = [id |-> group.id, name |-> group.name, sort_order |-> n]
  BY DEF IsGroupRecord
<1> QED
  BY <1>1 DEF IsGroupRecord

Swapped(order, sorted, index, target) ==
  order = [sorted EXCEPT ![index] = sorted[target], ![target] = sorted[index]]

Renumbered(new, groups, order) ==
  new = [i \in DOMAIN groups |-> [groups[order[i]] EXCEPT !.sort_order = i - 1]]

\* move_group: two groups change places, and all are numbered anew.
LEMMA MovedGroup ==
  ASSUME NEW config, NEW sorted, NEW index, NEW target, NEW order, NEW groups, Usable(config),
         sorted \in Bijection(DOMAIN config.groups, DOMAIN config.groups),
         index \in DOMAIN config.groups, target \in DOMAIN config.groups,
         Swapped(order, sorted, index, target), Renumbered(groups, config.groups, order)
  PROVE  Usable([config EXCEPT !.groups = groups])
<1> DEFINE n == Len(config.groups)
           D == DOMAIN config.groups
<1>1. /\ IsDomainConfig(config) /\ IsVec(config.groups)
      /\ n <= MaxGroups /\ DistinctIds(config.groups)
      /\ \A i \in D : IsGroupRecord(config.groups[i])
  BY AcceptedMeans DEF Usable, IsDomainConfig, Sound
<1>2. n \in Nat /\ D = 1..n
  BY <1>1, VecIsSeq
<1>3. /\ sorted \in [D -> D] /\ \A i, j \in D : sorted[i] = sorted[j] => i = j
      /\ \A i \in D : \E k \in D : sorted[k] = i
  BY DEF Bijection, Injection, Surjection, IsInjective
<1> HIDE DEF n, D
<1>4. /\ order \in [D -> D]
      /\ \A i \in D : order[i] = IF i = target THEN sorted[index]
                                 ELSE IF i = index THEN sorted[target] ELSE sorted[i]
  BY <1>3 DEF D, Swapped
<1>5. \A i, j \in D : order[i] = order[j] => i = j
  BY <1>3, <1>4 DEF D
<1>6. \A i \in D : \E k \in D : order[k] = i
  <2> SUFFICES ASSUME NEW i \in D PROVE \E k \in D : order[k] = i
    OBVIOUS
  <2>1. PICK k \in D : sorted[k] = i
    BY <1>3
  <2>2. index \in D /\ target \in D
    BY DEF D
  <2> QED
    BY <1>4, <2>1, <2>2
<1>7. \A i \in D : /\ groups[i].id = config.groups[order[i]].id
                   /\ IsGroupRecord(groups[i])
  <2> SUFFICES ASSUME NEW i \in D
               PROVE  groups[i].id = config.groups[order[i]].id /\ IsGroupRecord(groups[i])
    OBVIOUS
  <2> DEFINE group == config.groups[order[i]]
  <2>1. IsGroupRecord(group)
    BY <1>1, <1>4
  <2>2. groups[i] = [group EXCEPT !.sort_order = i - 1]
    BY DEF D, Renumbered
  <2> QED
    BY <2>1, <2>2, RenumberedGroup
<1>8. IsVec(groups) /\ DOMAIN groups = D /\ Len(groups) = n /\ DistinctIds(groups)
  <2>1. order \in [1..n -> DOMAIN config.groups] /\ IsInjective(order)
    BY <1>2, <1>4, <1>5 DEF D, IsInjective
  <2>2. groups = [i \in 1..n |-> groups[i]]
    BY <1>2 DEF D, Renumbered
  <2>3. \A i \in 1..n : groups[i].id = config.groups[order[i]].id
    BY <1>2, <1>7
  <2>4. TakenFrom(config.groups, groups, n, order)
    BY <2>1, <2>2, <2>3 DEF TakenFrom
  <2> QED
    BY <1>1, <1>2, <2>4, TakenOnce
<1>9. Ids(config.groups) \subseteq Ids(groups)
  <2> SUFFICES ASSUME NEW i \in D PROVE config.groups[i].id \in Ids(groups)
    BY DEF Ids, D
  <2>1. PICK k \in D : order[k] = i
    BY <1>6
  <2> QED
    BY <1>7, <1>8, <2>1 DEF Ids
<1> QED
  BY <1>1, <1>7, <1>8, <1>9, MoreGroupsAreUsable

-----------------------------------------------------------------------------
(* The changes that are validated: what the editors collect has the type   *)
(* of a configuration, whatever is entered.                                *)

\* A set of natural numbers that is not empty has a least element.
LEMMA LeastNat ==
  ASSUME NEW S, S \subseteq Nat, S # {}
  PROVE  \E x \in S : \A y \in S : x <= y
<1>1. PICK x \in S : \A y \in S : ~(<<y, x>> \in OpToRel(<, Nat))
  BY NatLessThanWellFounded, WFMin
<1>2. \A y \in S : ~(y < x)
  BY <1>1 DEF OpToRel
<1> QED
  BY <1>2

LEMMA MinIsIn ==
  ASSUME NEW S, S \subseteq Nat, S # {}
  PROVE  Min(S) \in S
  BY LeastNat DEF Min

\* What is found is one of the records.
LEMMA FoundIsThere ==
  ASSUME NEW records, NEW id, IsVec(records), Find(records, id) # <<>>
  PROVE  \E i \in DOMAIN records : Find(records, id)[1] = records[i]
<1> DEFINE found == {i \in DOMAIN records : records[i].id = id}
<1>1. found \subseteq Nat /\ found # {}
  BY VecIsSeq DEF Find
<1>2. Min(found) \in found
  BY <1>1, MinIsIn
<1>3. Find(records, id) = <<records[Min(found)]>>
  BY <1>1 DEF Find
<1> QED
  BY <1>2, <1>3

\* Every record after an Upsert is the new one or was there before.
LEMMA UpsertedRecords ==
  ASSUME NEW records, NEW record, IsVec(records)
  PROVE  LET new == Upsert(records, record)
         IN /\ IsVec(new)
            /\ \A i \in DOMAIN new : new[i] = record \/ \E k \in DOMAIN records : new[i] = records[k]
<1> DEFINE new == Upsert(records, record)
<1>1. Len(records) \in Nat /\ DOMAIN records = 1..Len(records)
  BY VecIsSeq
<1>2. CASE record.id \in Ids(records)
  <2>1. new = [i \in DOMAIN records |-> IF records[i].id = record.id THEN record ELSE records[i]]
    BY <1>2 DEF Upsert, Map
  <2> HIDE DEF new
  <2>2. new = [i \in 1..Len(records) |-> new[i]]
    BY <1>1, <2>1
  <2>3. IsVec(new)
    BY <1>1, <2>2, VecOf
  <2>4. \A i \in DOMAIN new : new[i] = record \/ \E k \in DOMAIN records : new[i] = records[k]
    BY <2>1
  <2> QED
    BY <2>3, <2>4 DEF new
<1>3. CASE record.id \notin Ids(records)
  <2>1. new = Append(records, record)
    BY <1>3 DEF Upsert
  <2> HIDE DEF new
  <2>2. /\ IsVec(new) /\ DOMAIN new = 1..(Len(records) + 1)
        /\ \A i \in 1..Len(records) : new[i] = records[i]
        /\ new[Len(records) + 1] = record
    BY <2>1, VecAppend
  <2>3. \A i \in DOMAIN new : new[i] = record \/ \E k \in DOMAIN records : new[i] = records[k]
    BY <1>1, <2>2
  <2> QED
    BY <2>2, <2>3 DEF new
<1> QED
  BY <1>2, <1>3

\* save_editor, for a host: with or without a new password.
LEMMA SavedHost ==
  ASSUME NEW config, NEW form, NEW id, NEW old, IsDomainConfig(config)
  PROVE  IsDomainConfig([config EXCEPT !.hosts = Upsert(@, collect_host(form, id, old))])
<1> DEFINE host == collect_host(form, id, old)
           hosts == Upsert(config.hosts, host)
           new == [config EXCEPT !.hosts = hosts]
<1>1. IsSshHost(host)
  BY DEF collect_host, IsSshHost
<1> HIDE DEF host
<1>2. IsVec(hosts) /\ \A i \in DOMAIN hosts : IsSshHost(hosts[i])
  BY <1>1, UpsertedRecords DEF IsDomainConfig
<1> HIDE DEF hosts
<1>3. new = [app |-> config.app, hosts |-> hosts, groups |-> config.groups, tunnels |-> config.tunnels]
  BY DEF IsDomainConfig
<1> HIDE DEF new
<1>4. IsDomainConfig(new)
  BY <1>2, <1>3 DEF IsDomainConfig
<1> QED
  BY <1>4 DEF new, hosts, host

\* save_editor, for a tunnel: the policy is the old one or the default.
LEMMA SavedTunnel ==
  ASSUME NEW config, NEW form \in TunnelForms, NEW id, NEW chain, NEW group, IsOption(group),
         IsDomainConfig(config)
  PROVE  IsDomainConfig([config EXCEPT !.tunnels =
           Upsert(@, collect_tunnel(form, id, chain, group, Find(config.tunnels, id)))])
<1> DEFINE old == Find(config.tunnels, id)
           tunnel == collect_tunnel(form, id, chain, group, old)
           tunnels == Upsert(config.tunnels, tunnel)
           new == [config EXCEPT !.tunnels = tunnels]
<1>1. tunnel.reconnect \in ReconnectPolicy
  <2>1. CASE old = <<>>
    BY <2>1 DEF collect_tunnel, DefaultPolicy, ReconnectPolicy
  <2>2. CASE old # <<>>
    <3>1. PICK i \in DOMAIN config.tunnels : old[1] = config.tunnels[i]
      BY <2>2, FoundIsThere DEF IsDomainConfig
    <3>2. tunnel.reconnect = old[1].reconnect
      BY <2>2 DEF collect_tunnel
    <3> QED
      BY <3>1, <3>2 DEF IsDomainConfig, IsTunnelConfig
  <2> QED
    BY <2>1, <2>2
<1> HIDE DEF old
<1>2. /\ tunnel.group_id = group
      /\ tunnel.remote = IF form.mode = "Dynamic" THEN <<>> ELSE <<form.remote>>
      /\ tunnel = [id |-> tunnel.id, name |-> tunnel.name, group_id |-> tunnel.group_id,
                   mode |-> tunnel.mode, jump_chain |-> tunnel.jump_chain, local |-> tunnel.local,
                   remote |-> tunnel.remote, reconnect |-> tunnel.reconnect]
  BY DEF collect_tunnel
<1> HIDE DEF tunnel
<1>3. IsOption(tunnel.remote) /\ \A i \in DOMAIN tunnel.remote : IsEndpoint(tunnel.remote[i])
  <2>1. CASE form.mode = "Dynamic"
    BY <1>2, <2>1 DEF IsOption
  <2>2. CASE form.mode # "Dynamic"
    <3>1. tunnel.remote = <<form.remote>> /\ IsEndpoint(form.remote)
      BY <1>2, <2>2, TunnelFormsAssumption DEF IsEndpoint
    <3> QED
      BY <3>1 DEF IsOption
  <2> QED
    BY <2>1, <2>2
<1>4. IsTunnelConfig(tunnel)
  BY <1>1, <1>2, <1>3 DEF IsTunnelConfig
<1>5. IsVec(tunnels) /\ \A i \in DOMAIN tunnels : IsTunnelConfig(tunnels[i])
  BY <1>4, UpsertedRecords DEF IsDomainConfig
<1> HIDE DEF tunnels
<1>6. new = [app |-> config.app, hosts |-> config.hosts, groups |-> config.groups, tunnels |-> tunnels]
  BY DEF IsDomainConfig
<1> HIDE DEF new
<1>7. IsDomainConfig(new)
  BY <1>5, <1>6 DEF IsDomainConfig
<1> QED
  BY <1>7 DEF new, tunnels, tunnel, old

-----------------------------------------------------------------------------
(* Adding the selected hosts of an OpenSSH import.  AddSelected is defined *)
(* with a recursive function; that there is one comes first.               *)

IsSshImport(preview) == \A n \in DOMAIN preview.hosts : IsSshHost(preview.hosts[n])

\* The n-th host, when f has what the hosts before it made.
AddStep(f, hosts, preview, n) ==
  IF n = 0 THEN hosts
  ELSE IF n \in DOMAIN preview.hosts /\ preview.selected[n]
  THEN AddImported(f[n - 1], preview.hosts[n])
  ELSE f[n - 1]

Adds(f, hosts, preview, last) == f = [n \in 0..last |-> AddStep(f, hosts, preview, n)]

LEMMA AddSelectedIs ==
  ASSUME NEW hosts, NEW preview
  PROVE  AddSelected(hosts, preview) = (CHOOSE f : Adds(f, hosts, preview, MaxEntries))[MaxEntries]
  BY Zenon DEF AddSelected, Adds, AddStep

LEMMA AddsExist ==
  ASSUME NEW hosts, NEW preview, NEW last \in Nat
  PROVE  \E f : Adds(f, hosts, preview, last)
<1> DEFINE S == {m \in Nat : ~\E f : Adds(f, hosts, preview, m)}
<1> SUFFICES ASSUME S # {} PROVE FALSE
  OBVIOUS
<1>1. PICK m \in S : \A y \in S : m <= y
  BY LeastNat
<1>2. m \in Nat /\ ~\E f : Adds(f, hosts, preview, m)
  OBVIOUS
<1>3. CASE m = 0
  <2> DEFINE f == [n \in 0..0 |-> hosts]
  <2>1. f = [n \in 0..0 |-> AddStep(f, hosts, preview, n)]
    BY DEF AddStep
  <2> QED
    BY <1>2, <1>3, <2>1 DEF Adds
<1>4. CASE m # 0
  <2>1. m - 1 \in Nat /\ m - 1 \notin S
    BY <1>1, <1>2, <1>4
  <2>2. PICK f : Adds(f, hosts, preview, m - 1)
    BY <2>1
  <2> DEFINE g == [n \in 0..m |-> IF n = m THEN AddStep(f, hosts, preview, m) ELSE f[n]]
  <2>3. \A n \in 0..m : n # 0 => n - 1 \in 0..m /\ n - 1 # m /\ g[n - 1] = f[n - 1]
    BY <1>2
  <2>4. \A n \in 0..m : AddStep(g, hosts, preview, n) = AddStep(f, hosts, preview, n)
    <3> HIDE DEF g
    <3> TAKE n \in 0..m
    <3>1. CASE n = 0
      BY <3>1 DEF AddStep
    <3>2. CASE n # 0
      <4>1. g[n - 1] = f[n - 1]
        BY <2>3, <3>2
      <4> QED
        BY <4>1, Zenon DEF AddStep
    <3> QED
      BY <3>1, <3>2
  <2>5. \A n \in 0..m : n # m => n \in 0..(m - 1) /\ f[n] = AddStep(f, hosts, preview, n)
    <3>1. \A n \in 0..(m - 1) : f[n] = AddStep(f, hosts, preview, n)
      BY <2>2 DEF Adds
    <3> QED
      BY <1>2, <3>1
  <2>6. g = [n \in 0..m |-> AddStep(g, hosts, preview, n)]
    <3>1. \A n \in 0..m : g[n] = AddStep(g, hosts, preview, n)
      BY <2>4, <2>5
    <3>2. g = [n \in 0..m |-> g[n]]
      OBVIOUS
    <3> HIDE DEF g
    <3> QED
      BY <3>1, <3>2
  <2> QED
    BY <1>2, <2>6 DEF Adds
<1> QED
  BY <1>3, <1>4

\* What has been added so far: the hosts there were, and after them hosts with
\* ids and names of their own.
Merged(merged, hosts) ==
  /\ IsVec(merged) /\ Len(hosts) <= Len(merged)
  /\ \A i \in 1..Len(hosts) : merged[i] = hosts[i]
  /\ \A i \in DOMAIN merged : IsSshHost(merged[i])
  /\ \A i, j \in DOMAIN merged : merged[i].id = merged[j].id => i = j
  /\ \A i \in (Len(hosts) + 1)..Len(merged) :
       \A j \in DOMAIN merged : merged[j].name = merged[i].name => i = j

LEMMA AddedHost ==
  ASSUME NEW merged, NEW hosts, NEW host, IsVec(hosts), Merged(merged, hosts), IsSshHost(host),
         \A i \in DOMAIN merged : merged[i].id # host.id /\ merged[i].name # host.name
  PROVE  Merged(Append(merged, host), hosts)
<1> DEFINE new == Append(merged, host)
           n == Len(merged)
           m == Len(hosts)
<1>1. /\ IsVec(new) /\ Len(new) = n + 1 /\ DOMAIN new = 1..(n + 1)
      /\ \A i \in 1..n : new[i] = merged[i]
      /\ new[n + 1] = host
      /\ n \in Nat /\ DOMAIN merged = 1..n /\ m \in Nat /\ m <= n
  BY VecAppend, VecIsSeq DEF Merged
<1> HIDE DEF new, n
<1>2. m <= Len(new) /\ \A i \in 1..m : new[i] = hosts[i]
  BY <1>1 DEF Merged, n
<1>3. ASSUME NEW i \in DOMAIN new
      PROVE  \/ i \in DOMAIN merged /\ new[i] = merged[i]
             \/ i = n + 1 /\ new[i] = host
  <2>1. i \in 1..n \/ i = n + 1
    BY <1>1
  <2>2. CASE i \in 1..n
    <3>1. DOMAIN merged = 1..n /\ \A k \in 1..n : new[k] = merged[k]
      BY <1>1
    <3> QED
      BY <2>2, <3>1
  <2>3. CASE i = n + 1
    BY <1>1, <2>3
  <2> QED
    BY <2>1, <2>2, <2>3
<1>4. \A i \in DOMAIN new : IsSshHost(new[i])
  BY <1>3 DEF Merged
<1>5. \A i, j \in DOMAIN new : new[i].id = new[j].id => i = j
  BY <1>3 DEF Merged
<1>6. ASSUME NEW i \in (m + 1)..Len(new), NEW j \in DOMAIN new, new[j].name = new[i].name
      PROVE  i = j
  <2>1. CASE i = n + 1
    BY <1>1, <1>3, <1>6, <2>1
  <2>2. CASE i # n + 1
    <3>1. i \in (m + 1)..n /\ i \in DOMAIN merged /\ new[i] = merged[i]
      BY <1>1, <2>2
    <3>2. j \in DOMAIN merged /\ new[j] = merged[j]
      BY <1>3, <1>6, <3>1
    <3> QED
      BY <1>6, <3>1, <3>2 DEF Merged, n
  <2> QED
    BY <2>1, <2>2
<1>7. Merged(new, hosts)
  BY <1>1, <1>2, <1>4, <1>5, <1>6 DEF Merged
<1> QED
  BY <1>7 DEF new

\* A renamed host has the id and the name that were free.
Renamed(new, host, id, name) == new = [host EXCEPT !.id = id, !.name = name]

LEMMA RenamedHost ==
  ASSUME NEW host, NEW id, NEW name, NEW new, IsSshHost(host), Renamed(new, host, id, name)
  PROVE  IsSshHost(new) /\ new.id = id /\ new.name = name
<1> DEFINE mid == [host EXCEPT !.id = id]
<1>1. new = [mid EXCEPT !.name = name]
  BY Zenon DEF Renamed
<1>2. mid = [id |-> id, name |-> host.name, hostname |-> host.hostname, port |-> host.port,
             username |-> host.username, auth |-> host.auth,
             connect_timeout |-> host.connect_timeout, keepalive_max |-> host.keepalive_max]
  BY DEF IsSshHost
<1> HIDE DEF mid
<1>3. new = [id |-> id, name |-> name, hostname |-> host.hostname, port |-> host.port,
             username |-> host.username, auth |-> host.auth,
             connect_timeout |-> host.connect_timeout, keepalive_max |-> host.keepalive_max]
  BY <1>1, <1>2
<1> QED
  BY <1>3 DEF IsSshHost

\* One host is added, as it is or renamed, or none.
LEMMA ImportedHost ==
  ASSUME NEW merged, NEW hosts, NEW host, IsVec(hosts), Merged(merged, hosts), IsSshHost(host)
  PROVE  Merged(AddImported(merged, host), hosts)
<1> DEFINE free == FreeSuffixes(merged, host)
<1>1. CASE ~Collides(merged, host)
  <2>1. AddImported(merged, host) = Append(merged, host)
    BY <1>1 DEF AddImported
  <2>2. \A i \in DOMAIN merged : merged[i].id # host.id /\ merged[i].name # host.name
    BY <1>1 DEF Collides
  <2> QED
    BY <2>1, <2>2, AddedHost
<1>2. CASE Collides(merged, host) /\ free # {}
  <2> DEFINE n == Min(free)
             id == host.id \o <<n>>
             name == host.name \o <<"(", n, ")">>
             new == [host EXCEPT !.id = id, !.name = name]
  <2>1. free \subseteq Nat
    BY MaxSuffixAssumption DEF FreeSuffixes
  <2>2. n \in free
    BY <1>2, <2>1, MinIsIn
  <2>3. \A i \in DOMAIN merged : merged[i].id # id /\ merged[i].name # name
    BY <2>2 DEF FreeSuffixes
  <2>4. AddImported(merged, host) = Append(merged, new)
    BY <1>2, Zenon DEF AddImported
  <2> HIDE DEF id, name
  <2>5. Renamed(new, host, id, name)
    BY DEF Renamed
  <2> HIDE DEF new
  <2>6. IsSshHost(new) /\ new.id = id /\ new.name = name
    BY <2>5, RenamedHost
  <2> QED
    BY <2>3, <2>4, <2>6, AddedHost
<1>3. CASE Collides(merged, host) /\ free = {}
  BY <1>3 DEF AddImported
<1> QED
  BY <1>1, <1>2, <1>3

\* After all of them.
LEMMA AllAdded ==
  ASSUME NEW hosts, NEW preview, IsVec(hosts), DistinctIds(hosts),
         \A i \in DOMAIN hosts : IsSshHost(hosts[i]), IsSshImport(preview)
  PROVE  Merged(AddSelected(hosts, preview), hosts)
<1>1. PICK f : Adds(f, hosts, preview, MaxEntries) /\ AddSelected(hosts, preview) = f[MaxEntries]
  <2> DEFINE g == CHOOSE f : Adds(f, hosts, preview, MaxEntries)
  <2>1. Adds(g, hosts, preview, MaxEntries)
    BY AddsExist, MaxEntriesAssumption
  <2> QED
    BY <2>1, AddSelectedIs
<1>2. \A n \in 0..MaxEntries : f[n] = AddStep(f, hosts, preview, n)
  BY <1>1 DEF Adds
<1> DEFINE S == {n \in 0..MaxEntries : ~Merged(f[n], hosts)}
<1>3. Merged(hosts, hosts)
  <2>1. \A i, j \in DOMAIN hosts : hosts[i].id = hosts[j].id => i = j
    BY DistinctMeans
  <2>2. Len(hosts) \in Nat
    BY VecIsSeq
  <2> QED
    BY <2>1, <2>2 DEF Merged
<1>4. S = {}
  <2> SUFFICES ASSUME S # {} PROVE FALSE
    OBVIOUS
  <2>1. S \subseteq Nat
    BY MaxEntriesAssumption
  <2>2. PICK m \in S : \A y \in S : m <= y
    BY <2>1, LeastNat
  <2>3. m \in 0..MaxEntries /\ ~Merged(f[m], hosts) /\ f[m] = AddStep(f, hosts, preview, m)
    BY <1>2
  <2>4. m # 0
    BY <1>3, <2>3 DEF AddStep
  <2>5. m - 1 \in 0..MaxEntries /\ Merged(f[m - 1], hosts)
    BY <2>2, <2>3, <2>4, MaxEntriesAssumption
  <2>6. CASE m \in DOMAIN preview.hosts /\ preview.selected[m]
    <3>1. f[m] = AddImported(f[m - 1], preview.hosts[m]) /\ IsSshHost(preview.hosts[m])
      BY <2>3, <2>4, <2>6 DEF AddStep, IsSshImport
    <3> QED
      BY <2>3, <2>5, <3>1, ImportedHost
  <2>7. CASE ~(m \in DOMAIN preview.hosts /\ preview.selected[m])
    BY <2>3, <2>4, <2>5, <2>7 DEF AddStep
  <2> QED
    BY <2>6, <2>7
<1>5. Merged(f[MaxEntries], hosts)
  BY <1>4, MaxEntriesAssumption
<1> QED
  BY <1>1, <1>5

\* That is what PreviewIsFaithful says of it.
LEMMA MergedOnlyAdds ==
  ASSUME NEW merged, NEW hosts, IsVec(hosts), Merged(merged, hosts)
  PROVE  OnlyAdds(merged, hosts)
<1>1. /\ IsVec(merged) /\ Len(merged) \in Nat /\ DOMAIN merged = 1..Len(merged)
      /\ Len(hosts) \in Nat /\ Len(hosts) <= Len(merged) /\ hosts = [i \in 1..Len(hosts) |-> hosts[i]]
      /\ \A i \in 1..Len(hosts) : merged[i] = hosts[i]
  BY VecIsSeq DEF Merged, IsVec
<1>2. SubSeq(merged, 1, Len(hosts)) = hosts
  <2> DEFINE S == {merged[i] : i \in 1..Len(merged)}
  <2>1. merged \in Seq(S)
    BY <1>1, VecIsSeq
  <2> HIDE DEF S
  <2>2. SubSeq(merged, 1, Len(hosts)) = [i \in 1..Len(hosts) |-> merged[i]]
    BY <1>1, <2>1
  <2> QED
    BY <1>1, <2>2
<1>3. DistinctIds(merged)
  BY <1>1, DistinctMeans DEF Merged
<1>4. \A n \in (Len(hosts) + 1)..Len(merged) :
        \A k \in DOMAIN merged \ {n} : merged[k].name # merged[n].name
  BY DEF Merged
<1> QED
  BY <1>2, <1>3, <1>4 DEF OnlyAdds

\* The hosts of a preview, whatever the files say.
LEMMA PreviewedHost ==
  ASSUME NEW alias, NEW values
  PROVE  IsSshHost(ssh_host(alias, values))
  BY DEF ssh_host, IsSshHost

\* confirm_ssh_import: the hosts have the type of hosts.
LEMMA ImportedHosts ==
  ASSUME NEW config, NEW preview, Usable(config), IsSshImport(preview)
  PROVE  IsDomainConfig([config EXCEPT !.hosts = AddSelected(@, preview)])
<1> DEFINE hosts == AddSelected(config.hosts, preview)
           new == [config EXCEPT !.hosts = hosts]
<1>1. IsDomainConfig(config) /\ DistinctIds(config.hosts) /\ IsVec(config.hosts)
  BY AcceptedMeans DEF Usable, Sound, IsDomainConfig
<1>2. Merged(hosts, config.hosts)
  BY <1>1, AllAdded DEF IsDomainConfig
<1>3. IsVec(hosts) /\ \A i \in DOMAIN hosts : IsSshHost(hosts[i])
  BY <1>2 DEF Merged
<1> HIDE DEF hosts
<1>4. new = [app |-> config.app, hosts |-> hosts, groups |-> config.groups, tunnels |-> config.tunnels]
  BY <1>1 DEF IsDomainConfig
<1> HIDE DEF new
<1>5. IsDomainConfig(new)
  BY <1>1, <1>3, <1>4 DEF IsDomainConfig
<1> QED
  BY <1>5 DEF new, hosts

-----------------------------------------------------------------------------
(* The inductive invariants.                                               *)

\* A request the window waits for is the last one, and carries what the window
\* took with it; and there is only that one unless the window was overtaken.
\* The answer comes when all requests are dealt with.
RequestsInv ==
  /\ IsVec(requests)
  /\ \A i \in DOMAIN requests :
       /\ requests[i] = [config |-> requests[i].config, mine |-> requests[i].mine]
       /\ requests[i].mine \in BOOLEAN
       /\ requests[i].mine =>
            /\ i = Len(requests) /\ window = "open" /\ saving /\ answer = "none"
            /\ candidate = <<requests[i].config>>
       /\ window = "open" /\ ~overtaken => requests[i].mine

AnswerInv ==
  /\ window \in {"open", "closed"} /\ saving \in BOOLEAN /\ overtaken \in BOOLEAN
  /\ answer \in {"none", "Ok", "Err"}
  /\ answer # "none" => window = "open" /\ saving /\ requests = <<>>
  /\ answer = "Ok" => candidate = <<running>>

ViewInv == RequestsInv /\ AnswerInv /\ ViewIsCurrent

\* What may be sent: see SavedIsUsable.
Sendable(config) ==
  /\ IsDomainConfig(config)
  /\ \/ Accepted(config)
     \/ /\ Len(config.groups) = MaxGroups + 1
        /\ Accepted([config EXCEPT !.groups = SubSeq(@, 1, MaxGroups)])

\* Every configuration there is, is usable.
StoredInv ==
  /\ Usable(startup) /\ Usable(running)
  /\ IsConfigDocument(file) /\ Loads(file)
  /\ into_domain(file) = Expanded(Stored)

PreviewInv ==
  /\ import_preview # <<>> => Usable(import_preview[1])
  /\ ssh_preview # <<>> =>
       LET preview == ssh_preview[1]
       IN /\ ssh_preview = <<preview>>
          /\ preview = [source |-> preview.source, hosts |-> preview.hosts, selected |-> preview.selected]
          /\ IsSshImport(preview)

SentInv == \A i \in DOMAIN requests : Sendable(requests[i].config)

UsableInv == StoredInv /\ PreviewInv /\ SentInv

WorkspaceInv == ViewInv /\ UsableInv

LEMMA InitWorkspaceInv == WorkspaceInit => WorkspaceInv
<1> SUFFICES ASSUME WorkspaceInit PROVE WorkspaceInv
  OBVIOUS
<1>1. /\ window = "open" /\ saving = FALSE /\ overtaken = FALSE /\ answer = "none"
      /\ requests = <<>> /\ startup = running
      /\ import_preview = <<>> /\ ssh_preview = <<>>
      /\ file = InitialDocument /\ running = into_domain(InitialDocument) /\ unreported = <<>>
  BY DEF WorkspaceInit
<1>2. RequestsInv
  BY <1>1, VecSmall DEF RequestsInv
<1>3. AnswerInv /\ ViewIsCurrent
  BY <1>1 DEF AnswerInv, ViewIsCurrent
<1>4. StoredInv
  <2>1. Usable(into_domain(InitialDocument)) /\ Expanded(into_domain(InitialDocument)) = into_domain(InitialDocument)
    BY InitialDocumentAssumption, LoadedIsUsable
  <2> QED
    BY <1>1, <2>1, InitialDocumentAssumption DEF StoredInv, Stored
<1>5. PreviewInv
  BY <1>1 DEF PreviewInv
<1>6. SentInv
  BY <1>1, VecSmall DEF SentInv
<1> QED
  BY <1>2, <1>3, <1>4, <1>5, <1>6 DEF WorkspaceInv, ViewInv, UsableInv

-----------------------------------------------------------------------------
(* Steps that send nothing.                                                *)

configVars == <<window, startup, saving, candidate, answer, overtaken, requests, running, file, unreported>>

\* Nothing but editors, pickers and previews changes.
LEMMA QuietStep ==
  ASSUME WorkspaceInv, UNCHANGED configVars, PreviewInv'
  PROVE  WorkspaceInv'
<1>1. RequestsInv'
  BY DEF WorkspaceInv, ViewInv, RequestsInv, configVars
<1>2. AnswerInv' /\ ViewIsCurrent'
  BY DEF WorkspaceInv, ViewInv, AnswerInv, ViewIsCurrent, configVars
<1>3. StoredInv'
  BY DEF WorkspaceInv, UsableInv, StoredInv, Stored, configVars
<1>4. SentInv'
  BY DEF WorkspaceInv, UsableInv, SentInv, configVars
<1> QED
  BY <1>1, <1>2, <1>3, <1>4 DEF WorkspaceInv, ViewInv, UsableInv

LEMMA SamePreviews ==
  ASSUME PreviewInv, UNCHANGED <<import_preview, ssh_preview>>
  PROVE  PreviewInv'
  BY DEF PreviewInv

\* The editors are opened and closed.
LEMMA EditorStep ==
  ASSUME WorkspaceInv,
         \/ \E kind : NewEditor(kind)
         \/ \E kind, id : OpenEditor(kind, id)
         \/ CloseEditor
  PROVE  WorkspaceInv'
<1>1. UNCHANGED configVars /\ UNCHANGED <<import_preview, ssh_preview>>
  BY DEF NewEditor, OpenEditor, CloseEditor, configVars, previewVars, managerVars
<1>2. PreviewInv'
  BY <1>1, SamePreviews DEF WorkspaceInv, UsableInv
<1> QED
  BY <1>1, <1>2, QuietStep

\* The pickers.
LEMMA PickerStep ==
  ASSUME WorkspaceInv, (\E kind : ChooseFile(kind)) \/ FileTaskEnds
  PROVE  WorkspaceInv'
<1>1. UNCHANGED configVars /\ UNCHANGED <<import_preview, ssh_preview>>
  BY DEF ChooseFile, FileTaskEnds, configVars, windowVars, managerVars
<1>2. PreviewInv'
  BY <1>1, SamePreviews DEF WorkspaceInv, UsableInv
<1> QED
  BY <1>1, <1>2, QuietStep

\* The answer to ImportConfig.
LEMMA ImportArrivesStep ==
  ASSUME WorkspaceInv, NEW document \in ImportDocuments, ImportArrives(document)
  PROVE  WorkspaceInv'
<1>1. UNCHANGED configVars /\ ssh_preview' = ssh_preview /\ import_preview' = <<into_domain(document)>>
  BY DEF ImportArrives, configVars, windowVars, managerVars
<1>2. Usable(into_domain(document))
  BY ImportDocumentsAssumption, LoadedIsUsable DEF ImportArrives
<1>3. PreviewInv'
  BY <1>1, <1>2 DEF PreviewInv, WorkspaceInv, UsableInv
<1> QED
  BY <1>1, <1>3, QuietStep

\* A preview of an OpenSSH configuration.
LEMMA SshPreviewArrivesStep ==
  ASSUME WorkspaceInv, NEW fs, SshPreviewArrives(fs)
  PROVE  WorkspaceInv'
<1> DEFINE hosts == preview_ssh_config(fs, "config")
<1>1. UNCHANGED configVars /\ import_preview' = <<>>
  BY DEF SshPreviewArrives, configVars, windowVars, managerVars
<1>2. PICK selected : ssh_preview' = <<[source |-> fs, hosts |-> hosts, selected |-> selected]>>
  BY Zenon DEF SshPreviewArrives
<1>3. \A n \in DOMAIN hosts : IsSshHost(hosts[n])
  BY PreviewedHost DEF preview_ssh_config
<1> HIDE DEF hosts
<1>4. PreviewInv'
  BY <1>1, <1>2, <1>3 DEF PreviewInv, IsSshImport
<1> QED
  BY <1>1, <1>4, QuietStep

\* A host of the preview is selected or not.
LEMMA ToggleSelectedStep ==
  ASSUME WorkspaceInv, NEW n, ToggleSelected(n)
  PROVE  WorkspaceInv'
<1> DEFINE preview == ssh_preview[1]
           new == [preview EXCEPT !.selected = [@ EXCEPT ![n] = ~preview.selected[n]]]
<1>1. UNCHANGED configVars /\ import_preview' = import_preview
  BY DEF ToggleSelected, configVars, windowVars, managerVars
<1>2. /\ ssh_preview = <<preview>> /\ IsSshImport(preview)
      /\ preview = [source |-> preview.source, hosts |-> preview.hosts, selected |-> preview.selected]
  BY DEF ToggleSelected, WorkspaceInv, UsableInv, PreviewInv
<1>3. ssh_preview' = [ssh_preview EXCEPT ![1] = new]
  BY Zenon DEF ToggleSelected
<1>4. new = [source |-> new.source, hosts |-> new.hosts, selected |-> new.selected] /\ new.hosts = preview.hosts
  BY <1>2
<1> HIDE DEF preview, new
<1>5. ssh_preview' = <<new>>
  BY <1>2, <1>3
<1>6. IsSshImport(new)
  BY <1>2, <1>4 DEF IsSshImport
<1>7. PreviewInv'
  BY <1>1, <1>4, <1>5, <1>6 DEF PreviewInv, WorkspaceInv, UsableInv
<1> QED
  BY <1>1, <1>7, QuietStep

LEMMA CancelPreviewStep ==
  ASSUME WorkspaceInv, CancelPreview
  PROVE  WorkspaceInv'
<1>1. /\ UNCHANGED configVars
      /\ import_preview' = import_preview \/ import_preview' = <<>>
      /\ ssh_preview' = ssh_preview \/ ssh_preview' = <<>>
  BY DEF CancelPreview, configVars, windowVars, managerVars
<1>2. PreviewInv'
  BY <1>1 DEF PreviewInv, WorkspaceInv, UsableInv
<1> QED
  BY <1>1, <1>2, QuietStep

-----------------------------------------------------------------------------
(* Steps that send a configuration.                                        *)

\* persist_config, called with what may be sent while no save is under way.
Sends(config) ==
  /\ Idle /\ Sendable(config) /\ persist_config(config)
  /\ UNCHANGED <<import_preview, ssh_preview>>

LEMMA UsableIsSendable ==
  ASSUME NEW config, Usable(config)
  PROVE  Sendable(config)
  BY DEF Usable, Sendable

LEMMA SendingStep ==
  ASSUME WorkspaceInv, NEW config, Sends(config)
  PROVE  WorkspaceInv'
<1> DEFINE request == [config |-> config, mine |-> TRUE]
<1>1. /\ window = "open" /\ saving = FALSE /\ Sendable(config)
      /\ requests' = Append(requests, request) /\ saving' = TRUE /\ candidate' = <<config>>
      /\ UNCHANGED <<window, startup, answer, overtaken, running, file, unreported, import_preview, ssh_preview>>
  BY DEF Sends, Idle, persist_config, WorkspaceInv, ViewInv, AnswerInv
<1>2. RequestsInv /\ AnswerInv /\ ViewIsCurrent /\ StoredInv /\ PreviewInv /\ SentInv
  BY DEF WorkspaceInv, ViewInv, UsableInv
<1>3. IsVec(requests)
  BY <1>2 DEF RequestsInv
<1>4. /\ IsVec(requests') /\ Len(requests') = Len(requests) + 1
      /\ DOMAIN requests' = 1..(Len(requests) + 1)
      /\ \A i \in 1..Len(requests) : requests'[i] = requests[i]
      /\ requests'[Len(requests) + 1] = request
  BY <1>1, <1>3, VecAppend
<1>5. Len(requests) \in Nat /\ DOMAIN requests = 1..Len(requests)
  BY <1>3, VecIsSeq
<1>6. \A i \in DOMAIN requests' :
        \/ i = Len(requests') /\ requests'[i] = request
        \/ i \in DOMAIN requests /\ requests'[i] = requests[i]
  BY <1>4, <1>5
<1>7. answer = "none"
  BY <1>1, <1>2 DEF AnswerInv
<1>8. \A i \in DOMAIN requests : ~requests[i].mine
  BY <1>1, <1>2 DEF RequestsInv
<1>9. RequestsInv'
  <2> SUFFICES ASSUME NEW i \in DOMAIN requests'
               PROVE  /\ requests'[i] = [config |-> requests'[i].config, mine |-> requests'[i].mine]
                      /\ requests'[i].mine \in BOOLEAN
                      /\ requests'[i].mine =>
                           /\ i = Len(requests') /\ window' = "open" /\ saving' /\ answer' = "none"
                           /\ candidate' = <<requests'[i].config>>
                      /\ window' = "open" /\ ~overtaken' => requests'[i].mine
    BY <1>4 DEF RequestsInv
  <2>1. CASE i = Len(requests') /\ requests'[i] = request
    <3>1. requests'[i].config = config /\ requests'[i].mine = TRUE
      BY <2>1
    <3>2. requests'[i] = [config |-> requests'[i].config, mine |-> requests'[i].mine]
      BY <2>1, <3>1, Zenon
    <3>3. window' = "open" /\ saving' /\ answer' = "none" /\ candidate' = <<requests'[i].config>>
      BY <1>1, <1>7, <3>1
    <3> QED
      BY <2>1, <3>1, <3>2, <3>3, Zenon
  <2>2. CASE i \in DOMAIN requests /\ requests'[i] = requests[i]
    BY <1>1, <1>2, <1>8, <2>2 DEF RequestsInv
  <2> QED
    BY <1>6, <2>1, <2>2
<1>10. AnswerInv'
  BY <1>1, <1>2, <1>7 DEF AnswerInv
<1>11. ViewIsCurrent'
  BY <1>1, <1>2, <1>7 DEF ViewIsCurrent
<1>12. StoredInv'
  BY <1>1, <1>2 DEF StoredInv, Stored
<1>13. PreviewInv'
  BY <1>1, <1>2, SamePreviews
<1>14. SentInv'
  BY <1>1, <1>2, <1>6 DEF SentInv
<1> QED
  BY <1>9, <1>10, <1>11, <1>12, <1>13, <1>14 DEF WorkspaceInv, ViewInv, UsableInv

LEMMA SaveHostStep ==
  ASSUME WorkspaceInv, NEW form \in HostForms, SaveHost(form)
  PROVE  WorkspaceInv'
<1> DEFINE old == Find(startup.hosts, editor[1].id)
           config == [startup EXCEPT !.hosts = Upsert(@, collect_host(form, editor[1].id, old))]
<1>1. Idle /\ Accepted(config) /\ persist_config(config) /\ UNCHANGED <<import_preview, ssh_preview>>
  BY DEF SaveHost, previewVars
<1>2. IsDomainConfig(config)
  BY SavedHost DEF WorkspaceInv, UsableInv, StoredInv, Usable
<1> HIDE DEF config
<1>3. Sends(config)
  BY <1>1, <1>2 DEF Sends, Sendable
<1> QED
  BY <1>3, SendingStep

LEMMA SaveTunnelStep ==
  ASSUME WorkspaceInv, NEW form \in TunnelForms, SaveTunnel(form)
  PROVE  WorkspaceInv'
<1> DEFINE id == editor[1].id
           saved(chain, group) ==
             [startup EXCEPT !.tunnels =
                Upsert(@, collect_tunnel(form, id, chain, group, Find(startup.tunnels, id)))]
<1>1. PICK chain, group : /\ group \in {<<>>} \cup {<<g>> : g \in Ids(startup.groups)}
                          /\ Accepted(saved(chain, group)) /\ persist_config(saved(chain, group))
  BY Zenon DEF SaveTunnel
<1> DEFINE config == saved(chain, group)
<1>2. Idle /\ UNCHANGED <<import_preview, ssh_preview>>
  BY DEF SaveTunnel, previewVars
<1>3. IsOption(group)
  BY <1>1 DEF IsOption
<1>4. IsDomainConfig(startup)
  BY DEF WorkspaceInv, UsableInv, StoredInv, Usable
<1>5. IsDomainConfig(config)
  BY <1>3, <1>4, SavedTunnel
<1>6. Accepted(config) /\ persist_config(config)
  BY <1>1
<1> HIDE DEF config
<1>7. Sends(config)
  BY <1>2, <1>5, <1>6 DEF Sends, Sendable
<1> QED
  BY <1>7, SendingStep

LEMMA SaveGroupStep ==
  ASSUME WorkspaceInv, NEW name \in GroupNames, SaveGroup(name)
  PROVE  WorkspaceInv'
<1> DEFINE saved(group) == [startup EXCEPT !.groups = Upsert(@, group)]
<1>1. PICK order : persist_config(saved([id |-> editor[1].id, name |-> name, sort_order |-> order]))
  BY Zenon DEF SaveGroup
<1> DEFINE group == [id |-> editor[1].id, name |-> name, sort_order |-> order]
           config == saved(group)
<1>2. Idle /\ UNCHANGED <<import_preview, ssh_preview>>
  BY DEF SaveGroup, previewVars
<1>3. IsGroupRecord(group)
  BY DEF IsGroupRecord
<1>4. Usable(startup)
  BY DEF WorkspaceInv, UsableInv, StoredInv
<1>5. Sendable(config)
  BY <1>3, <1>4, SavedGroup DEF Sendable
<1>6. persist_config(config)
  BY <1>1
<1> HIDE DEF config
<1>7. Sends(config)
  BY <1>2, <1>5, <1>6 DEF Sends
<1> QED
  BY <1>7, SendingStep

LEMMA DeleteGroupStep ==
  ASSUME WorkspaceInv, NEW id, DeleteGroup(id)
  PROVE  WorkspaceInv'
<1> DEFINE kept == {i \in DOMAIN startup.groups : startup.groups[i].id # id}
           groups(place) == [i \in DOMAIN place |-> startup.groups[place[i]]]
           tunnels == [i \in DOMAIN startup.tunnels |-> ungroup(startup.tunnels[i], id)]
           deleted(place) == [startup EXCEPT !.groups = groups(place), !.tunnels = tunnels]
<1>1. Usable(startup) /\ IsDomainConfig(startup)
  BY DEF WorkspaceInv, UsableInv, StoredInv, Usable
<1>2. PICK place \in Bijection(1..Cardinality(kept), kept) :
        persist_config([startup EXCEPT !.groups = groups(place),
                          !.tunnels = Map(@, LAMBDA tunnel : ungroup(tunnel, id))])
  BY Zenon DEF DeleteGroup
<1>3. [startup EXCEPT !.groups = groups(place), !.tunnels = Map(@, LAMBDA tunnel : ungroup(tunnel, id))]
        = deleted(place)
  <2> DEFINE mid == [startup EXCEPT !.groups = groups(place)]
  <2>1. mid.tunnels = startup.tunnels
    BY <1>1 DEF IsDomainConfig
  <2> HIDE DEF mid
  <2>2. [mid EXCEPT !.tunnels = Map(mid.tunnels, LAMBDA tunnel : ungroup(tunnel, id))]
          = [mid EXCEPT !.tunnels = tunnels]
    BY <2>1 DEF Map
  <2> QED
    BY <2>2, Zenon DEF mid
<1> DEFINE config == deleted(place)
<1>4. Idle /\ UNCHANGED <<import_preview, ssh_preview>>
  BY DEF DeleteGroup, Shown, previewVars
<1>5. Usable(config)
  BY <1>1, <1>2, DeletedGroup
<1>6. persist_config(config)
  BY <1>2, <1>3
<1> HIDE DEF config
<1>7. Sends(config)
  BY <1>4, <1>5, <1>6, UsableIsSendable DEF Sends
<1> QED
  BY <1>7, SendingStep

LEMMA MoveGroupStep ==
  ASSUME WorkspaceInv, NEW id, NEW direction, MoveGroup(id, direction)
  PROVE  WorkspaceInv'
<1> DEFINE D == DOMAIN startup.groups
           order(sorted, index) ==
             [sorted EXCEPT ![index] = sorted[index + direction], ![index + direction] = sorted[index]]
           groups(sorted, index) ==
             [i \in D |-> [startup.groups[order(sorted, index)[i]] EXCEPT !.sort_order = i - 1]]
           moved(sorted, index) == [startup EXCEPT !.groups = groups(sorted, index)]
<1>1. PICK sorted \in Bijection(D, D), index \in D :
        index + direction \in D /\ persist_config(moved(sorted, index))
  BY Zenon DEF MoveGroup
<1> DEFINE config == moved(sorted, index)
<1>2. Idle /\ UNCHANGED <<import_preview, ssh_preview>>
  BY DEF MoveGroup, Shown, previewVars
<1>3. Usable(startup)
  BY DEF WorkspaceInv, UsableInv, StoredInv
<1>4. Usable(config)
  <2> DEFINE target == index + direction
             places == order(sorted, index)
             new == groups(sorted, index)
  <2>1. /\ sorted \in Bijection(DOMAIN startup.groups, DOMAIN startup.groups)
        /\ index \in DOMAIN startup.groups /\ target \in DOMAIN startup.groups
    BY <1>1
  <2>2. Swapped(places, sorted, index, target)
    BY DEF Swapped
  <2>3. Renumbered(new, startup.groups, places)
    BY DEF Renumbered
  <2>4. config = [startup EXCEPT !.groups = new]
    OBVIOUS
  <2> HIDE DEF target, places, new, config
  <2>5. Usable([startup EXCEPT !.groups = new])
    BY <1>3, <2>1, <2>2, <2>3, MovedGroup
  <2> QED
    BY <2>4, <2>5
<1>5. persist_config(config)
  BY <1>1
<1> HIDE DEF config
<1>6. Sends(config)
  BY <1>2, <1>4, <1>5, UsableIsSendable DEF Sends
<1> QED
  BY <1>6, SendingStep

LEMMA ToggleSettingStep ==
  ASSUME WorkspaceInv, NEW setting, ToggleSetting(setting)
  PROVE  WorkspaceInv'
<1> DEFINE app == [startup.app EXCEPT ![setting] = ~startup.app[setting]]
           config == [startup EXCEPT !.app = app]
<1>1. persist_config(config)
  BY Zenon DEF ToggleSetting
<1>2. Idle /\ UNCHANGED <<import_preview, ssh_preview>>
  BY DEF ToggleSetting, Shown, previewVars
<1>3. Usable(config)
  BY ToggledIsUsable DEF WorkspaceInv, UsableInv, StoredInv
<1> HIDE DEF config
<1>4. Sends(config)
  BY <1>1, <1>2, <1>3, UsableIsSendable DEF Sends
<1> QED
  BY <1>4, SendingStep

LEMMA ConfirmImportStep ==
  ASSUME WorkspaceInv, ConfirmImport
  PROVE  WorkspaceInv'
<1>1. Idle /\ persist_config(import_preview[1]) /\ UNCHANGED <<import_preview, ssh_preview>>
  BY DEF ConfirmImport, Shown, previewVars
<1>2. Usable(import_preview[1])
  BY DEF ConfirmImport, WorkspaceInv, UsableInv, PreviewInv
<1>3. Sends(import_preview[1])
  BY <1>1, <1>2, UsableIsSendable DEF Sends
<1> QED
  BY <1>3, SendingStep

LEMMA ConfirmSshImportStep ==
  ASSUME WorkspaceInv, ConfirmSshImport
  PROVE  WorkspaceInv'
<1> DEFINE preview == ssh_preview[1]
           config == [startup EXCEPT !.hosts = AddSelected(@, preview)]
<1>1. Accepted(config) /\ persist_config(config)
  BY Zenon DEF ConfirmSshImport
<1>2. Idle /\ UNCHANGED <<import_preview, ssh_preview>>
  BY DEF ConfirmSshImport, Shown, previewVars
<1>3. Usable(startup) /\ IsSshImport(preview)
  BY DEF ConfirmSshImport, WorkspaceInv, UsableInv, StoredInv, PreviewInv
<1>4. IsDomainConfig(config)
  BY <1>3, ImportedHosts
<1> HIDE DEF config
<1>5. Sends(config)
  BY <1>1, <1>2, <1>4 DEF Sends, Sendable
<1> QED
  BY <1>5, SendingStep

-----------------------------------------------------------------------------
(* The manager, and the arrival of its answer.                             *)

\* The first request is done with: what the others are is kept, and the window
\* is answered if it waits for this one, which then was the only one.
LEMMA RequestDone ==
  ASSUME WorkspaceInv, requests # <<>>, requests' = Tail(requests), NEW result \in {"Ok", "Err"},
         Reply(result), UNCHANGED <<window, saving, candidate, overtaken>>
  PROVE  /\ RequestsInv' /\ SentInv'
         /\ Sendable(Head(requests).config)
         /\ \/ /\ Head(requests).mine /\ answer' = result /\ requests' = <<>>
               /\ window = "open" /\ saving /\ candidate = <<Head(requests).config>>
            \/ ~Head(requests).mine /\ answer' = answer /\ answer = "none"
         /\ window = "open" /\ ~overtaken => Head(requests).mine
<1> DEFINE head == Head(requests)
<1>1. RequestsInv /\ AnswerInv /\ SentInv
  BY DEF WorkspaceInv, ViewInv, UsableInv
<1>2. IsVec(requests)
  BY <1>1 DEF RequestsInv
<1>3. /\ IsVec(requests') /\ Len(requests) \in Nat \ {0} /\ Len(requests') = Len(requests) - 1
      /\ DOMAIN requests' = 1..(Len(requests) - 1)
      /\ \A i \in 1..(Len(requests) - 1) : requests'[i] = requests[i + 1]
      /\ head = requests[1]
  BY <1>2, VecTail
<1>4. DOMAIN requests = 1..Len(requests)
  BY <1>2, VecIsSeq
<1>5. 1 \in DOMAIN requests
  BY <1>3, <1>4
<1>6. \A i \in DOMAIN requests' : /\ i + 1 \in DOMAIN requests /\ requests'[i] = requests[i + 1]
                                  /\ i + 1 = Len(requests) => i = Len(requests')
  BY <1>3, <1>4
<1> HIDE DEF head
<1>7. /\ head.mine \in BOOLEAN
      /\ head.mine => /\ Len(requests) = 1 /\ window = "open" /\ saving /\ answer = "none"
                      /\ candidate = <<head.config>>
      /\ window = "open" /\ ~overtaken => head.mine
  BY <1>1, <1>3, <1>5 DEF RequestsInv
<1>8. answer = "none"
  BY <1>1 DEF AnswerInv
<1>9. answer' = IF head.mine THEN result ELSE answer
  BY DEF Reply, head
<1>10. head.mine => requests' = <<>>
  BY <1>3, <1>7, VecEmpty
<1>11. SentInv' /\ Sendable(head.config)
  BY <1>1, <1>3, <1>5, <1>6 DEF SentInv
<1>12. RequestsInv'
  <2> SUFFICES ASSUME NEW i \in DOMAIN requests'
               PROVE  /\ requests'[i] = [config |-> requests'[i].config, mine |-> requests'[i].mine]
                      /\ requests'[i].mine \in BOOLEAN
                      /\ requests'[i].mine =>
                           /\ i = Len(requests') /\ window' = "open" /\ saving' /\ answer' = "none"
                           /\ candidate' = <<requests'[i].config>>
                      /\ window' = "open" /\ ~overtaken' => requests'[i].mine
    BY <1>3 DEF RequestsInv
  <2>1. head.mine = FALSE
    BY <1>7, <1>10, VecSmall
  <2>2. answer' = answer
    BY <1>9, <2>1
  <2>3. /\ requests[i + 1] = [config |-> requests[i + 1].config, mine |-> requests[i + 1].mine]
        /\ requests[i + 1].mine \in BOOLEAN
        /\ requests[i + 1].mine =>
             /\ i + 1 = Len(requests) /\ window = "open" /\ saving /\ answer = "none"
             /\ candidate = <<requests[i + 1].config>>
        /\ window = "open" /\ ~overtaken => requests[i + 1].mine
    BY <1>1, <1>6 DEF RequestsInv
  <2> QED
    BY <1>6, <2>2, <2>3
<1> QED
  BY <1>7, <1>8, <1>9, <1>10, <1>11, <1>12 DEF head

LEMMA SaveSucceedsStep ==
  ASSUME WorkspaceInv, SaveSucceeds
  PROVE  WorkspaceInv'
<1> DEFINE head == Head(requests)
<1>1. /\ requests # <<>> /\ requests' = Tail(requests) /\ Reply("Ok")
      /\ UNCHANGED <<window, startup, saving, candidate, overtaken, import_preview, ssh_preview>>
      /\ Accepted(head.config) /\ file' = try_from(head.config) /\ running' = head.config
      /\ unreported' = <<>>
  BY DEF SaveSucceeds, previewVars
<1>2. /\ RequestsInv' /\ SentInv' /\ Sendable(head.config)
      /\ \/ /\ head.mine /\ answer' = "Ok" /\ requests' = <<>>
            /\ window = "open" /\ saving /\ candidate = <<head.config>>
         \/ ~head.mine /\ answer' = answer /\ answer = "none"
      /\ window = "open" /\ ~overtaken => head.mine
  BY <1>1, RequestDone
<1>3. AnswerInv /\ StoredInv /\ PreviewInv
  BY DEF WorkspaceInv, ViewInv, UsableInv
<1> HIDE DEF head
<1>4. AnswerInv'
  BY <1>1, <1>2, <1>3 DEF AnswerInv
<1>5. ViewIsCurrent'
  BY <1>1, <1>2 DEF ViewIsCurrent
<1>6. StoredInv'
  <2>1. Usable(head.config) /\ IsDomainConfig(head.config)
    BY <1>1, <1>2 DEF Usable, Sendable
  <2>2. IsConfigDocument(file') /\ Loads(file') /\ into_domain(file') = Expanded(running')
    BY <1>1, <2>1, UsableIsDocument, ConfigRoundTrip
  <2> QED
    BY <1>1, <1>3, <2>1, <2>2 DEF StoredInv, Stored
<1>7. PreviewInv'
  BY <1>1, <1>3, SamePreviews
<1> QED
  BY <1>2, <1>4, <1>5, <1>6, <1>7 DEF WorkspaceInv, ViewInv, UsableInv

LEMMA SaveFailsStep ==
  ASSUME WorkspaceInv, SaveFails
  PROVE  WorkspaceInv'
<1> DEFINE head == Head(requests)
<1>1. /\ requests # <<>> /\ requests' = Tail(requests) /\ Reply("Err")
      /\ UNCHANGED <<window, startup, saving, candidate, overtaken, import_preview, ssh_preview, running, file,
                     unreported>>
  BY DEF SaveFails, previewVars
<1>2. /\ RequestsInv' /\ SentInv'
      /\ \/ /\ head.mine /\ answer' = "Err" /\ requests' = <<>>
            /\ window = "open" /\ saving /\ candidate = <<head.config>>
         \/ ~head.mine /\ answer' = answer /\ answer = "none"
  BY <1>1, RequestDone
<1>3. AnswerInv /\ ViewIsCurrent /\ StoredInv /\ PreviewInv
  BY DEF WorkspaceInv, ViewInv, UsableInv
<1>4. answer = "none"
  BY <1>1, <1>3 DEF AnswerInv
<1> HIDE DEF head
<1>5. AnswerInv'
  BY <1>1, <1>2, <1>3 DEF AnswerInv
<1>6. ViewIsCurrent'
  BY <1>1, <1>3, <1>4 DEF ViewIsCurrent
<1>7. StoredInv'
  BY <1>1, <1>3 DEF StoredInv, Stored
<1>8. PreviewInv'
  BY <1>1, <1>3, SamePreviews
<1> QED
  BY <1>2, <1>5, <1>6, <1>7, <1>8 DEF WorkspaceInv, ViewInv, UsableInv

LEMMA SavePruneFailsStep ==
  ASSUME WorkspaceInv, SavePruneFails
  PROVE  WorkspaceInv'
<1> DEFINE head == Head(requests)
<1>1. /\ requests # <<>> /\ requests' = Tail(requests) /\ Reply("Err")
      /\ UNCHANGED <<window, startup, saving, candidate, overtaken, import_preview, ssh_preview, running>>
      /\ Accepted(head.config) /\ file' = try_from(head.config) /\ unreported' = <<head.config>>
  BY DEF SavePruneFails, previewVars
<1>2. /\ RequestsInv' /\ SentInv' /\ Sendable(head.config)
      /\ \/ /\ head.mine /\ answer' = "Err" /\ requests' = <<>>
            /\ window = "open" /\ saving /\ candidate = <<head.config>>
         \/ ~head.mine /\ answer' = answer /\ answer = "none"
  BY <1>1, RequestDone
<1>3. AnswerInv /\ ViewIsCurrent /\ StoredInv /\ PreviewInv
  BY DEF WorkspaceInv, ViewInv, UsableInv
<1>4. answer = "none"
  BY <1>1, <1>3 DEF AnswerInv
<1> HIDE DEF head
<1>5. AnswerInv'
  BY <1>1, <1>2, <1>3 DEF AnswerInv
<1>6. ViewIsCurrent'
  BY <1>1, <1>3, <1>4 DEF ViewIsCurrent
<1>7. StoredInv'
  <2>1. Usable(head.config) /\ IsDomainConfig(head.config)
    BY <1>1, <1>2 DEF Usable, Sendable
  <2>2. IsConfigDocument(file') /\ Loads(file') /\ into_domain(file') = Expanded(head.config)
    BY <1>1, <2>1, UsableIsDocument, ConfigRoundTrip
  <2>3. Stored' = head.config
    BY <1>1 DEF Stored
  <2> QED
    BY <1>1, <1>3, <2>1, <2>2, <2>3 DEF StoredInv
<1>8. PreviewInv'
  BY <1>1, <1>3, SamePreviews
<1> QED
  BY <1>2, <1>5, <1>6, <1>7, <1>8 DEF WorkspaceInv, ViewInv, UsableInv

LEMMA SaveAnsweredStep ==
  ASSUME WorkspaceInv, SaveAnswered
  PROVE  WorkspaceInv'
<1>1. /\ window = "open" /\ answer # "none" /\ answer' = "none" /\ saving' = FALSE
      /\ UNCHANGED <<window, requests, running, file, unreported>>
  BY DEF SaveAnswered, managerVars
<1>2. AnswerInv /\ ViewIsCurrent /\ StoredInv /\ PreviewInv
  BY DEF WorkspaceInv, ViewInv, UsableInv
<1>3. requests' = <<>>
  BY <1>1, <1>2 DEF AnswerInv
<1>4. RequestsInv' /\ SentInv'
  BY <1>3, VecSmall DEF RequestsInv, SentInv
<1>5. CASE answer = "Ok"
  <2>1. startup' = candidate[1] /\ import_preview' = <<>> /\ ssh_preview' = <<>> /\ overtaken' = FALSE
    BY <1>5 DEF SaveAnswered
  <2>2. startup' = running
    BY <1>2, <1>5, <2>1 DEF AnswerInv
  <2>3. AnswerInv'
    BY <1>1, <1>2, <2>1 DEF AnswerInv
  <2>4. ViewIsCurrent'
    BY <1>1, <2>2 DEF ViewIsCurrent
  <2>5. StoredInv'
    BY <1>1, <1>2, <2>2 DEF StoredInv, Stored
  <2>6. PreviewInv'
    BY <2>1 DEF PreviewInv
  <2> QED
    BY <1>4, <2>3, <2>4, <2>5, <2>6 DEF WorkspaceInv, ViewInv, UsableInv
<1>6. CASE answer # "Ok"
  <2>1. UNCHANGED <<startup, import_preview, ssh_preview, overtaken>>
    BY <1>6 DEF SaveAnswered
  <2>2. AnswerInv'
    BY <1>1, <1>2, <2>1 DEF AnswerInv
  <2>3. ViewIsCurrent'
    BY <1>1, <1>2, <1>6, <2>1 DEF ViewIsCurrent
  <2>4. StoredInv'
    BY <1>1, <1>2, <2>1 DEF StoredInv, Stored
  <2>5. PreviewInv'
    BY <1>2, <2>1, SamePreviews
  <2> QED
    BY <1>4, <2>2, <2>3, <2>4, <2>5 DEF WorkspaceInv, ViewInv, UsableInv
<1> QED
  BY <1>5, <1>6

-----------------------------------------------------------------------------
(* The shell.                                                              *)

LEMMA DisownedRequest ==
  ASSUME NEW config, NEW mine, NEW new
  PROVE  [[config |-> config, mine |-> mine] EXCEPT !.mine = new] = [config |-> config, mine |-> new]
  OBVIOUS

LEMMA CloseWindowStep ==
  ASSUME WorkspaceInv, CloseWindow
  PROVE  WorkspaceInv'
<1>1. /\ window' = "closed" /\ saving' = FALSE /\ candidate' = <<>> /\ answer' = "none"
      /\ import_preview' = <<>> /\ ssh_preview' = <<>>
      /\ requests' = [i \in DOMAIN requests |-> [requests[i] EXCEPT !.mine = FALSE]]
      /\ UNCHANGED <<startup, overtaken, running, file, unreported>>
  BY DEF CloseWindow, Map
<1>2. RequestsInv /\ AnswerInv /\ StoredInv /\ SentInv
  BY DEF WorkspaceInv, ViewInv, UsableInv
<1>3. /\ IsVec(requests)
      /\ \A i \in DOMAIN requests :
           requests[i] = [config |-> requests[i].config, mine |-> requests[i].mine]
  BY <1>2 DEF RequestsInv
<1>4. \A i \in DOMAIN requests : requests'[i] = [config |-> requests[i].config, mine |-> FALSE]
  <2> SUFFICES ASSUME NEW i \in DOMAIN requests
               PROVE  requests'[i] = [config |-> requests[i].config, mine |-> FALSE]
    OBVIOUS
  <2> DEFINE config == requests[i].config
             mine == requests[i].mine
  <2>1. requests'[i] = [requests[i] EXCEPT !.mine = FALSE] /\ requests[i] = [config |-> config, mine |-> mine]
    BY <1>1, <1>3
  <2> HIDE DEF config, mine
  <2>2. [[config |-> config, mine |-> mine] EXCEPT !.mine = FALSE] = [config |-> config, mine |-> FALSE]
    BY DisownedRequest, Zenon
  <2>3. requests'[i] = [config |-> config, mine |-> FALSE]
    BY <2>1, <2>2, Zenon
  <2> QED
    BY <2>3 DEF config
<1>5. DOMAIN requests' = DOMAIN requests /\ DOMAIN requests = 1..Len(requests) /\ Len(requests) \in Nat
  BY <1>1, <1>3, VecIsSeq
<1>6. IsVec(requests')
  <2>1. requests' = [i \in 1..Len(requests) |-> requests'[i]]
    BY <1>1, <1>5
  <2> QED
    BY <1>5, <2>1, VecOf
<1>7. RequestsInv'
  BY <1>1, <1>4, <1>5, <1>6 DEF RequestsInv
<1>8. AnswerInv' /\ ViewIsCurrent'
  BY <1>1, <1>2 DEF AnswerInv, ViewIsCurrent
<1>9. StoredInv'
  BY <1>1, <1>2 DEF StoredInv, Stored
<1>10. PreviewInv'
  BY <1>1 DEF PreviewInv
<1>11. SentInv'
  BY <1>2, <1>4, <1>5 DEF SentInv
<1> QED
  BY <1>7, <1>8, <1>9, <1>10, <1>11 DEF WorkspaceInv, ViewInv, UsableInv

LEMMA ShowMainWindowStep ==
  ASSUME WorkspaceInv, show_main_window
  PROVE  WorkspaceInv'
<1>1. /\ window = "closed" /\ window' = "open" /\ startup' = running /\ saving' = FALSE
      /\ answer' = "none" /\ import_preview' = <<>> /\ ssh_preview' = <<>>
      /\ overtaken' = (requests # <<>>) /\ UNCHANGED <<requests, running, file, unreported>>
  BY DEF show_main_window, FreshWindow, managerVars
<1>2. RequestsInv /\ StoredInv /\ SentInv
  BY DEF WorkspaceInv, ViewInv, UsableInv
<1>3. RequestsInv'
  <2>1. \A i \in DOMAIN requests : ~requests[i].mine /\ requests # <<>>
    BY <1>1, <1>2, VecSmall DEF RequestsInv
  <2> QED
    BY <1>1, <1>2, <2>1 DEF RequestsInv
<1>4. AnswerInv' /\ ViewIsCurrent'
  BY <1>1 DEF AnswerInv, ViewIsCurrent
<1>5. StoredInv'
  BY <1>1, <1>2 DEF StoredInv, Stored
<1>6. PreviewInv'
  BY <1>1 DEF PreviewInv
<1>7. SentInv'
  BY <1>1, <1>2 DEF SentInv
<1> QED
  BY <1>3, <1>4, <1>5, <1>6, <1>7 DEF WorkspaceInv, ViewInv, UsableInv

LEMMA RestartStep ==
  ASSUME WorkspaceInv, Restart
  PROVE  WorkspaceInv'
<1> DEFINE config == into_domain(file)
<1>1. /\ window' = "open" /\ startup' = config /\ saving' = FALSE
      /\ answer' = "none" /\ import_preview' = <<>> /\ ssh_preview' = <<>>
      /\ running' = config /\ requests' = <<>> /\ overtaken' = FALSE /\ file' = file
      /\ unreported' = <<>>
  BY DEF Restart, FreshWindow
<1>2. Usable(config) /\ Expanded(config) = config
  BY LoadedIsUsable DEF WorkspaceInv, UsableInv, StoredInv
<1>3. RequestsInv' /\ SentInv'
  BY <1>1, VecSmall DEF RequestsInv, SentInv
<1>4. AnswerInv' /\ ViewIsCurrent'
  BY <1>1 DEF AnswerInv, ViewIsCurrent
<1>5. StoredInv'
  BY <1>1, <1>2 DEF StoredInv, Stored, WorkspaceInv, UsableInv
<1>6. PreviewInv'
  BY <1>1 DEF PreviewInv
<1> QED
  BY <1>3, <1>4, <1>5, <1>6 DEF WorkspaceInv, ViewInv, UsableInv

-----------------------------------------------------------------------------
(* The invariants are inductive.                                           *)

LEMMA EditStep ==
  ASSUME WorkspaceInv, Edit
  PROVE  WorkspaceInv'
<1>1. ASSUME NEW kind \in {"host", "tunnel", "group"},
             NewEditor(kind) \/ \E id \in Ids(Records(kind)) : OpenEditor(kind, id)
      PROVE  WorkspaceInv'
  BY <1>1, EditorStep
<1>2. CASE CloseEditor
  BY <1>2, EditorStep
<1>3. CASE \E form \in HostForms : SaveHost(form)
  BY <1>3, SaveHostStep
<1>4. CASE \E form \in TunnelForms : SaveTunnel(form)
  BY <1>4, SaveTunnelStep
<1>5. CASE \E name \in GroupNames : SaveGroup(name)
  BY <1>5, SaveGroupStep
<1>6. CASE \E id \in Ids(startup.groups) : DeleteGroup(id) \/ MoveGroup(id, -1) \/ MoveGroup(id, 1)
  BY <1>6, DeleteGroupStep, MoveGroupStep, Zenon
<1>7. CASE \E setting \in {"run_at_startup", "minimize_to_tray"} : ToggleSetting(setting)
  BY <1>7, ToggleSettingStep
<1> QED
  BY <1>1, <1>2, <1>3, <1>4, <1>5, <1>6, <1>7, Zenon DEF Edit

LEMMA TransferStep ==
  ASSUME WorkspaceInv, Transfer
  PROVE  WorkspaceInv'
<1>1. CASE (\E kind \in {"import", "ssh", "export"} : ChooseFile(kind)) \/ FileTaskEnds
  BY <1>1, PickerStep
<1>2. CASE \E document \in ImportDocuments : ImportArrives(document)
  BY <1>2, ImportArrivesStep
<1>3. CASE \E fs \in FileSystems : SshPreviewArrives(fs)
  BY <1>3, SshPreviewArrivesStep
<1>4. CASE \E i \in 1..MaxEntries : ToggleSelected(i)
  BY <1>4, ToggleSelectedStep
<1>5. CASE CancelPreview \/ ConfirmImport \/ ConfirmSshImport
  BY <1>5, CancelPreviewStep, ConfirmImportStep, ConfirmSshImportStep
<1> QED
  BY <1>1, <1>2, <1>3, <1>4, <1>5, Zenon DEF Transfer

LEMMA NextWorkspaceInv ==
  WorkspaceInv /\ [WorkspaceNext]_wvars => WorkspaceInv'
<1> SUFFICES ASSUME WorkspaceInv, [WorkspaceNext]_wvars PROVE WorkspaceInv'
  OBVIOUS
<1>1. CASE Edit \/ Transfer
  BY <1>1, EditStep, TransferStep
<1>2. CASE SaveSucceeds \/ SaveFails \/ SavePruneFails \/ SaveAnswered
  BY <1>2, SaveSucceedsStep, SaveFailsStep, SavePruneFailsStep, SaveAnsweredStep
<1>3. CASE CloseWindow \/ show_main_window \/ Restart
  BY <1>3, CloseWindowStep, ShowMainWindowStep, RestartStep
<1>4. CASE UNCHANGED wvars
  <2>1. UNCHANGED configVars /\ UNCHANGED <<import_preview, ssh_preview>>
    BY <1>4 DEF wvars, windowVars, previewVars, managerVars, configVars
  <2>2. PreviewInv'
    BY <2>1, SamePreviews DEF WorkspaceInv, UsableInv
  <2> QED
    BY <2>1, <2>2, QuietStep
<1> QED
  BY <1>1, <1>2, <1>3, <1>4 DEF WorkspaceNext

(* In every state a window, the manager's queue, the answer and the file   *)
(* fit together, also when a save fails after the file was replaced, and   *)
(* every configuration anywhere is one that may be used.                   *)
(* workspace.rs:344-505, manager.rs:358-365, schema.rs:173-174.            *)
THEOREM WorkspaceIsInductive == WorkspaceSpec => []WorkspaceInv
  BY InitWorkspaceInv, NextWorkspaceInv, PTL DEF WorkspaceSpec

(* However the window is edited, closed, reopened and restarted, it sends  *)
(* no configuration the store would refuse, except one with a group too    *)
(* many; the file can always be loaded; and it says what the manager works *)
(* with, or what the last save wrote if its error came after the rename,   *)
(* but for the home directory.  schema.rs:173-174, store.rs:111-136,       *)
(* manager.rs:360-363, workspace.rs:344-418.                               *)
THEOREM SavesAreUsable == WorkspaceSpec => []SavedIsUsable
<1>1. WorkspaceInv => SavedIsUsable
  BY DEF WorkspaceInv, UsableInv, StoredInv, SentInv, Sendable, SavedIsUsable
<1> QED
  BY <1>1, WorkspaceIsInductive, PTL

(* A change is made to the configuration the manager has, unless the       *)
(* window was opened while a save of an earlier one was under way.         *)
(* workspace.rs:497-505, main.rs:306-312.                                  *)
THEOREM ViewsAreCurrent == WorkspaceSpec => []ViewIsCurrent
<1>1. WorkspaceInv => ViewIsCurrent
  BY DEF WorkspaceInv, ViewInv
<1> QED
  BY <1>1, WorkspaceIsInductive, PTL

\* For any preview: the selected hosts are added to the window's, which stay as
\* they are, under ids and names no other has.
SelectedOnlyAdds ==
  \A i \in DOMAIN ssh_preview :
    OnlyAdds(AddSelected(startup.hosts, ssh_preview[i]), startup.hosts)

(* confirm_ssh_import leaves the hosts there are, and gives each new one   *)
(* an id and a name no other has, whatever the OpenSSH files said and      *)
(* however long the preview was open while the configuration changed.      *)
(* workspace.rs:645-681.                                                   *)
THEOREM ImportsOnlyAdd == WorkspaceSpec => []SelectedOnlyAdds
<1>1. WorkspaceInv => SelectedOnlyAdds
  <2> SUFFICES ASSUME WorkspaceInv, NEW i \in DOMAIN ssh_preview
               PROVE  OnlyAdds(AddSelected(startup.hosts, ssh_preview[i]), startup.hosts)
    BY DEF SelectedOnlyAdds
  <2> DEFINE preview == ssh_preview[1]
             hosts == startup.hosts
  <2>1. Usable(startup) /\ PreviewInv
    BY DEF WorkspaceInv, UsableInv, StoredInv
  <2>2. ssh_preview # <<>>
    BY VecSmall
  <2>3. ssh_preview = <<preview>> /\ IsSshImport(preview)
    BY <2>1, <2>2 DEF PreviewInv
  <2>4. ssh_preview[i] = preview
    BY <2>3
  <2>5. IsVec(hosts) /\ DistinctIds(hosts) /\ \A k \in DOMAIN hosts : IsSshHost(hosts[k])
    BY <2>1, AcceptedMeans DEF Usable, Sound, IsDomainConfig
  <2> HIDE DEF preview, hosts
  <2>6. Merged(AddSelected(hosts, preview), hosts)
    BY <2>3, <2>5, AllAdded
  <2>7. OnlyAdds(AddSelected(hosts, preview), hosts)
    BY <2>5, <2>6, MergedOnlyAdds
  <2> QED
    BY <2>4, <2>7 DEF hosts
<1> QED
  BY <1>1, WorkspaceIsInductive, PTL

-----------------------------------------------------------------------------
(* How long a supervisor waits: the delays of retry.rs, for every policy   *)
(* that validation accepts.                                                *)

Policies == {policy \in ReconnectPolicy : policy.max_delay >= policy.base_delay}

\* The table of multipliers is read inside its bounds, and grows.
LEMMA MultipliersGrow ==
  ASSUME NEW n \in Nat
  PROVE  LET now == MULTIPLIERS[clamp(n, 1, 6)]
             next == MULTIPLIERS[clamp(n + 1, 1, 6)]
         IN now \in Nat \ {0} /\ next \in Nat \ {0} /\ now <= next
<1>1. \A i \in 1..6 : MULTIPLIERS[i] \in Nat \ {0}
  BY DEF MULTIPLIERS
<1>2. \A i \in 1..5 : MULTIPLIERS[i] <= MULTIPLIERS[i + 1]
  BY DEF MULTIPLIERS
<1>3. clamp(n, 1, 6) \in 1..6 /\ clamp(n + 1, 1, 6) \in 1..6
  BY DEF clamp
<1>4. \/ clamp(n + 1, 1, 6) = clamp(n, 1, 6)
      \/ /\ clamp(n, 1, 6) \in 1..5
         /\ clamp(n + 1, 1, 6) = clamp(n, 1, 6) + 1
  BY DEF clamp
<1> QED
  BY <1>1, <1>2, <1>3, <1>4

\* Multiplying by a natural number and dividing by 100 keep the order.
LEMMA TimesKeepsOrder ==
  ASSUME NEW a \in Nat, NEW b \in Nat, NEW c \in Nat, a <= b
  PROVE  a * c \in Nat /\ b * c \in Nat /\ a * c <= b * c
  OBVIOUS

LEMMA PercentKeepsOrder ==
  ASSUME NEW a \in Nat, NEW b \in Nat, a <= b
  PROVE  a \div 100 \in Nat /\ a \div 100 <= b \div 100
  OBVIOUS

\* The delay without jitter grows and lies between base_delay and max_delay.
LEMMA UnjitteredGrows ==
  ASSUME NEW policy \in Policies, NEW n \in Nat
  PROVE  LET now == unjittered(policy, n)
             next == unjittered(policy, n + 1)
         IN /\ now \in Nat /\ next \in Nat
            /\ now <= next
            /\ policy.base_delay <= now
            /\ now <= policy.max_delay
<1> DEFINE base == policy.base_delay
           max == policy.max_delay
           m == MULTIPLIERS[clamp(n, 1, 6)]
           k == MULTIPLIERS[clamp(n + 1, 1, 6)]
<1>1. base \in Nat /\ max \in Nat /\ base <= max
  BY DEF Policies, ReconnectPolicy
<1>2. m \in Nat \ {0} /\ k \in Nat \ {0} /\ m <= k
  BY MultipliersGrow
<1>3. /\ unjittered(policy, n) = least(base * m, max)
      /\ unjittered(policy, n + 1) = least(base * k, max)
  BY DEF unjittered
<1> HIDE DEF base, max, m, k
<1>4. m * base \in Nat /\ k * base \in Nat /\ m * base <= k * base
  BY <1>1, <1>2, TimesKeepsOrder
<1>5. base * m = m * base /\ base * k = k * base
  BY <1>1, <1>2
<1>6. 1 * base <= m * base
  BY <1>1, <1>2, TimesKeepsOrder
<1>7. /\ least(base * m, max) \in Nat
      /\ least(base * k, max) \in Nat
      /\ least(base * m, max) <= least(base * k, max)
      /\ base <= least(base * m, max)
      /\ least(base * m, max) <= max
  BY <1>1, <1>4, <1>5, <1>6 DEF least
<1> QED
  BY <1>3, <1>7 DEF base, max

\* The jitter that is applied stays within the policy's percentage and 100.
LEMMA JitterIsLimited ==
  ASSUME NEW policy \in Policies, NEW jitter \in Int
  PROVE  LET limit == jitter_limit(policy)
             percent == 100 + clamp(jitter, -limit, limit)
         IN /\ percent \in 0..200
            /\ policy.jitter_percent <= 100 => percent >= 100 - policy.jitter_percent
<1>1. policy.jitter_percent \in Nat
  BY DEF Policies, ReconnectPolicy
<1>2. /\ jitter_limit(policy) \in 0..100
      /\ policy.jitter_percent <= 100 => jitter_limit(policy) = policy.jitter_percent
  BY <1>1 DEF jitter_limit, least
<1> QED
  BY <1>1, <1>2 DEF clamp

(* For every policy that validation accepts, every attempt and every       *)
(* jitter that may be drawn, the delay of retry.rs:15-29 grows with the    *)
(* attempts, stays below twice max_delay, and is not zero unless the       *)
(* policy asks for that.                                                   *)
THEOREM DelaysAreBounded ==
  \A policy \in Policies, n \in Nat, jitter \in Int :
    DelayIsBounded(policy, n, jitter)
<1> SUFFICES ASSUME NEW policy \in Policies, NEW n \in Nat, NEW jitter \in Int
             PROVE  DelayIsBounded(policy, n, jitter)
  OBVIOUS
<1> DEFINE now == unjittered(policy, n)
           next == unjittered(policy, n + 1)
           limit == jitter_limit(policy)
           percent == 100 + clamp(jitter, -limit, limit)
           base == policy.base_delay
           max == policy.max_delay
           spread == policy.jitter_percent
<1>1. base \in Nat /\ max \in Nat /\ spread \in Nat
  BY DEF Policies, ReconnectPolicy
<1>2. now \in Nat /\ next \in Nat /\ now <= next /\ base <= now /\ now <= max
  BY UnjitteredGrows
<1>3. percent \in 0..200 /\ (spread <= 100 => percent >= 100 - spread)
  BY JitterIsLimited
<1>4. /\ delay(policy, n, jitter) = (now * percent) \div 100
      /\ delay(policy, n + 1, jitter) = (next * percent) \div 100
  BY DEF delay
<1> HIDE DEF now, next, limit, percent, base, max, spread
<1>5. percent \in Nat
  BY <1>3
<1>6. now * percent \in Nat /\ next * percent \in Nat /\ now * percent <= next * percent
  BY <1>2, <1>5, TimesKeepsOrder
<1>7. (now * percent) \div 100 <= (next * percent) \div 100
  BY <1>6, PercentKeepsOrder
<1>8. (now * percent) \div 100 \in 0..(2 * max)
  <2>1. percent * now <= 200 * now
    BY <1>2, <1>3, <1>5, TimesKeepsOrder
  <2>2. now * percent = percent * now
    BY <1>2, <1>5
  <2>3. now * percent <= 200 * max
    BY <1>1, <1>2, <1>6, <2>1, <2>2
  <2> QED
    BY <1>1, <1>6, <2>3
<1>9. ASSUME base * (100 - spread) >= 100
      PROVE  (now * percent) \div 100 > 0
  <2>1. spread <= 100
    <3> SUFFICES ASSUME spread > 100 PROVE FALSE
      BY <1>1
    <3>1. spread - 100 \in Nat /\ base * (spread - 100) \in Nat
      BY <1>1
    <3>2. base * (100 - spread) = -(base * (spread - 100))
      BY <1>1
    <3> QED
      BY <1>9, <3>1, <3>2
  <2>2. 100 - spread \in Nat
    BY <1>1, <2>1
  <2>3. base * (100 - spread) <= now * (100 - spread)
    BY <1>1, <1>2, <2>2, TimesKeepsOrder
  <2>4. (100 - spread) * now <= percent * now
    BY <1>2, <1>3, <1>5, <2>1, <2>2, TimesKeepsOrder
  <2>5. (100 - spread) * now = now * (100 - spread) /\ percent * now = now * percent
    BY <1>2, <1>5, <2>2
  <2>6. base * (100 - spread) \in Nat /\ now * (100 - spread) \in Nat
    BY <1>1, <1>2, <2>2
  <2>7. now * percent >= 100
    BY <1>6, <1>9, <2>3, <2>4, <2>5, <2>6
  <2> QED
    BY <1>6, <2>7
<1> QED
  BY <1>4, <1>7, <1>8, <1>9 DEF DelayIsBounded, base, max, spread

\* BackoffIsBounded for every attempt and every jitter.
EveryBackoffIsBounded ==
  \A i \in DOMAIN running.tunnels, attempt \in Nat, jitter \in Int :
    DelayIsBounded(running.tunnels[i].reconnect, attempt, jitter)

(* The wait before an attempt, for every policy the manager can come to    *)
(* use: it never shrinks as attempts fail, stays below twice max_delay,    *)
(* and is zero only if the policy asks for it, because neither an editor   *)
(* nor an import nor a restart gets a policy past validate whose max_delay *)
(* is less than its base_delay.  retry.rs:15-29, validation.rs:77-81.      *)
THEOREM BackoffsAreBounded == WorkspaceSpec => [](EveryBackoffIsBounded /\ BackoffIsBounded)
<1>1. WorkspaceInv => EveryBackoffIsBounded
  <2> SUFFICES ASSUME WorkspaceInv, NEW i \in DOMAIN running.tunnels, NEW attempt \in Nat,
                      NEW jitter \in Int
               PROVE  DelayIsBounded(running.tunnels[i].reconnect, attempt, jitter)
    BY DEF EveryBackoffIsBounded
  <2> DEFINE tunnel == running.tunnels[i]
  <2>1. IsDomainConfig(running) /\ Accepted(running)
    BY DEF WorkspaceInv, UsableInv, StoredInv, Usable
  <2>2. IsTunnelConfig(tunnel) /\ validate(tunnel, running.hosts, running.groups)
    BY <2>1, AcceptedMeans DEF IsDomainConfig, Sound
  <2> HIDE DEF tunnel
  <2>3. tunnel.reconnect \in Policies
    BY <2>2 DEF IsTunnelConfig, validate, PolicyValid, Policies
  <2> QED
    BY <2>3, DelaysAreBounded DEF tunnel
<1>2. EveryBackoffIsBounded => BackoffIsBounded
  <2> SUFFICES ASSUME EveryBackoffIsBounded, NEW i \in DOMAIN running.tunnels, NEW attempt \in 0..7,
                      NEW jitter \in {-128, -20, 0, 127}
               PROVE  DelayIsBounded(running.tunnels[i].reconnect, attempt, jitter)
    BY DEF BackoffIsBounded
  <2>1. attempt \in Nat /\ jitter \in Int
    OBVIOUS
  <2> QED
    BY <2>1 DEF EveryBackoffIsBounded
<1> QED
  BY <1>1, <1>2, WorkspaceIsInductive, PTL

=============================================================================
