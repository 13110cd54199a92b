---------------------------- MODULE ConfigSchema ----------------------------
(***************************************************************************)
(* The two models of a configuration and the conversions between them,     *)
(* crates/config-store/src/schema.rs and tunnel-domain/src/validation.rs.  *)
(*                                                                         *)
(* A document (ConfigDocument) is what the file says, a configuration      *)
(* (DomainConfig) what the program works with.  into_domain refuses a      *)
(* document or makes a configuration of it; try_from goes the other way.   *)
(* A refusal ends the conversion whichever rule it is, so each direction   *)
(* is a predicate (Loads, Converts) and a function.                        *)
(*                                                                         *)
(* An optional value is a sequence of at most one element.  Ids, names and *)
(* hostnames are sequences of words ("host-2" is <<"host", 2>>).  Other    *)
(* texts are abstracted to what the code asks of them: "" is blank, "ip"   *)
(* parses as an address, "long" has more than 255 bytes, "~/key" is a path *)
(* below the home directory.  Left out are texts nobody looks at (notes,   *)
(* descriptions) and the intervals that are only carried along.            *)
(***************************************************************************)
EXTENDS Naturals, Sequences, SequencesExt

CONSTANTS
  MaxHosts, MaxGroups, MaxTunnels,   \* MAX_HOSTS 512, MAX_GROUPS 128, MAX_TUNNELS 1024
  MaxJumpHops,                       \* MAX_JUMP_HOPS, 16
  MaxMillis,                         \* u64::MAX
  HasHome                            \* the environment names a home directory

ASSUME MaxGroupsAssumption == MaxGroups \in Nat
ASSUME MaxMillisAssumption == MaxMillis \in Nat
ASSUME HasHomeAssumption   == HasHome \in BOOLEAN

SCHEMA_VERSION == 1

Ids(records) == {records[i].id : i \in DOMAIN records}
CountId(records, id) == Cardinality({i \in DOMAIN records : records[i].id = id})
DistinctIds(records) == \A id \in Ids(records) : CountId(records, id) = 1
Map(records, Op(_)) == [i \in DOMAIN records |-> Op(records[i])]

-----------------------------------------------------------------------------
(* What a file can say: the types of the records it is decoded into.       *)

IsVec(s)    == Len(s) \in Nat /\ s = [i \in 1..Len(s) |-> s[i]]
IsOption(s) == s = <<>> \/ s = <<s[1]>>

IsGroupRecord(group) == group = [id |-> group.id, name |-> group.name, sort_order |-> group.sort_order]

ReconnectPolicy ==
  [base_delay : Nat, max_delay : Nat, reset_after_healthy : Nat, jitter_percent : Nat]

IsConfigDocument(document) ==
  /\ IsVec(document.hosts) /\ IsVec(document.groups) /\ IsVec(document.tunnels)
  /\ \A i \in DOMAIN document.hosts : document.hosts[i].connect_timeout_ms <= MaxMillis
  /\ \A i \in DOMAIN document.groups : IsGroupRecord(document.groups[i])
  /\ \A i \in DOMAIN document.tunnels :
       LET record == document.tunnels[i]
       IN /\ IsOption(record.group_id) /\ IsOption(record.remote_host) /\ IsOption(record.remote_port)
          /\ record.reconnect \in ReconnectPolicy
          /\ \A field \in {"base_delay", "max_delay", "reset_after_healthy"} :
               record.reconnect[field] <= MaxMillis

-----------------------------------------------------------------------------
(* Hosts.                                                                  *)

\* expand_home, which fails on a path below a home directory there is none of.
expand_home(path) == IF path = "~/key" THEN "/home/key" ELSE path
Expands(path)     == path = "~/key" => HasHome

\* HostRecord::into_domain: what it accepts ...
HostLoads(record) ==
  /\ record.id # <<>> /\ record.name # <<>>
  /\ record.hostname # <<>> /\ record.username # ""
  /\ record.port # 0 /\ record.connect_timeout_ms # 0 /\ record.keepalive_max # 0
  /\ record.auth_type = "Password" => record.credential_ref \notin {<<>>, <<"">>}
  /\ record.auth_type = "PrivateKey" =>
       record.identity_file # <<>> /\ Expands(record.identity_file[1])

\* ... and what it makes of it: only the fields of the type of authentication
\* are kept.
HostDomain(record) ==
  [id |-> record.id, name |-> record.name, hostname |-> record.hostname,
   port |-> record.port, username |-> record.username,
   auth |-> [type |-> record.auth_type,
             credential_ref |-> IF record.auth_type = "Password" THEN record.credential_ref ELSE <<>>,
             key_path |-> IF record.auth_type = "PrivateKey"
                          THEN <<expand_home(record.identity_file[1])>> ELSE <<>>],
   connect_timeout |-> record.connect_timeout_ms, keepalive_max |-> record.keepalive_max]

\* HostRecord::try_from
HostRecord(host) ==
  [id |-> host.id, name |-> host.name, hostname |-> host.hostname,
   port |-> host.port, username |-> host.username, auth_type |-> host.auth.type,
   credential_ref |-> host.auth.credential_ref, identity_file |-> host.auth.key_path,
   connect_timeout_ms |-> host.connect_timeout, keepalive_max |-> host.keepalive_max]

-----------------------------------------------------------------------------
(* Tunnels.                                                                *)

\* TunnelRecord::into_domain: a remote endpoint has both parts or none.
TunnelLoads(record) ==
  /\ Len(record.jump_chain) <= MaxJumpHops
  /\ Len(record.remote_host) = Len(record.remote_port)

TunnelDomain(record) ==
  [id |-> record.id, name |-> record.name, group_id |-> record.group_id, mode |-> record.mode,
   jump_chain |-> record.jump_chain, local |-> record.local, reconnect |-> record.reconnect,
   remote |-> [i \in DOMAIN record.remote_host |->
                 [host |-> record.remote_host[i], port |-> record.remote_port[i]]]]

\* TunnelRecord::try_from
TunnelRecord(tunnel) ==
  [id |-> tunnel.id, name |-> tunnel.name, group_id |-> tunnel.group_id, mode |-> tunnel.mode,
   jump_chain |-> tunnel.jump_chain, local |-> tunnel.local, reconnect |-> tunnel.reconnect,
   remote_host |-> [i \in DOMAIN tunnel.remote |-> tunnel.remote[i].host],
   remote_port |-> [i \in DOMAIN tunnel.remote |-> tunnel.remote[i].port]]

\* The policies validate lets through.
PolicyValid(reconnect) ==
  /\ reconnect.base_delay # 0
  /\ reconnect.max_delay >= reconnect.base_delay
  /\ reconnect.reset_after_healthy # 0
  /\ reconnect.jitter_percent <= 100

\* The remote endpoint: the destination of a Local tunnel, the address the
\* server binds for a Remote one, where port 0 asks it to choose.
RemoteValid(tunnel) ==
  IF tunnel.mode = "Dynamic"
  THEN tunnel.remote = <<>>
  ELSE /\ tunnel.remote # <<>>
       /\ tunnel.remote[1].host \notin {"", "long"}
       /\ tunnel.mode = "Local" => tunnel.remote[1].port # 0
       /\ tunnel.mode = "Remote" => tunnel.remote[1].host = "ip"

\* TunnelConfig::validate
validate(tunnel, hosts, groups) ==
  /\ tunnel.id # <<>> /\ tunnel.name # <<>>
  /\ tunnel.jump_chain # <<>>
  /\ IsInjective(tunnel.jump_chain)
  /\ \A i \in DOMAIN tunnel.jump_chain : CountId(hosts, tunnel.jump_chain[i]) = 1
  /\ \A i \in DOMAIN tunnel.group_id : CountId(groups, tunnel.group_id[i]) = 1
  /\ PolicyValid(tunnel.reconnect)
  /\ tunnel.local.host \notin {"", "long"} /\ tunnel.local.port # 0
  /\ tunnel.mode \in {"Local", "Dynamic"} => tunnel.local.host = "ip"
  /\ RemoteValid(tunnel)

-----------------------------------------------------------------------------
(* Whole configurations.                                                   *)

\* ConfigDocument::into_domain
into_domain(document) ==
  [app |-> document.app,
   hosts |-> Map(document.hosts, HostDomain),
   groups |-> document.groups,
   tunnels |-> Map(document.tunnels, TunnelDomain)]

Loads(document) ==
  /\ document.schema_version = SCHEMA_VERSION
  /\ Len(document.hosts) <= MaxHosts
  /\ Len(document.groups) <= MaxGroups
  /\ Len(document.tunnels) <= MaxTunnels
  /\ DistinctIds(document.hosts) /\ DistinctIds(document.groups) /\ DistinctIds(document.tunnels)
  /\ \A i \in DOMAIN document.hosts : HostLoads(document.hosts[i])
  /\ \A i \in DOMAIN document.tunnels :
       /\ TunnelLoads(document.tunnels[i])
       /\ LET config == into_domain(document)
          IN validate(config.tunnels[i], config.hosts, config.groups)

\* ConfigDocument::try_from; milliseconds refuses what u64 cannot hold.
try_from(config) ==
  [schema_version |-> SCHEMA_VERSION,
   app |-> config.app,
   hosts |-> Map(config.hosts, HostRecord),
   groups |-> config.groups,
   tunnels |-> Map(config.tunnels, TunnelRecord)]

Converts(config) ==
  /\ \A i \in DOMAIN config.hosts : config.hosts[i].connect_timeout <= MaxMillis
  /\ \A i \in DOMAIN config.tunnels :
       LET policy == config.tunnels[i].reconnect
       IN \A d \in {policy.base_delay, policy.max_delay, policy.reset_after_healthy} : d <= MaxMillis

\* try_from(config).and_then(into_domain), as the workspace and the store do.
Accepted(config) == Converts(config) /\ Loads(try_from(config))
=============================================================================
