---------------------------- MODULE MCWorkspace ----------------------------
(***************************************************************************)
(* A configuration with one host, one group and a tunnel in it; a few      *)
(* entries for each editor, good and bad; documents to import, of which    *)
(* one is accepted and has two groups of equal rank; and OpenSSH files     *)
(* that include each other, contradict each other, and name hosts that are *)
(* there already.                                                          *)
(***************************************************************************)
EXTENDS Workspace

policy(base, max, jitter) ==
  [base_delay |-> base, max_delay |-> max, reset_after_healthy |-> 60000, jitter_percent |-> jitter]

record(id, name) ==
  [id |-> id, name |-> name, hostname |-> <<"a.example">>, port |-> 22, username |-> "user",
   auth_type |-> "Agent", credential_ref |-> <<>>, identity_file |-> <<>>,
   connect_timeout_ms |-> 10000, keepalive_max |-> 3]

tunnel(host, group, reconnect) ==
  [id |-> <<"tunnel", 1>>, name |-> <<"db">>, group_id |-> group, mode |-> "Local",
   jump_chain |-> <<host>>, local |-> [host |-> "ip", port |-> 5432],
   remote_host |-> <<"db">>, remote_port |-> <<5432>>, reconnect |-> reconnect]

document(hosts, groups, tunnels) ==
  [schema_version |-> 1, app |-> [run_at_startup |-> FALSE, minimize_to_tray |-> TRUE],
   hosts |-> hosts, groups |-> groups, tunnels |-> tunnels]

group(n) == [id |-> <<"group", n>>, name |-> <<"g", n>>, sort_order |-> 0]

MCInitialDocument ==
  document(<<[record(<<"ssh", "a">>, <<"a">>) EXCEPT !.auth_type = "Password", !.credential_ref = <<"old">>]>>,
           <<group(1)>>, <<tunnel(<<"ssh", "a">>, <<<<"group", 1>>>>, policy(1000, 30000, 20))>>)

\* The first has a policy at its limits and a key below the home directory; the
\* others have a chain that is broken, and an interval of no length.
MCImportDocuments ==
  LET key == [record(<<"host", 2>>, <<"b">>) EXCEPT !.auth_type = "PrivateKey", !.identity_file = <<"~/key">>]
  IN {document(<<key>>, <<group(1), group(2)>>, <<tunnel(<<"host", 2>>, <<<<"group", 1>>>>, policy(1, 1, 100))>>),
      document(<<key>>, <<>>, <<tunnel(<<"host", 1>>, <<>>, policy(1000, 30000, 20))>>),
      document(<<key>>, <<>>, <<tunnel(<<"host", 2>>, <<>>, policy(0, 30000, 20))>>)}

form(type, path, port) ==
  [name |-> <<"b">>, hostname |-> <<"b.example">>, port |-> port, username |-> "user", type |-> type,
   secret |-> FALSE, key_path |-> path, connect_timeout |-> 10000, keepalive_max |-> 3]

\* Without a new password only the host that has one may be saved.
MCHostForms ==
  {form("PrivateKey", "~/key", 22), form("Agent", "", 0), form("Agent", "", -1),
   form("Password", "", 22), [form("Password", "", 22) EXCEPT !.secret = TRUE],
   [form("Agent", "", 22) EXCEPT !.connect_timeout = MaxMillis + 1]}

\* A Remote tunnel may have port 0 at the server, a Local one may not.
MCTunnelForms ==
  {[name |-> <<"t">>, mode |-> mode, local |-> [host |-> "ip", port |-> 1080],
    remote |-> [host |-> "ip", port |-> 0]] : mode \in {"Local", "Remote"}}

\* A blank name, and one that two groups cannot both have.
MCGroupNames == {<<>>, <<"new">>}

-----------------------------------------------------------------------------

glob(alias) == [negated |-> FALSE, glob |-> alias]
not(alias) == [negated |-> TRUE, glob |-> alias]
Host(patterns) == [key |-> "host", patterns |-> patterns]
Include(paths) == [key |-> "include", paths |-> paths]
Set(key, value) == [key |-> key, value |-> value]
Match == [key |-> "match"]

MCFileSystems ==
  \* A name that is there, and one that looks like what a renamed host would get;
  \* values that are overruled, a negated pattern, an empty Host and a Match;
  \* files in a circle, one that is missing, one that is too long, and after it
  \* one too many.
  {[config |-> <<Host(<<glob(<<"a">>), glob(<<"a", 2>>)>>), Set("user", "first"), Set("port", -1),
                 Host(<<>>), Set("identityfile", "~/key"),
                 Host(<<not(<<"a">>), glob(<<"*">>)>>), Set("hostname", <<"other">>),
                 Match, Set("connecttimeout", 5),
                 Host(<<glob(<<"*">>)>>), Set("user", "last"), Set("hostname", <<"%h">>),
                 Include(<<"one", "three">>)>>,
    one |-> <<Include(<<"config", "gone", "one", "two">>)>>, two |-> <<Set("port", 1), Set("port", 2)>>,
    three |-> <<Set("port", 3)>>],
  \* A file with a Host of its own above all others, which includes another; a
  \* port that is no port, defaults for everybody, and no user.
   [config |-> <<Include(<<"one">>), Host(<<glob(<<"b">>)>>), Set("port", 70000),
                 Host(<<glob(<<"*">>)>>), Set("port", 2222), Set("serveralivecountmax", 0)>>,
    one |-> <<Host(<<glob(<<"c">>)>>), Include(<<"two">>), Set("hostname", <<"last">>)>>,
    two |-> <<Set("hostname", <<"first">>), Set("identityfile", "~/key")>>]}
=============================================================================
