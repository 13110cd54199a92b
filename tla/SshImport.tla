----------------------------- MODULE SshImport -----------------------------
(***************************************************************************)
(* Reading an OpenSSH client configuration,                                *)
(* crates/config-store/src/ssh_import.rs.                                  *)
(*                                                                         *)
(* A file system is a function from paths to files; a file is a sequence   *)
(* of lines, and a line is what split_words makes of it: a key with a      *)
(* value, Host with patterns, Match, or Include with the paths its globs   *)
(* expand to.  A pattern is an alias or <<"*">>, negated or not.  What     *)
(* read_lines collects are places, <<path, number of the line>>.  Warnings *)
(* are left out.  HasHome is that of ConfigSchema.                         *)
(***************************************************************************)
EXTENDS Integers, ConfigSchema

CONSTANTS
  MaxFiles,      \* MAX_FILES, 32 in the code
  MaxBytes,      \* MAX_BYTES, 2 MiB in the code; here the lines of all files
  MaxEntries,    \* MAX_ENTRIES, 512 in the code
  DefaultUser    \* the USER or USERNAME of the process, "" if there is none

ASSUME MaxEntriesAssumption == MaxEntries \in Nat

-----------------------------------------------------------------------------
(* read_lines                                                              *)

\* todo is what is left of the files that are open: the places of their lines,
\* and files to include, as places with line 0.
NothingRead == [ok |-> TRUE, files |-> 0, bytes |-> 0, visited |-> {}, lines |-> <<>>, todo |-> <<>>]

Progress ==
  [ok : BOOLEAN, files : Nat, bytes : Nat, visited : SUBSET STRING,
   lines : Seq(STRING \X Nat), todo : Seq(STRING \X Nat)]

\* A file is opened, to be read before all else.  One that cannot be read, or
\* is too much, is an error, and what was counted stays counted.
open(fs, path, sofar) ==
  LET counted == [sofar EXCEPT !.visited = @ \cup {path}, !.files = @ + 1]
  IN CASE path \notin DOMAIN fs -> [sofar EXCEPT !.ok = FALSE]
       [] path \in sofar.visited -> sofar
       [] path \in DOMAIN fs \ sofar.visited ->
            IF counted.files > MaxFiles \/ Len(fs[path]) > MaxBytes - counted.bytes
            THEN [counted EXCEPT !.ok = FALSE]
            ELSE [counted EXCEPT !.bytes = @ + Len(fs[path]),
                                 !.todo = [n \in DOMAIN fs[path] |-> <<path, n>>] \o @]

\* An error of an included file is a warning; the limit ends the including.
include(fs, path, sofar) ==
  IF sofar.files >= MaxFiles THEN sofar ELSE [open(fs, path, sofar) EXCEPT !.ok = sofar.ok]

\* The next line, or the next file of an Include line.
read_next(fs, sofar) ==
  LET path == Head(sofar.todo)[1]
      n    == Head(sofar.todo)[2]
      rest == [sofar EXCEPT !.todo = Tail(@)]
  IN CASE n = 0 -> include(fs, path, rest)
       [] n > 0 /\ fs[path][n].key = "include" ->
            LET paths == fs[path][n].paths
            IN [rest EXCEPT !.todo = [i \in DOMAIN paths |-> <<paths[i], 0>>] \o @]
       [] OTHER -> [rest EXCEPT !.lines = Append(@, <<path, n>>)]

read_lines(fs, path) ==
  LET reading[sofar \in Progress] ==
        IF sofar.todo = <<>> THEN sofar ELSE reading[read_next(fs, sofar)]
  IN reading[open(fs, path, NothingRead)]

-----------------------------------------------------------------------------
(* preview_ssh_config                                                      *)

\* A negated pattern that matches excludes the block.
matches_alias(patterns, alias) ==
  LET hits == {p \in ToSet(patterns) : p.glob \in {<<"*">>, alias}}
  IN hits # {} /\ \A p \in hits : ~p.negated

\* The aliases a Host line adds: those that are no pattern and are new.
add_alias(aliases, pattern) ==
  IF pattern.negated \/ pattern.glob = <<"*">> \/ Len(aliases) >= MaxEntries
       \/ pattern.glob \in ToSet(aliases)
  THEN aliases
  ELSE Append(aliases, pattern.glob)

\* One line, added to the blocks and aliases so far.
add_line(parsed, line) ==
  CASE line.key = "host" ->
         IF line.patterns = <<>>
         THEN parsed
         ELSE [blocks |-> Append(parsed.blocks, [patterns |-> line.patterns, values |-> <<>>]),
               aliases |-> FoldLeft(add_alias, parsed.aliases, line.patterns)]
    [] line.key = "match" ->
         [parsed EXCEPT !.blocks = Append(@, [patterns |-> <<>>, values |-> <<>>])]
    [] OTHER -> [parsed EXCEPT !.blocks[Len(parsed.blocks)].values = Append(@, line)]

parse(lines) ==
  FoldLeft(add_line,
           [blocks |-> <<[patterns |-> <<[negated |-> FALSE, glob |-> <<"*">>]>>, values |-> <<>>]>>,
            aliases |-> <<>>],
           lines)

\* The values that apply to an alias, in the order of the blocks.
values_of(blocks, alias) ==
  FlattenSeq([i \in DOMAIN blocks |->
                IF matches_alias(blocks[i].patterns, alias) THEN blocks[i].values ELSE <<>>])

\* Mutant of lookup: the last value wins.
lookupMutant(values, key, default) ==
  LET found == SelectSeq(values, LAMBDA line : line.key = key)
  IN IF found = <<>> THEN default ELSE Last(found).value

\* values.entry(key).or_insert(value): the first one wins.
lookup(values, key, default) ==
  LET found == SelectSeq(values, LAMBDA line : line.key = key)
  IN IF found = <<>> THEN default ELSE Head(found).value

\* A port that is no number from 1 to 65535 (-1: no number at all) counts as 22.
ssh_port(value) == IF value \in 1..65535 THEN value ELSE 22

\* seconds(key, default).max(1); -1 is no number.
ssh_seconds(value, default) == IF value = -1 THEN default ELSE IF value = 0 THEN 1 ELSE value

\* home_dir().join: without a home directory the path becomes a relative one.
join_home(path) == IF path # "~/key" THEN path ELSE IF HasHome THEN "/home/key" ELSE "key"

\* HostName with %h; the home directory of IdentityFile is put in right away.
ssh_host(alias, values) ==
  LET hostname == lookup(values, "hostname", alias)
      identity == lookup(values, "identityfile", "none")
  IN [id |-> <<"ssh">> \o alias,
      name |-> alias,
      hostname |-> IF hostname = <<"%h">> THEN alias ELSE hostname,
      port |-> ssh_port(lookup(values, "port", 22)),
      username |-> lookup(values, "user", DefaultUser),
      auth |-> [type |-> IF identity = "none" THEN "Agent" ELSE "PrivateKey",
                credential_ref |-> <<>>,
                key_path |-> IF identity = "none" THEN <<>> ELSE <<join_home(identity)>>],
      connect_timeout |-> 1000 * ssh_seconds(lookup(values, "connecttimeout", -1), 10),
      keepalive_max |-> ssh_seconds(lookup(values, "serveralivecountmax", -1), 3)]

\* The hosts of the preview, in the order their aliases appear.
preview_ssh_config(fs, path) ==
  LET places == read_lines(fs, path).lines
      parsed == parse([i \in DOMAIN places |-> fs[places[i][1]][places[i][2]]])
  IN [i \in DOMAIN parsed.aliases |->
        ssh_host(parsed.aliases[i], values_of(parsed.blocks, parsed.aliases[i]))]

-----------------------------------------------------------------------------
(* What an import should be, read off the files without read_lines and     *)
(* without blocks.                                                         *)

LinesWith(fs, p, key) == {n \in DOMAIN fs[p] : fs[p][n].key = key}

IsHead(line) == line.key = "match" \/ (line.key = "host" /\ line.patterns # <<>>)

\* The files that are included by path, directly or not.
Reachable(fs, path) ==
  LET includes(p) == UNION {ToSet(fs[p][n].paths) : n \in LinesWith(fs, p, "include")}
      within[k \in 0..Cardinality(DOMAIN fs)] ==
        IF k = 0 THEN {path}
        ELSE within[k - 1] \cup (UNION {includes(p) : p \in within[k - 1]} \cap DOMAIN fs)
  IN within[Cardinality(DOMAIN fs)]

\* Where a file is included: the place, and the position of the path on it.
Includers(fs, path, target) ==
  UNION {UNION {{<<p, n, i>> : i \in {j \in DOMAIN fs[p][n].paths : fs[p][n].paths[j] = target}} :
                  n \in LinesWith(fs, p, "include")} : p \in Reachable(fs, path)}

WithinLimits(fs, path) ==
  /\ Cardinality(Reachable(fs, path)) <= MaxFiles
  /\ Cardinality(UNION {{p} \X DOMAIN fs[p] : p \in Reachable(fs, path)}) <= MaxBytes

\* Every line of every included file is read once, however the files include
\* each other, and the lines of a file stay in order.
LinesAreRead(fs, path) ==
  LET places == read_lines(fs, path).lines
  IN /\ IsInjective(places)
     /\ \A i, j \in DOMAIN places : i < j /\ places[i][1] = places[j][1] => places[i][2] < places[j][2]
     /\ WithinLimits(fs, path) =>
          ToSet(places) = UNION {{<<p, n>> : n \in {m \in DOMAIN fs[p] : fs[p][m].key # "include"}} :
                                   p \in Reachable(fs, path)}

(***************************************************************************)
(* For OpenSSH a Host line ends with its file, and one in a file included  *)
(* under another Host counts only where that one matches.  The importer    *)
(* sees one long file.  The two mean the same if every file is included    *)
(* once, and one with Host lines of its own is included above all others,  *)
(* with nothing left to read before the next Host.                         *)
(***************************************************************************)
SameMeaning(fs, path) ==
  LET sections(p) == \E q \in Reachable(fs, p) : \E n \in DOMAIN fs[q] : IsHead(fs[q][n])
  IN /\ WithinLimits(fs, path)
     /\ Includers(fs, path, path) = {}
     /\ \A p \in Reachable(fs, path) \ {path} :
          /\ Cardinality(Includers(fs, path, p)) = 1
          /\ sections(p) =>
               \A x \in Includers(fs, path, p) :
                 /\ x[1] = path /\ Len(fs[x[1]][x[2]].paths) = 1
                 /\ \A m \in 1..(x[2] - 1) : ~IsHead(fs[x[1]][m])
                 /\ x[2] = Len(fs[x[1]]) \/ IsHead(fs[x[1]][x[2] + 1])

\* The lines above a place: itself, the Include its file stands for, and so on.
Enclosing(fs, path, place) ==
  LET above[p \in Reachable(fs, path)] ==
        UNION {{x} \cup above[x[1]] : x \in Includers(fs, path, p)}
  IN {<<place[1], place[2], 0>>} \cup above[place[1]]

\* Whether a line applies to an alias: it, and every Include above it, stands
\* under a Host that matches, or under none.
Applies(fs, path, place, alias) ==
  \A x \in Enclosing(fs, path, place) :
    \A m \in 1..(x[2] - 1) :
      IsHead(fs[x[1]][m]) /\ (\A k \in (m + 1)..(x[2] - 1) : ~IsHead(fs[x[1]][k])) =>
        fs[x[1]][m].key = "host" /\ matches_alias(fs[x[1]][m].patterns, alias)

\* One place is read before another: in the file where their ways part.
ReadBefore(fs, path, one, other) ==
  \E x \in Enclosing(fs, path, one), y \in Enclosing(fs, path, other) :
    /\ x[1] = y[1]
    /\ x[2] < y[2] \/ (x[2] = y[2] /\ x[3] < y[3])

\* The value the files give a key of an alias: the first that applies.
FirstValue(fs, path, alias, key, default) ==
  LET found == {place \in UNION {{p} \X LinesWith(fs, p, key) : p \in Reachable(fs, path)} :
                  Applies(fs, path, place, alias)}
      first == CHOOSE place \in found :
                 \A other \in found \ {place} : ReadBefore(fs, path, place, other)
  IN IF found = {} THEN default ELSE fs[first[1]][first[2]].value

\* The aliases the Host lines of the files name.
Named(fs, path) ==
  LET patterns == UNION {UNION {ToSet(fs[p][n].patterns) : n \in LinesWith(fs, p, "host")} :
                           p \in Reachable(fs, path)}
  IN {pattern.glob : pattern \in {q \in patterns : ~q.negated /\ q.glob # <<"*">>}}

\* What the files say of every alias.
Said(fs, path) ==
  {LET value(key, default) == FirstValue(fs, path, alias, key, default)
       hostname == value("hostname", alias)
       identity == value("identityfile", "none")
   IN [name |-> alias,
       username |-> value("user", DefaultUser),
       hostname |-> IF hostname = <<"%h">> THEN alias ELSE hostname,
       port |-> ssh_port(value("port", 22)),
       key_path |-> IF identity = "none" THEN <<>> ELSE <<join_home(identity)>>,
       connect_timeout |-> 1000 * ssh_seconds(value("connecttimeout", 10), 10),
       keepalive_max |-> ssh_seconds(value("serveralivecountmax", 3), 3)] : alias \in Named(fs, path)}

\* The preview names each alias once, up to the limit, and says that of it.
PreviewAgrees(said, hosts) ==
  /\ IsInjective([i \in DOMAIN hosts |-> hosts[i].name])
  /\ Len(hosts) \in {MaxEntries, Cardinality(said)}
  /\ \A i \in DOMAIN hosts :
       [name |-> hosts[i].name, username |-> hosts[i].username, hostname |-> hosts[i].hostname,
        port |-> hosts[i].port, key_path |-> hosts[i].auth.key_path,
        connect_timeout |-> hosts[i].connect_timeout, keepalive_max |-> hosts[i].keepalive_max] \in said
=============================================================================
