----------------------------- MODULE Workspace -----------------------------
(***************************************************************************)
(* Editing the configuration: the window of crates/app/src/workspace.rs    *)
(* with its editors (editor.rs), imports and exports, the shell that       *)
(* closes and reopens it (main.rs), and what the manager does with the     *)
(* configurations it is sent.                                              *)
(*                                                                         *)
(* The window works on a copy of the configuration, startup.  Whatever the *)
(* user changes, the whole changed copy is sent to the manager, which      *)
(* saves it, goes over to it and answers; only then does the window take   *)
(* it for its own.  A window that is closed meanwhile never sees the       *)
(* answer.  A new window starts from a copy of what the manager has at     *)
(* that moment, and nothing refreshes it later.                            *)
(*                                                                         *)
(* ConfigPersistence models the steps of a save, TunnelManager what the    *)
(* manager does with the tunnels.  Pages, messages and the list of tunnels *)
(* are left out.  A command the manager's queue has no room for only       *)
(* shows a message.                                                        *)
(***************************************************************************)
EXTENDS ConfigSchema, RetrySchedule, SshImport

CONSTANTS
  InitialDocument,    \* the configuration file at first
  HostForms,          \* what may be entered in the editor of a host ...
  TunnelForms,        \* ... of a tunnel ...
  GroupNames,         \* ... and of a group
  ImportDocuments,    \* documents the user may import
  FileSystems,        \* what an OpenSSH import may find; "config" is picked
  MaxSuffix,          \* the last suffix tried for a duplicate, 1024 in the code
  MaxSaves            \* bound: configurations sent, after which nothing is begun

ASSUME MaxSuffixAssumption == MaxSuffix \in Nat
ASSUME InitialDocumentAssumption ==
  IsConfigDocument(InitialDocument) /\ Loads(InitialDocument)
ASSUME ImportDocumentsAssumption ==
  \A document \in ImportDocuments : IsConfigDocument(document)
ASSUME TunnelFormsAssumption ==
  \A form \in TunnelForms : form.remote = [host |-> form.remote.host, port |-> form.remote.port]

VARIABLES
  window,            \* "open" or "closed"
  startup,           \* the window's copy of the configuration
  editor,            \* the open editor, if any: kind and id
  saving,
  candidate,         \* what the save task took with it
  file_task,         \* what the file picker is open for, or "none"
  import_preview,    \* a configuration, if any
  ssh_preview,       \* the hosts found, if any, and ssh_selected
  requests,          \* SaveConfig commands; mine: the window still waits for it
  answer,            \* the reply to the window: "none", "Ok" or "Err"
  running,           \* the manager's configuration
  file,              \* the document on disk
  unreported,        \* history: the configuration, if any, of a save that was
                     \* reported as failed after it had replaced the file
  overtaken,         \* history: the window was opened while a save was under way
  saves              \* history: requests sent so far

windowVars  == <<window, startup, editor, saving, candidate, answer, overtaken>>
previewVars == <<file_task, import_preview, ssh_preview>>
managerVars == <<requests, running, file, unreported>>
wvars == <<windowVars, previewVars, managerVars, saves>>

DefaultPolicy == [base_delay |-> 1000, max_delay |-> 30000, reset_after_healthy |-> 60000,
                  jitter_percent |-> 20]

\* What a new window shows.
FreshWindow(config) ==
  /\ window' = "open" /\ startup' = config
  /\ editor' = <<>> /\ saving' = FALSE /\ candidate' = <<>> /\ answer' = "none"
  /\ file_task' = "none" /\ import_preview' = <<>> /\ ssh_preview' = <<>>

WorkspaceInit ==
  /\ file = InitialDocument
  /\ running = into_domain(InitialDocument)
  /\ window = "open" /\ startup = into_domain(InitialDocument)
  /\ editor = <<>> /\ saving = FALSE /\ candidate = <<>> /\ answer = "none"
  /\ file_task = "none" /\ import_preview = <<>> /\ ssh_preview = <<>>
  /\ requests = <<>> /\ unreported = <<>> /\ overtaken = FALSE /\ saves = 0

-----------------------------------------------------------------------------
(* Helpers.                                                                *)

\* The first record with this id, as an optional value.
Find(records, id) ==
  LET found == {i \in DOMAIN records : records[i].id = id}
  IN IF found = {} THEN <<>> ELSE <<records[Min(found)]>>

\* Put a record in the place of the one with its id, or at the end.
Upsert(records, record) ==
  IF record.id \in Ids(records)
  THEN Map(records, LAMBDA r : IF r.id = record.id THEN record ELSE r)
  ELSE Append(records, record)

\* The first number after the count that is free.
new_id(kind, records) ==
  LET free == {n \in (Len(records) + 1)..(2 * Len(records) + 1) : <<kind, n>> \notin Ids(records)}
  IN <<kind, Min(free)>>

\* The buttons of the window are disabled while it saves.
Idle == window = "open" /\ ~saving

\* An open editor takes the place of every page.
Shown == Idle /\ editor = <<>>

persist_config(config) ==
  /\ saves < MaxSaves
  /\ saves' = saves + 1
  /\ requests' = Append(requests, [config |-> config, mine |-> TRUE])
  /\ saving' = TRUE
  /\ candidate' = <<config>>
  /\ UNCHANGED <<window, startup, answer, overtaken, running, file, unreported>>

-----------------------------------------------------------------------------
(* Editors.  Nothing keeps the user from opening one while a save is under *)
(* way.                                                                    *)

Records(kind) ==
  CASE kind = "host" -> startup.hosts [] kind = "tunnel" -> startup.tunnels
    [] kind = "group" -> startup.groups

\* new_host, new_tunnel, new_group
NewEditor(kind) ==
  /\ window = "open" /\ editor = <<>> /\ saves < MaxSaves
  /\ editor' = <<[kind |-> kind, id |-> new_id(kind, Records(kind))]>>
  /\ UNCHANGED <<window, startup, saving, candidate, answer, overtaken, previewVars, managerVars, saves>>

\* edit_host, edit_tunnel, edit_group
OpenEditor(kind, id) ==
  /\ window = "open" /\ editor = <<>> /\ saves < MaxSaves
  /\ id \in Ids(Records(kind))
  /\ editor' = <<[kind |-> kind, id |-> id]>>
  /\ UNCHANGED <<window, startup, saving, candidate, answer, overtaken, previewVars, managerVars, saves>>

\* Cancel, or select_page, which is also possible during a save.
CloseEditor ==
  /\ window = "open" /\ editor # <<>>
  /\ editor' = <<>>
  /\ UNCHANGED <<window, startup, saving, candidate, answer, overtaken, previewVars, managerVars, saves>>

\* HostEditor::collect: numbers that do not parse (-1), a password never
\* entered and a key without a path are refused.
HostCollects(form, old) ==
  /\ -1 \notin {form.port, form.connect_timeout, form.keepalive_max}
  /\ form.type = "Password" =>
       form.secret \/ (\E i \in DOMAIN old : old[i].auth.type = "Password")
  /\ form.type = "PrivateKey" => form.key_path # ""

\* A new password gets a new reference; the path is kept as it was typed.
collect_host(form, id, old) ==
  [id |-> id, name |-> form.name, hostname |-> form.hostname, port |-> form.port,
   username |-> form.username,
   auth |-> [type |-> form.type,
             credential_ref |-> CASE form.type # "Password" -> <<>>
                                  [] form.type = "Password" /\ form.secret -> <<"new">>
                                  [] OTHER -> old[1].auth.credential_ref,
             key_path |-> IF form.type = "PrivateKey" THEN <<form.key_path>> ELSE <<>>],
   connect_timeout |-> form.connect_timeout, keepalive_max |-> form.keepalive_max]

\* TunnelEditor::collect; the policy is not edited.
collect_tunnel(form, id, chain, group, old) ==
  [id |-> id, name |-> form.name, group_id |-> group, mode |-> form.mode, jump_chain |-> chain,
   local |-> form.local, remote |-> IF form.mode = "Dynamic" THEN <<>> ELSE <<form.remote>>,
   reconnect |-> IF old = <<>> THEN DefaultPolicy ELSE old[1].reconnect]

\* save_editor
SaveHost(form) ==
  /\ Idle /\ editor # <<>>
  /\ editor[1].kind = "host"
  /\ LET old == Find(startup.hosts, editor[1].id)
         config == [startup EXCEPT !.hosts = Upsert(@, collect_host(form, editor[1].id, old))]
     IN HostCollects(form, old) /\ Accepted(config) /\ persist_config(config)
  /\ UNCHANGED <<editor, previewVars>>

SaveTunnel(form) ==
  /\ Idle /\ editor # <<>>
  /\ editor[1].kind = "tunnel"
  /\ form.local.port # -1 /\ (form.mode = "Dynamic" \/ form.remote.port # -1)
  /\ \E chain \in UNION {[1..n -> Ids(startup.hosts)] : n \in 0..2},
        group \in {<<>>} \cup {<<id>> : id \in Ids(startup.groups)} :
       LET old == Find(startup.tunnels, editor[1].id)
           config == [startup EXCEPT !.tunnels =
                        Upsert(@, collect_tunnel(form, editor[1].id, chain, group, old))]
       IN Accepted(config) /\ persist_config(config)
  /\ UNCHANGED <<editor, previewVars>>

\* A name that is taken or blank is refused.  A new group comes last.
SaveGroup(name) ==
  /\ Idle /\ editor # <<>>
  /\ editor[1].kind = "group"
  /\ name # <<>>
  /\ \A i \in DOMAIN startup.groups :
       startup.groups[i].name = name => startup.groups[i].id = editor[1].id
  /\ LET old == Find(startup.groups, editor[1].id)
         order == IF old # <<>> THEN old[1].sort_order
                  ELSE 1 + Max({0} \cup {startup.groups[i].sort_order : i \in DOMAIN startup.groups})
     IN persist_config([startup EXCEPT !.groups =
                          Upsert(@, [id |-> editor[1].id, name |-> name, sort_order |-> order])])
  /\ UNCHANGED <<editor, previewVars>>

-----------------------------------------------------------------------------
(* Groups and settings: changes that are sent without being validated.     *)

\* Mutant of ungroup: the tunnels keep the group that is gone.
ungroupMutant(tunnel, id) == tunnel

ungroup(tunnel, id) == IF tunnel.group_id = <<id>> THEN [tunnel EXCEPT !.group_id = <<>>] ELSE tunnel

\* The second click; the first asks for it.  retain keeps the order of the others.
DeleteGroup(id) ==
  /\ Shown
  /\ LET groups == startup.groups
         kept == {i \in DOMAIN groups : groups[i].id # id}
     IN \E place \in Bijection(1..Cardinality(kept), kept) :
          /\ \A i, j \in DOMAIN place : i < j => place[i] < place[j]
          /\ persist_config([startup EXCEPT !.groups = [i \in DOMAIN place |-> groups[place[i]]],
                                            !.tunnels = Map(@, LAMBDA tunnel : ungroup(tunnel, id))])
  /\ UNCHANGED <<editor, previewVars>>

\* sort_by_key, which is stable, swap, and renumber from 0.
MoveGroup(id, direction) ==
  /\ Shown
  /\ LET groups == startup.groups
         precedes(i, j) == \/ groups[i].sort_order < groups[j].sort_order
                           \/ groups[i].sort_order = groups[j].sort_order /\ i < j
     IN \E sorted \in Bijection(DOMAIN groups, DOMAIN groups), index \in DOMAIN groups :
          LET target == index + direction
              order == [sorted EXCEPT ![index] = sorted[target], ![target] = sorted[index]]
          IN /\ \A i, j \in DOMAIN groups : i < j => precedes(sorted[i], sorted[j])
             /\ groups[sorted[index]].id = id
             /\ target \in DOMAIN groups
             /\ persist_config([startup EXCEPT !.groups =
                  [i \in DOMAIN groups |-> [groups[order[i]] EXCEPT !.sort_order = i - 1]]])
  /\ UNCHANGED <<editor, previewVars>>

ToggleSetting(setting) ==
  /\ Shown
  /\ persist_config([startup EXCEPT !.app[setting] = ~@])
  /\ UNCHANGED <<editor, previewVars>>

-----------------------------------------------------------------------------
(* Imports and exports.                                                    *)

\* choose_import, choose_ssh_import, choose_export
ChooseFile(kind) ==
  /\ Shown /\ file_task = "none" /\ saves < MaxSaves
  /\ file_task' = kind
  /\ UNCHANGED <<windowVars, import_preview, ssh_preview, managerVars, saves>>

\* The picker was cancelled, the file is no good, or the export is done.
FileTaskEnds ==
  /\ window = "open" /\ file_task # "none"
  /\ file_task' = "none"
  /\ UNCHANGED <<windowVars, import_preview, ssh_preview, managerVars, saves>>

\* The answer to ImportConfig comes whenever it comes, also during a save.
ImportArrives(document) ==
  /\ window = "open" /\ file_task = "import"
  /\ Loads(document)
  /\ import_preview' = <<into_domain(document)>>
  /\ file_task' = "none"
  /\ UNCHANGED <<windowVars, ssh_preview, managerVars, saves>>

ConfirmImport ==
  /\ Shown /\ import_preview # <<>>
  /\ persist_config(import_preview[1])
  /\ UNCHANGED <<editor, previewVars>>

\* Of the hosts found, those that collide with none of the window's and have a
\* user are selected.
SshPreviewArrives(fs) ==
  /\ window = "open" /\ file_task = "ssh"
  /\ read_lines(fs, "config").ok
  /\ LET hosts == preview_ssh_config(fs, "config")
         conflict(host) == \E i \in DOMAIN startup.hosts :
                             startup.hosts[i].id = host.id \/ startup.hosts[i].name = host.name
     IN ssh_preview' = <<[source |-> fs, hosts |-> hosts,
                          selected |-> [i \in DOMAIN hosts |->
                                          ~conflict(hosts[i]) /\ hosts[i].username # ""]]>>
  /\ import_preview' = <<>>
  /\ file_task' = "none"
  /\ UNCHANGED <<windowVars, managerVars, saves>>

ToggleSelected(i) ==
  /\ Shown /\ ssh_preview # <<>>
  /\ i \in DOMAIN ssh_preview[1].hosts
  /\ ssh_preview[1].hosts[i].username # ""
  /\ ssh_preview' = [ssh_preview EXCEPT ![1].selected[i] = ~@]
  /\ UNCHANGED <<windowVars, file_task, import_preview, managerVars, saves>>

CancelPreview ==
  /\ Shown
  /\ \/ import_preview # <<>> /\ import_preview' = <<>> /\ UNCHANGED ssh_preview
     \/ ssh_preview # <<>> /\ ssh_preview' = <<>> /\ UNCHANGED import_preview
  /\ UNCHANGED <<windowVars, file_task, managerVars, saves>>

\* The suffixes that make the id and the name of a host new.
FreeSuffixes(hosts, host) ==
  {n \in 2..MaxSuffix : \A i \in DOMAIN hosts :
     hosts[i].id # host.id \o <<n>> /\ hosts[i].name # host.name \o <<"(", n, ")">>}

Collides(hosts, host) ==
  \E i \in DOMAIN hosts : hosts[i].id = host.id \/ hosts[i].name = host.name

\* One selected host is added, renamed if it has to be and can be.
AddImported(hosts, host) ==
  LET free == FreeSuffixes(hosts, host)
  IN CASE ~Collides(hosts, host) -> Append(hosts, host)
       [] Collides(hosts, host) /\ free # {} ->
            Append(hosts, [host EXCEPT !.id = @ \o <<Min(free)>>,
                                       !.name = @ \o <<"(", Min(free), ")">>])
       [] OTHER -> hosts

\* The selected hosts are added in their order, of which there are at most
\* MaxEntries.
AddSelected(hosts, preview) ==
  LET added[n \in 0..MaxEntries] ==
        IF n = 0 THEN hosts
        ELSE IF n \in DOMAIN preview.hosts /\ preview.selected[n]
        THEN AddImported(added[n - 1], preview.hosts[n])
        ELSE added[n - 1]
  IN added[MaxEntries]

\* A host that cannot be renamed ends the import.
ConfirmSshImport ==
  /\ Shown /\ ssh_preview # <<>>
  /\ \E i \in DOMAIN ssh_preview[1].selected : ssh_preview[1].selected[i]
  /\ LET preview == ssh_preview[1]
         selected == {i \in DOMAIN preview.selected : preview.selected[i]}
         config == [startup EXCEPT !.hosts = AddSelected(@, preview)]
     IN /\ Len(config.hosts) = Len(startup.hosts) + Cardinality(selected)
        /\ Accepted(config)
        /\ persist_config(config)
  /\ UNCHANGED <<editor, previewVars>>

-----------------------------------------------------------------------------
(* The manager: SaveConfig.                                                *)

Reply(result) == answer' = IF Head(requests).mine THEN result ELSE answer

\* The store validates the document; the manager goes over to the configuration
\* it was sent, which is not the one into_domain makes of the document.
SaveSucceeds ==
  /\ requests # <<>>
  /\ requests' = Tail(requests)
  /\ Accepted(Head(requests).config)
  /\ file' = try_from(Head(requests).config)
  /\ running' = Head(requests).config
  /\ unreported' = <<>>
  /\ Reply("Ok")
  /\ UNCHANGED <<window, startup, editor, saving, candidate, overtaken, previewVars, saves>>

\* Any step of the save before the rename fails; the file stays as it was ...
SaveFails ==
  /\ requests # <<>>
  /\ requests' = Tail(requests)
  /\ Reply("Err")
  /\ UNCHANGED <<window, startup, editor, saving, candidate, overtaken, previewVars, running, file,
                 unreported, saves>>

\* ... or pruning the backups fails, after the rename: the file is the new one,
\* and the manager keeps the old configuration.
SavePruneFails ==
  /\ requests # <<>>
  /\ requests' = Tail(requests)
  /\ Accepted(Head(requests).config)
  /\ file' = try_from(Head(requests).config)
  /\ unreported' = <<Head(requests).config>>
  /\ Reply("Err")
  /\ UNCHANGED <<window, startup, editor, saving, candidate, overtaken, previewVars, running, saves>>

\* The save task of the window goes on.  After Ok every editor and preview is
\* closed, also one that was opened since.
SaveAnswered ==
  /\ window = "open" /\ answer # "none"
  /\ answer' = "none"
  /\ saving' = FALSE
  /\ candidate' = <<>>
  /\ IF answer = "Ok"
     THEN /\ startup' = candidate[1]
          /\ editor' = <<>> /\ import_preview' = <<>> /\ ssh_preview' = <<>>
          /\ overtaken' = FALSE
     ELSE UNCHANGED <<startup, editor, import_preview, ssh_preview, overtaken>>
  /\ UNCHANGED <<window, file_task, managerVars, saves>>

-----------------------------------------------------------------------------
(* The shell.                                                              *)

\* The window closes and its tasks are dropped; the requests they sent are not.
\* Without minimize_to_tray the application ends instead: see Restart.
CloseWindow ==
  /\ window = "open"
  /\ running.app.minimize_to_tray
  /\ window' = "closed"
  /\ editor' = <<>> /\ saving' = FALSE /\ candidate' = <<>> /\ answer' = "none"
  /\ file_task' = "none" /\ import_preview' = <<>> /\ ssh_preview' = <<>>
  /\ requests' = Map(requests, LAMBDA r : [r EXCEPT !.mine = FALSE])
  /\ UNCHANGED <<startup, overtaken, running, file, unreported, saves>>

\* Mutant of show_main_window: the new window shows what the old one had.
show_main_windowMutant ==
  /\ window = "closed"
  /\ FreshWindow(startup)
  /\ overtaken' = (requests # <<>>)
  /\ UNCHANGED <<managerVars, saves>>

\* The tray, a second start of the program or a prompt asks for the window.
show_main_window ==
  /\ window = "closed"
  /\ FreshWindow(running)
  /\ overtaken' = (requests # <<>>)
  /\ UNCHANGED <<managerVars, saves>>

\* The application ends, by whatever cause, and is started again.
Restart ==
  /\ Loads(file)
  /\ FreshWindow(into_domain(file))
  /\ running' = into_domain(file)
  /\ requests' = <<>> /\ unreported' = <<>>
  /\ overtaken' = FALSE
  /\ UNCHANGED <<file, saves>>

-----------------------------------------------------------------------------

Edit ==
  \/ \E kind \in {"host", "tunnel", "group"} :
       NewEditor(kind) \/ \E id \in Ids(Records(kind)) : OpenEditor(kind, id)
  \/ CloseEditor
  \/ \E form \in HostForms : SaveHost(form)
  \/ \E form \in TunnelForms : SaveTunnel(form)
  \/ \E name \in GroupNames : SaveGroup(name)
  \/ \E id \in Ids(startup.groups) : DeleteGroup(id) \/ MoveGroup(id, -1) \/ MoveGroup(id, 1)
  \/ \E setting \in {"run_at_startup", "minimize_to_tray"} : ToggleSetting(setting)

Transfer ==
  \/ \E kind \in {"import", "ssh", "export"} : ChooseFile(kind)
  \/ FileTaskEnds
  \/ \E document \in ImportDocuments : ImportArrives(document)
  \/ \E fs \in FileSystems : SshPreviewArrives(fs)
  \/ \E i \in 1..MaxEntries : ToggleSelected(i)
  \/ CancelPreview \/ ConfirmImport \/ ConfirmSshImport

WorkspaceNext ==
  \/ Edit \/ Transfer
  \/ SaveSucceeds \/ SaveFails \/ SavePruneFails \/ SaveAnswered
  \/ CloseWindow \/ show_main_window \/ Restart

WorkspaceSpec == WorkspaceInit /\ [][WorkspaceNext]_wvars

-----------------------------------------------------------------------------
(* Properties.                                                             *)

\* A configuration with the home directory put in.
Expanded(config) ==
  [config EXCEPT !.hosts = Map(@, LAMBDA host :
     [host EXCEPT !.auth.key_path = Map(@, expand_home)])]

\* The configuration that the file was written from.
Stored == IF unreported = <<>> THEN running ELSE unreported[1]

(***************************************************************************)
(* Whatever is edited, moved, deleted or imported, in whatever order, the  *)
(* window sends no configuration the store would refuse, although it       *)
(* checks only some of them, unless it has one group too many; the file    *)
(* can always be loaded; and what the next start will load is what the     *)
(* manager works with, or what it was sent by the last save whose error    *)
(* came after the rename, except that a key path entered with ~ is not     *)
(* expanded before then.  schema.rs:173-174, store.rs:111-136,             *)
(* manager.rs:360-363, workspace.rs:344-418.                               *)
(***************************************************************************)
SavedIsUsable ==
  /\ \A i \in DOMAIN requests :
       \/ Accepted(requests[i].config)
       \/ /\ Len(requests[i].config.groups) = MaxGroups + 1
          /\ Accepted([requests[i].config EXCEPT !.groups = SubSeq(@, 1, MaxGroups)])
  /\ Loads(file)
  /\ into_domain(file) = Expanded(Stored)

(***************************************************************************)
(* A change is made to the configuration the manager has.  The window's    *)
(* copy differs from it only between the manager's Ok and its arrival in   *)
(* the window, when no button works, or if the window was opened while a   *)
(* save of an earlier window was under way: then the next change takes     *)
(* that save back.  workspace.rs:497-505, main.rs:306-312.                 *)
(***************************************************************************)
ViewIsCurrent ==
  window = "open" /\ ~overtaken /\ startup # running =>
    saving /\ answer = "Ok" /\ candidate = <<running>>

\* The file systems whose every line is read once, and what those say that the
\* importer should understand.
ReadInFull == {fs \in FileSystems : LinesAreRead(fs, "config")}
Expected ==
  {[source |-> fs, said |-> Said(fs, "config")] : fs \in {f \in FileSystems : SameMeaning(f, "config")}}

\* The hosts there were are left as they are, and each new one has an id and a
\* name no other has.
OnlyAdds(merged, hosts) ==
  /\ SubSeq(merged, 1, Len(hosts)) = hosts
  /\ DistinctIds(merged)
  /\ \A n \in (Len(hosts) + 1)..Len(merged) :
       \A k \in DOMAIN merged \ {n} : merged[k].name # merged[n].name

(***************************************************************************)
(* A preview of an OpenSSH configuration says what the files say.  Every   *)
(* line of every file is read once, whatever includes what.  The preview   *)
(* names the aliases of the files, and gives each the first value under a  *)
(* Host that matches, or the default (ssh_import.rs:362,                   *)
(* "preview_includes_first_wins"), for files whose Host lines the importer *)
(* can tell apart (SameMeaning): it forgets where an included file ends    *)
(* (ssh_import.rs:246-306).  Adding the selected hosts leaves those there  *)
(* are, and gives each new one an id and a name no other has, even if the  *)
(* names it is offered look like renamed ones.  workspace.rs:650-680.      *)
(***************************************************************************)
PreviewIsFaithful ==
  \A i \in DOMAIN ssh_preview :
    LET preview == ssh_preview[i]
    IN /\ preview.source \in ReadInFull
       /\ \A expected \in Expected :
            expected.source = preview.source => PreviewAgrees(expected.said, preview.hosts)
       /\ OnlyAdds(AddSelected(startup.hosts, preview), startup.hosts)

(***************************************************************************)
(* The wait before an attempt, for every policy in use: with the same      *)
(* jitter it never shrinks as attempts fail, with any it stays below twice *)
(* max_delay for ever, and it is zero only if the policy asks for less     *)
(* than a millisecond or for 100 % of jitter.  retry.rs:15-29.             *)
(***************************************************************************)
BackoffIsBounded ==
  \A i \in DOMAIN running.tunnels, attempt \in 0..7, jitter \in {-128, -20, 0, 127} :
    DelayIsBounded(running.tunnels[i].reconnect, attempt, jitter)
=============================================================================
