------------------------------ MODULE ToolStores ------------------------------
(***************************************************************************)
(* The files behind the tools and what is loaded from them: the manifest   *)
(* of installed Tool Spaces (tool_spaces.py), the tool overrides of the    *)
(* profiles (profile_toolsets.py), the profile documents (profile_store.py,*)
(* personality.py), the startup choice (startup_settings.py) and the       *)
(* registry of tools (tools/core_tools.py), with the routes, the command   *)
(* line and the start of the program that change them.                     *)
(*                                                                         *)
(* A request runs in steps: legs on the server's loop, legs on threads,    *)
(* and, for a personality, a leg on the conversation loop.  Locks are      *)
(* those of the code; "server" and "conversation" stand for the two loops, *)
(* held by whoever runs on them without an await.  Reads and writes of one *)
(* file are one step: the code writes a copy and renames it.  Only the     *)
(* startup settings are written in place: failing, that may leave a file   *)
(* that reads as if no profile were in it.                                 *)
(*                                                                         *)
(* A tool name is a member of Core or of Remote; the part of a remote      *)
(* tool's name before "__" is its Prefix.                                  *)
(***************************************************************************)
EXTENDS Naturals

CONSTANTS
  Requests,      \* slots for requests in progress
  Asked,         \* the requests that may be made: a subset of Operations
  Profiles, Default, Pinned,  \* the bundled default and the one a locked build pins
  Initially,     \* what an earlier run may leave: default_tools of each document,
                 \* or None, and the startup choice
  Spaces, Aliases, Alias,     \* slugs and the alias of each
  Remote, Prefix,             \* names of remote tools and the alias in each
  Core,          \* names of built-in tools
  Preinstalled,  \* the spaces of a program without a manifest
  None, NoFile, Free,
  MaxRequests, MaxFaults, MaxCrashes  \* bounds

Tools == Core \cup Remote

\* For each profile or space, the names listed for it, or None.
Lists(keys, names) == [keys -> {None} \cup SUBSET names]

Kinds == {"add", "remove", "save", "reset", "author", "delete", "apply", "voice", "use",
          "start", "cliAdd", "cliRemove"}
Operations == [kind : Kinds, space : Spaces, profile : Profiles, tools : SUBSET Tools,
               opts : SUBSET {"persist", "force", "tools", "overwrite"}]

LockNames == {"manifest", "toolsets", "registry", "server", "conversation"}

Steps == {"idle", "resolve", "lock", "lock2", "change", "disable", "write", "committed",
          "restore", "restored", "refused", "lost", "after", "inspect",
          "known", "current", "defaults", "catalog", "override", "clear",
          "author", "exists", "document", "unauthor", "delete", "rmtree", "clearDeleted",
          "compare", "set", "undo", "applied", "readVoice", "writeVoice",
          "load", "initialize", "fallback", "reload", "names", "build"}

ASSUME StoresAssumption ==
  /\ Default \in Profiles /\ Pinned \in Profiles
  /\ Initially \subseteq [defined : Lists(Profiles, Tools), startup : Profiles \cup {NoFile}]
  /\ \A i \in Initially : i.defined[Default] # None
  /\ Spaces # {}
  /\ Alias \in [Spaces -> Aliases] /\ Prefix \in [Remote -> Aliases]
  /\ Preinstalled \in Lists(Spaces, Remote)
  /\ \A s \in Spaces : Preinstalled[s] # None => \A t \in Preinstalled[s] : Prefix[t] = Alias[s]
  /\ Asked \subseteq Operations
  /\ \A o \in Asked : o.kind = "author" => o.profile # Default
  /\ Free \notin Requests
ASSUME NothingAssumption ==
  /\ \A ts \in SUBSET Tools : None # ts
  /\ None \notin Profiles /\ NoFile \notin Profiles
  /\ \A l \in Lists(Spaces, Remote) : NoFile # l
  /\ \A l \in Lists(Profiles, Tools) : NoFile # l
ASSUME BoundsAssumption == MaxRequests \in Nat /\ MaxFaults \in Nat /\ MaxCrashes \in Nat

VARIABLES
  locked,    \* LOCKED_PROFILE is set in this build
  manifest,  \* installed_tool_spaces.json: the tools of each installed space
  toolsets,  \* profile_toolsets.json: the override of each profile
  defined,   \* default_tools of each profile.md
  startup,   \* startup_settings.json: the profile in it
  main,      \* the program: "down", "starting", "up" or "refused" (exit code 1)
  active,    \* config.REACHY_MINI_CUSTOM_PROFILE
  choice,    \* PersonalityOps._startup_choice
  served,    \* _TOOLS_SIGNATURE's profile (None before the first load) and ALL_TOOLS
  locks,     \* who holds each lock
  pc, op,    \* the step each request takes next, and what it was asked
  mem,       \* its local variables
  stale,     \* history: profiles whose settings changed without a reason to reload
  made, faults, crashes,  \* counters for the bounds
  faultsBefore  \* history: faults when the program was last started

files == <<manifest, toolsets, defined, startup>>
process == <<main, active, choice, served, stale>>
requests == <<op, made>>
limits == <<locked, crashes, faultsBefore>>
vars == <<files, process, locks, pc, mem, requests, faults, limits>>

Blank == [manifest |-> NoFile, toolsets |-> NoFile, tools |-> {}, profile |-> Default,
          previous |-> Default, hit |-> {}]

TypeOK ==
  /\ locked \in BOOLEAN
  /\ manifest \in {NoFile} \cup Lists(Spaces, Remote)
  /\ toolsets \in {NoFile} \cup Lists(Profiles, Tools)
  /\ defined \in Lists(Profiles, Tools) /\ defined[Default] # None
  /\ startup \in Profiles \cup {NoFile}
  /\ main \in {"down", "starting", "up", "refused"}
  /\ active \in Profiles
  /\ choice \in Profiles
  /\ served \in [profile : Profiles \cup {None}, tools : SUBSET Tools]
  /\ locks \in [LockNames -> Requests \cup {Free}]
  /\ pc \in [Requests -> Steps]
  /\ op \in [Requests -> Operations]
  /\ mem \in [Requests -> [manifest : {NoFile} \cup Lists(Spaces, Remote),
                           toolsets : {NoFile} \cup Lists(Profiles, Tools),
                           tools : SUBSET Tools, profile : Profiles,
                           previous : Profiles, hit : SUBSET Profiles]]
  /\ stale \in SUBSET Profiles
  /\ made \in 0..MaxRequests /\ faults \in 0..MaxFaults /\ crashes \in 0..MaxCrashes
  /\ faultsBefore \in 0..MaxFaults

NoOp == [kind |-> "use", space |-> CHOOSE s \in Spaces : TRUE, profile |-> Default,
         tools |-> {}, opts |-> {}]
Unloaded == [profile |-> None, tools |-> {}]

Init ==
  /\ manifest = NoFile /\ toolsets = NoFile
  /\ \E i \in Initially : defined = i.defined /\ startup = i.startup
  /\ locked \in {b \in BOOLEAN : b => defined[Pinned] # None}
  /\ main = "down" /\ active = Default /\ choice = Default /\ served = Unloaded
  /\ locks = [l \in LockNames |-> Free]
  /\ pc = [r \in Requests |-> "idle"]
  /\ op = [r \in Requests |-> NoOp]
  /\ mem = [r \in Requests |-> Blank]
  /\ stale = {}
  /\ made = 0 /\ faults = 0 /\ crashes = 0 /\ faultsBefore = 0

-----------------------------------------------------------------------------
(* What the files say *)

\* read_installed_tool_spaces: without a file, the bundled Spaces.
Installed == IF manifest = NoFile THEN Preinstalled ELSE manifest

\* read_profile_toolsets
Overrides == IF toolsets = NoFile THEN [p \in Profiles |-> None] ELSE toolsets

\* read_profile_tool_names: the override, or else the document's default_tools.
Effective(p) == IF Overrides[p] # None THEN Overrides[p] ELSE defined[p]
Readable(p) == Effective(p) # None

\* The override of one profile dropped; the file goes with the last one.
Without(p) ==
  LET rest == [Overrides EXCEPT ![p] = None]
  IN IF \A q \in Profiles : rest[q] = None THEN NoFile ELSE rest

ToolsOf(s) == {t \in Remote : Prefix[t] = Alias[s]}

InstalledTools == {t \in Remote : \E s \in Spaces : Installed[s] # None /\ t \in Installed[s]}

\* available_tool_catalog
Catalog == Core \cup InstalledTools

\* _resolve_remote_tools and _load_enabled_tools: names nothing provides are skipped.
Loadable(names) == names \cap (Core \cup InstalledTools)

\* PersonalityOps._startup_choice_value
StartupChoice == IF startup \notin {NoFile, Default} THEN startup ELSE choice

-----------------------------------------------------------------------------
(* Steps, locks and failures *)

Goto(r, step) ==
  /\ pc' = [pc EXCEPT ![r] = step]
  /\ UNCHANGED <<mem, op>>

GotoWith(r, step, m) ==
  /\ pc' = [pc EXCEPT ![r] = step]
  /\ mem' = [mem EXCEPT ![r] = m]
  /\ UNCHANGED op

End(r) ==
  /\ pc' = [pc EXCEPT ![r] = "idle"]
  /\ mem' = [mem EXCEPT ![r] = Blank]
  /\ op' = [op EXCEPT ![r] = NoOp]

Available(r, l) == locks[l] \in {Free, r}
Hold(r, ls) ==
  /\ \A l \in ls : locks[l] = Free
  /\ locks' = [l \in LockNames |-> IF l \in ls THEN r ELSE locks[l]]
Release(r, ls) == locks' = [l \in LockNames |-> IF l \in ls THEN Free ELSE locks[l]]

\* A read or a write fails: OSError, a full disk, a file somebody broke.
Fault == faults < MaxFaults /\ faults' = faults + 1
Works == UNCHANGED faults
FailsIf(condition) == (condition /\ Works) \/ Fault

\* A personality is being applied: the active profile may still be set back.
Swapping == \E r \in Requests : locks["conversation"] = r /\ op[r].kind = "apply"

-----------------------------------------------------------------------------
(* Requests *)

Down == main \in {"down", "refused"}
Resting == \A r \in Requests : pc[r] = "idle"

\* Routes refuse every change while a profile is pinned.  The command line is
\* a process of its own; it is taken to run while the program does not.
Admitted(kind) ==
  \/ kind \in {"start", "cliAdd", "cliRemove"} /\ Down /\ Resting
  \/ kind \in {"add", "remove", "save", "reset", "author", "delete", "apply"} /\ ~Down /\ ~locked
  \/ kind \in {"voice", "use"} /\ main = "up"

First(kind) ==
  CASE kind \in {"add", "cliAdd"} -> "resolve"
    [] kind \in {"remove", "cliRemove"} -> "lock"
    [] kind \in {"save", "reset"} -> "known"
    [] kind \in {"author", "delete"} -> kind
    [] kind = "apply" -> "compare"
    [] kind = "voice" -> "readVoice"
    [] kind = "use" -> "initialize"
    [] kind = "start" -> "load"

Ask(r, o) ==
  /\ pc[r] = "idle" /\ made < MaxRequests /\ Admitted(o.kind)
  /\ pc' = [pc EXCEPT ![r] = First(o.kind)]
  /\ op' = [op EXCEPT ![r] = o]
  /\ made' = made + 1
  /\ UNCHANGED <<files, process, locks, mem, faults, limits>>

-----------------------------------------------------------------------------
(* install_tool_space and remove_tool_space *)

\* The Space is looked up, and its tools are discovered, before any lock.
Resolve(r) ==
  /\ pc[r] = "resolve" /\ Works
  /\ \/ End(r)
     \/ /\ op[r].kind = "cliAdd" => Readable(op[r].profile)
        /\ \E ts \in SUBSET ToolsOf(op[r].space) :
             GotoWith(r, "lock", [mem[r] EXCEPT !.tools = ts])
  /\ UNCHANGED <<files, process, locks, made, limits>>

LockManifest(r) ==
  /\ pc[r] = "lock" /\ Hold(r, {"manifest"})
  /\ Goto(r, "lock2")
  /\ UNCHANGED <<files, process, made, faults, limits>>

LockToolsets(r) ==
  /\ pc[r] = "lock2" /\ Hold(r, {"toolsets"})
  /\ GotoWith(r, "change", [mem[r] EXCEPT !.manifest = manifest, !.toolsets = toolsets])
  /\ UNCHANGED <<files, process, made, faults, limits>>

AliasTaken(s) == \E q \in Spaces \ {s} : Installed[q] # None /\ Alias[q] = Alias[s]

\* The update is computed; the command line's add enables the tools it found, and
\* fails if the profile cannot be read any more.
ChangeAdd(r) ==
  LET p == op[r].profile
      refused == AliasTaken(op[r].space) \/ (op[r].kind = "cliAdd" /\ ~Readable(p))
  IN /\ pc[r] = "change" /\ op[r].kind \in {"add", "cliAdd"}
     /\ \/ FailsIf(refused) /\ Goto(r, "refused") /\ UNCHANGED toolsets
        \/ /\ ~refused /\ Works
           /\ toolsets' = IF op[r].kind = "add" \/ mem[r].tools \subseteq Effective(p) THEN toolsets
                          ELSE [Overrides EXCEPT ![p] = Effective(p) \cup mem[r].tools]
           /\ Goto(r, "write")
     /\ UNCHANGED <<manifest, defined, startup, process, locks, made, limits>>

\* The profiles are listed: those with a document, and those with an override.
ChangeRemove(r) ==
  /\ pc[r] = "change" /\ op[r].kind \in {"remove", "cliRemove"}
  /\ \/ FailsIf(Installed[op[r].space] = None) /\ Goto(r, "refused")
     \/ /\ Installed[op[r].space] # None /\ Works
        /\ GotoWith(r, "disable", [mem[r] EXCEPT !.hit = {p \in Profiles : Readable(p)}])
  /\ UNCHANGED <<files, process, locks, made, limits>>

\* Mutant: only overrides are searched for the tools, not the documents.
DisableOverrides(r) ==
  LET gone == ToolsOf(op[r].space)
      hit == {p \in mem[r].hit : Overrides[p] # None /\ Overrides[p] \cap gone # {}}
  IN /\ pc[r] = "disable" /\ Works
     /\ toolsets' = IF hit = {} THEN toolsets
                    ELSE [p \in Profiles |-> IF p \in hit THEN Overrides[p] \ gone ELSE Overrides[p]]
     /\ GotoWith(r, "write", [mem[r] EXCEPT !.hit = hit])
     /\ UNCHANGED <<manifest, defined, startup, process, locks, made, limits>>

\* disable_profile_tools_by_prefix: a listed profile deleted since is an error.
Disable(r) ==
  LET gone == ToolsOf(op[r].space)
      hit == {p \in mem[r].hit : Effective(p) \cap gone # {}}
  IN /\ pc[r] = "disable"
     /\ \/ /\ FailsIf(\E p \in mem[r].hit : ~Readable(p))
           /\ Goto(r, "refused")
           /\ UNCHANGED toolsets
        \/ /\ \A p \in mem[r].hit : Readable(p)
           /\ Works
           /\ toolsets' = IF hit = {} THEN toolsets
                          ELSE [p \in Profiles |-> IF p \in hit THEN Effective(p) \ gone ELSE Overrides[p]]
           /\ GotoWith(r, "write", [mem[r] EXCEPT !.hit = hit])
     /\ UNCHANGED <<manifest, defined, startup, process, locks, made, limits>>

\* write_installed_tool_spaces; the RPC add has enabled nothing, so nothing is restored.
WriteManifest(r) ==
  /\ pc[r] = "write"
  /\ \/ /\ Works
        /\ manifest' = [Installed EXCEPT ![op[r].space] =
                          IF op[r].kind \in {"add", "cliAdd"} THEN mem[r].tools ELSE None]
        /\ Goto(r, "committed")
     \/ /\ Fault /\ UNCHANGED manifest
        /\ Goto(r, IF op[r].kind = "add" THEN "restored" ELSE "restore")
  /\ UNCHANGED <<toolsets, defined, startup, process, locks, made, limits>>

\* Mutant: the settings file is written back even if there was none.
RestoreAlwaysWrites(r) ==
  /\ pc[r] = "restore"
  /\ \/ /\ Works /\ Goto(r, "restored")
        /\ toolsets' = IF mem[r].toolsets = NoFile THEN [p \in Profiles |-> None] ELSE mem[r].toolsets
     \/ Fault /\ Goto(r, "lost") /\ UNCHANGED toolsets
  /\ UNCHANGED <<manifest, defined, startup, process, locks, made, limits>>

\* _restore_profile_toolsets
Restore(r) ==
  /\ pc[r] = "restore"
  /\ \/ Works /\ toolsets' = mem[r].toolsets /\ Goto(r, "restored")
     \/ Fault /\ UNCHANGED toolsets /\ Goto(r, "lost")
  /\ UNCHANGED <<manifest, defined, startup, process, locks, made, limits>>

\* Mutant: the locks are kept while the tools are loaded again.
UnlockAfterReload(r) ==
  LET reloads == pc[r] = "committed" /\ op[r].kind \in {"add", "remove"}
  IN /\ pc[r] \in {"committed", "restored", "refused", "lost"}
     /\ IF reloads THEN Goto(r, "after") /\ UNCHANGED locks
        ELSE End(r) /\ Release(r, {"manifest", "toolsets"})
     /\ UNCHANGED <<files, process, made, faults, limits>>

Unlock(r) ==
  /\ pc[r] \in {"committed", "restored", "refused", "lost"}
  /\ Release(r, {"manifest", "toolsets"})
  /\ IF pc[r] = "committed" /\ op[r].kind \in {"add", "remove"} THEN Goto(r, "after") ELSE End(r)
  /\ stale' = IF pc[r] = "lost" THEN Profiles ELSE stale
  /\ UNCHANGED <<files, main, active, choice, served, made, faults, limits>>

-----------------------------------------------------------------------------
(* After a change: does it concern the active profile? *)

\* The active profile was read; another one may be back in a moment.
Doubt == stale' = IF Swapping THEN Profiles ELSE stale

\* Mutant: the startup choice is taken for the active profile.
AfterByChoice(r) ==
  /\ pc[r] = "after" /\ locks["server"] = Free
  /\ \/ op[r].kind = "add" /\ GotoWith(r, "inspect", [mem[r] EXCEPT !.profile = choice])
     \/ op[r].kind # "add" /\ IF choice \in mem[r].hit THEN Goto(r, "reload") ELSE End(r)
  /\ Doubt
  /\ UNCHANGED <<files, main, active, choice, served, locks, made, faults, limits>>

After(r) ==
  /\ pc[r] = "after" /\ locks["server"] = Free
  /\ \/ op[r].kind = "add" /\ GotoWith(r, "inspect", [mem[r] EXCEPT !.profile = active])
     \/ op[r].kind # "add" /\ IF active \in mem[r].hit THEN Goto(r, "reload") ELSE End(r)
  /\ Doubt
  /\ UNCHANGED <<files, main, active, choice, served, locks, made, faults, limits>>

\* The add looks for tools of the Space in the profile it read as active; a
\* profile it cannot read is logged and counts as having none.
Inspect(r) ==
  LET p == mem[r].profile
  IN /\ pc[r] = "inspect" /\ Available(r, "toolsets")
     /\ \/ FailsIf(~Readable(p)) /\ End(r) /\ stale' = Profiles
        \/ /\ Readable(p) /\ Works
           /\ IF Effective(p) \cap ToolsOf(op[r].space) # {} THEN Goto(r, "reload") ELSE End(r)
           /\ UNCHANGED stale
     /\ UNCHANGED <<files, main, active, choice, served, locks, made, limits>>

-----------------------------------------------------------------------------
(* profile_tools.save and profile_tools.reset: one thread leg after another *)

Known(r) ==
  /\ pc[r] = "known"
  /\ IF defined[op[r].profile] = None THEN End(r)
     ELSE Goto(r, IF op[r].kind = "save" THEN "current" ELSE "defaults")
  /\ UNCHANGED <<files, process, locks, made, faults, limits>>

Current(r) ==
  LET own == Overrides[op[r].profile]
  IN /\ pc[r] = "current" /\ Available(r, "toolsets")
     /\ \/ Fault /\ End(r)
        \/ Works /\ GotoWith(r, "defaults", IF own = None THEN mem[r]
                                            ELSE [mem[r] EXCEPT !.tools = own, !.hit = {op[r].profile}])
     /\ UNCHANGED <<files, process, locks, made, limits>>

Defaults(r) ==
  LET authored == defined[op[r].profile]
  IN /\ pc[r] = "defaults"
     /\ \/ FailsIf(authored = None) /\ End(r)
        \/ /\ authored # None /\ Works
           /\ GotoWith(r, "catalog", IF mem[r].hit # {} THEN mem[r]
                                     ELSE [mem[r] EXCEPT !.tools = authored])
     /\ UNCHANGED <<files, process, locks, made, limits>>

\* Names outside the catalog are accepted only if they were enabled before.
ReadCatalog(r) ==
  /\ pc[r] = "catalog" /\ Available(r, "manifest")
  /\ \E shown \in {Catalog, Core} :
       /\ IF shown = Catalog THEN Works ELSE Fault
       /\ IF op[r].kind = "reset" THEN GotoWith(r, "clear", [mem[r] EXCEPT !.hit = {}])
          ELSE IF op[r].tools \subseteq shown \cup mem[r].tools
               THEN GotoWith(r, "override", [mem[r] EXCEPT !.hit = {op[r].profile}])
               ELSE End(r)
  /\ UNCHANGED <<files, process, locks, made, limits>>

\* write_profile_tool_override
WriteOverride(r) ==
  /\ pc[r] = "override" /\ Available(r, "toolsets")
  /\ \/ Fault /\ End(r) /\ UNCHANGED toolsets
     \/ /\ Works
        /\ toolsets' = [Overrides EXCEPT ![op[r].profile] = op[r].tools]
        /\ Goto(r, "after")
  /\ UNCHANGED <<manifest, defined, startup, process, locks, made, limits>>

\* clear_profile_tool_override
ClearOverride(r) ==
  LET p == op[r].profile
  IN /\ pc[r] = "clear" /\ Available(r, "toolsets")
     /\ \/ Fault /\ End(r) /\ UNCHANGED toolsets
        \/ Works /\ Overrides[p] = None /\ Goto(r, "after") /\ UNCHANGED toolsets
        \/ /\ Works /\ Overrides[p] # None
           /\ toolsets' = Without(p)
           /\ GotoWith(r, "after", [mem[r] EXCEPT !.hit = {p}])
     /\ UNCHANGED <<manifest, defined, startup, process, locks, made, limits>>

-----------------------------------------------------------------------------
(* PersonalityOps.save and delete, which run on the server's loop throughout *)

Author(r) ==
  /\ pc[r] = "author" /\ Hold(r, {"server"})
  /\ Goto(r, "exists")
  /\ UNCHANGED <<files, process, made, faults, limits>>

\* save_user_personality: authored tools take the place of an override.
AuthorClears(r) ==
  LET p == op[r].profile
  IN /\ pc[r] = "exists" /\ locks["toolsets"] = Free
     /\ \/ /\ FailsIf(defined[p] # None /\ "overwrite" \notin op[r].opts)
           /\ End(r) /\ Release(r, {"server"})
           /\ UNCHANGED <<toolsets, stale>>
        \/ /\ defined[p] = None \/ "overwrite" \in op[r].opts
           /\ Works
           /\ toolsets' = IF "tools" \in op[r].opts /\ Overrides[p] # None THEN Without(p) ELSE toolsets
           /\ locks' = [locks EXCEPT !["toolsets"] = r]
           /\ stale' = stale \cup {p}
           /\ GotoWith(r, "document", [mem[r] EXCEPT !.toolsets = toolsets])
     /\ UNCHANGED <<manifest, defined, startup, main, active, choice, served, made, limits>>

\* write_profile; without authored tools the document keeps its own, or takes
\* those of the bundled default.
WriteDocument(r) ==
  LET p == op[r].profile
      names == IF "tools" \in op[r].opts THEN op[r].tools
               ELSE IF defined[p] # None THEN defined[p] ELSE defined[Default]
  IN /\ pc[r] = "document"
     /\ \/ /\ Works /\ defined' = [defined EXCEPT ![p] = names]
           /\ End(r) /\ Release(r, {"server", "toolsets"})
        \/ Fault /\ Goto(r, "unauthor") /\ UNCHANGED <<defined, locks>>
     /\ UNCHANGED <<manifest, toolsets, startup, process, made, limits>>

Unauthor(r) ==
  /\ pc[r] = "unauthor"
  /\ \/ Works /\ toolsets' = mem[r].toolsets
     \/ Fault /\ UNCHANGED toolsets
  /\ End(r) /\ Release(r, {"server", "toolsets"})
  /\ UNCHANGED <<manifest, defined, startup, process, made, limits>>

\* Mutant: the bundled default profile can be deleted too.
DeleteAny(r) ==
  LET p == op[r].profile
  IN /\ pc[r] = "delete" /\ locks["server"] = Free
     /\ IF p \in {active, StartupChoice} \/ defined[p] = None
        THEN End(r) /\ UNCHANGED locks
        ELSE Goto(r, "rmtree") /\ Hold(r, {"server"})
     /\ UNCHANGED <<files, process, made, faults, limits>>

\* delete: refused for the current and the startup personality.
Delete(r) ==
  LET p == op[r].profile
  IN /\ pc[r] = "delete" /\ locks["server"] = Free
     /\ IF p \in {active, StartupChoice} \cup {Default} \/ defined[p] = None
        THEN End(r) /\ UNCHANGED locks
        ELSE Goto(r, "rmtree") /\ Hold(r, {"server"})
     /\ UNCHANGED <<files, process, made, faults, limits>>

\* shutil.rmtree, without any lock of the stores; failing, it may have taken
\* the document with it.
DeleteDocument(r) ==
  LET gone == [defined EXCEPT ![op[r].profile] = None]
  IN
  /\ pc[r] = "rmtree"
  /\ \/ Works /\ defined' = gone /\ Goto(r, "clearDeleted") /\ UNCHANGED locks
     \/ Fault /\ defined' \in {defined, gone} /\ End(r) /\ Release(r, {"server"})
  /\ UNCHANGED <<manifest, toolsets, startup, process, made, limits>>

DeleteOverride(r) ==
  LET p == op[r].profile
  IN /\ pc[r] = "clearDeleted" /\ Available(r, "toolsets")
     /\ \/ Works /\ toolsets' = IF Overrides[p] = None THEN toolsets ELSE Without(p)
        \/ Fault /\ UNCHANGED toolsets
     /\ End(r) /\ Release(r, {"server"})
     /\ UNCHANGED <<manifest, defined, startup, process, made, limits>>

-----------------------------------------------------------------------------
(* PersonalityOps.apply, LocalStream.apply_personality and change_voice *)

\* write_startup_settings
WriteStartup(p) ==
  \/ Works /\ startup' = p
  \/ Fault /\ startup' \in {startup, Default}

\* _persist_if_requested selects the profile again and makes it the startup choice.
Persist(p) ==
  /\ active' = p
  /\ choice' = p
  /\ stale' = IF active = p THEN stale ELSE stale \cup {p}
  /\ WriteStartup(p)
NothingPersisted == Works /\ UNCHANGED <<startup, active, choice, stale>>

\* The current personality is only persisted, in the same stretch of the loop.
Compare(r) ==
  LET p == op[r].profile
      unchanged == p = active /\ "force" \notin op[r].opts
  IN /\ pc[r] = "compare" /\ locks["server"] = Free
     /\ IF ~unchanged /\ main = "up" THEN Goto(r, "set") ELSE End(r)
     /\ IF unchanged /\ "persist" \in op[r].opts THEN Persist(p) ELSE NothingPersisted
     /\ UNCHANGED <<manifest, toolsets, defined, main, served, locks, made, limits>>

SetProfile(r) ==
  /\ pc[r] = "set" /\ Hold(r, {"conversation"})
  /\ active' = op[r].profile
  /\ GotoWith(r, "reload", [mem[r] EXCEPT !.previous = active])
  /\ UNCHANGED <<files, main, choice, served, stale, made, faults, limits>>

\* get_session_instructions raises: no instructions, or an unreadable memory file.
InstructionsFail(r) ==
  /\ pc[r] = "reload" /\ op[r].kind = "apply" /\ Fault
  /\ Goto(r, "undo")
  /\ UNCHANGED <<files, process, locks, made, limits>>

Undo(r) ==
  /\ pc[r] = "undo"
  /\ active' = mem[r].previous
  /\ End(r) /\ Release(r, {"conversation"})
  /\ UNCHANGED <<files, main, choice, served, stale, made, faults, limits>>

\* Applied, back on the server's loop, it is persisted, unless that was not asked
\* for or the wait of ten seconds was over.
Applied(r) ==
  /\ pc[r] = "applied" /\ locks["server"] = Free
  /\ NothingPersisted \/ ("persist" \in op[r].opts /\ Persist(op[r].profile))
  /\ End(r)
  /\ UNCHANGED <<manifest, toolsets, defined, main, served, locks, made, limits>>

\* _persist_voice_override: the startup settings are read, then written with the new voice.
ReadVoice(r) ==
  /\ pc[r] = "readVoice" /\ Hold(r, {"conversation"})
  /\ GotoWith(r, "writeVoice", [mem[r] EXCEPT !.profile = IF startup = NoFile THEN Default ELSE startup])
  /\ UNCHANGED <<files, process, made, faults, limits>>

WriteVoice(r) ==
  /\ pc[r] = "writeVoice"
  /\ WriteStartup(mem[r].profile)
  /\ End(r) /\ Release(r, {"conversation"})
  /\ UNCHANGED <<manifest, toolsets, defined, process, made, limits>>

-----------------------------------------------------------------------------
(* initialize_tools *)

\* A tool is dispatched, or the program starts: the tools are loaded unless the
\* profile is the one they were loaded for.
Initialize(r) ==
  LET own == IF op[r].kind = "use" THEN {"registry", "conversation"} ELSE {"registry"}
  IN /\ pc[r] = "initialize" /\ \A l \in own : locks[l] = Free
     /\ IF served.profile = active
        THEN /\ End(r) /\ UNCHANGED locks
             /\ main' = IF op[r].kind = "start" THEN "up" ELSE main
        ELSE /\ Hold(r, own) /\ UNCHANGED main
             /\ GotoWith(r, "names", [mem[r] EXCEPT !.profile = active])
     /\ UNCHANGED <<files, active, choice, served, stale, made, faults, limits>>

\* apply_tool_change and apply_personality load them in any case.
Reload(r) ==
  /\ pc[r] = "reload" /\ Hold(r, {"registry"})
  /\ GotoWith(r, "names", [mem[r] EXCEPT !.profile = active])
  /\ UNCHANGED <<files, process, made, faults, limits>>

\* The loading gives up; what was loaded before stays.
LoadFails(r) ==
  LET kind == op[r].kind
  IN /\ Release(r, {"registry"} \cup IF kind = "use" THEN {"conversation"} ELSE {})
     /\ CASE kind = "apply" -> Goto(r, "undo")
          [] kind = "start" -> Goto(r, "fallback")
          [] OTHER -> End(r)
     /\ stale' = IF Swapping /\ kind # "apply" THEN Profiles ELSE stale \cup {mem[r].profile, active}

\* The active profile is read again for the names.
ReadNames(r) ==
  /\ pc[r] = "names" /\ Available(r, "toolsets")
  /\ \/ FailsIf(~Readable(active)) /\ LoadFails(r)
     \/ /\ Readable(active) /\ Works
        /\ stale' = IF Swapping /\ op[r].kind # "apply" THEN Profiles
                     ELSE IF mem[r].profile = active THEN stale \ {active}
                     ELSE stale \cup {mem[r].profile}
        /\ GotoWith(r, "build", [mem[r] EXCEPT !.tools = Effective(active)])
        /\ UNCHANGED locks
  /\ UNCHANGED <<files, main, active, choice, served, made, limits>>

Build(r) ==
  LET kind == op[r].kind
  IN /\ pc[r] = "build" /\ Available(r, "manifest")
     /\ \/ Fault /\ LoadFails(r) /\ UNCHANGED <<served, main>>
        \/ /\ Works
           /\ served' = [profile |-> mem[r].profile, tools |-> Loadable(mem[r].tools)]
           /\ Release(r, {"registry"} \cup IF kind \in {"use", "apply"} THEN {"conversation"} ELSE {})
           /\ IF kind = "apply" THEN Goto(r, "applied") ELSE End(r)
           /\ main' = IF kind = "start" THEN "up" ELSE main
           /\ UNCHANGED stale
     /\ UNCHANGED <<files, active, choice, made, limits>>

-----------------------------------------------------------------------------
(* The program starts, falls back to the default profile, and ends *)

\* load_startup_settings_into_runtime, where a failing read counts as no choice,
\* then the settings server.
Load(r) ==
  /\ pc[r] = "load"
  /\ \E read \in {startup, Default} :
       /\ IF read = startup THEN Works ELSE Fault
       /\ active' = IF locked THEN Pinned ELSE IF read = NoFile THEN Default ELSE read
  /\ choice' = IF startup \notin {NoFile, Default} THEN startup ELSE active'
  /\ main' = "starting"
  /\ faultsBefore' = faults
  /\ Goto(r, "initialize")
  /\ UNCHANGED <<files, served, stale, locks, made, locked, crashes>>

\* The process is gone, with its requests, locks and memory.
Ends ==
  /\ pc' = [r \in Requests |-> "idle"]
  /\ mem' = [r \in Requests |-> Blank]
  /\ op' = [r \in Requests |-> NoOp]
  /\ locks' = [l \in LockNames |-> Free]
  /\ active' = Default /\ choice' = Default /\ served' = Unloaded /\ stale' = {}
  /\ UNCHANGED <<files, made, faults, locked, faultsBefore>>

\* Mutant: the fallback loads the profile that failed once more.
FallbackKeepsProfile(r) ==
  /\ pc[r] = "fallback"
  /\ IF active = Default \/ locked \/ mem[r].hit # {}
     THEN Ends /\ main' = "refused" /\ UNCHANGED crashes
     ELSE /\ GotoWith(r, "reload", [mem[r] EXCEPT !.hit = {Default}])
          /\ UNCHANGED <<files, process, locks, made, faults, limits>>

\* initialize_tools_with_default_fallback
Fallback(r) ==
  /\ pc[r] = "fallback"
  /\ IF active = Default \/ locked
     THEN Ends /\ main' = "refused" /\ UNCHANGED crashes
     ELSE /\ active' = Default
          /\ Goto(r, "reload")
          /\ UNCHANGED <<files, main, choice, served, stale, locks, made, faults, limits>>

\* Killed, switched off or stopped, between any two steps.
Crash ==
  /\ crashes < MaxCrashes /\ (~Down \/ ~Resting)
  /\ Ends /\ main' = "down" /\ crashes' = crashes + 1

Change(r) == Resolve(r) \/ LockManifest(r) \/ LockToolsets(r) \/ ChangeAdd(r) \/ ChangeRemove(r)
             \/ Disable(r) \/ WriteManifest(r) \/ Restore(r) \/ Unlock(r) \/ After(r) \/ Inspect(r)
Access(r) == Known(r) \/ Current(r) \/ Defaults(r) \/ ReadCatalog(r) \/ WriteOverride(r) \/ ClearOverride(r)
Personality(r) == Author(r) \/ AuthorClears(r) \/ WriteDocument(r) \/ Unauthor(r)
                  \/ Delete(r) \/ DeleteDocument(r) \/ DeleteOverride(r)
Apply(r) == Compare(r) \/ SetProfile(r) \/ InstructionsFail(r) \/ Undo(r) \/ Applied(r)
            \/ ReadVoice(r) \/ WriteVoice(r)
Loading(r) == Load(r) \/ Initialize(r) \/ Reload(r) \/ ReadNames(r) \/ Build(r) \/ Fallback(r)

Next ==
  \/ \E r \in Requests : \E o \in Asked : Ask(r, o)
  \/ \E r \in Requests : Change(r) \/ Access(r) \/ Personality(r) \/ Apply(r) \/ Loading(r)
  \/ Crash

\* Threads and loops run what is ready.
Fairness == \A r \in Requests : WF_vars(Change(r) \/ Access(r) \/ Personality(r) \/ Apply(r) \/ Loading(r))

Spec == Init /\ [][Next]_vars
FairSpec == Spec /\ Fairness

-----------------------------------------------------------------------------
(* Properties *)

\* A request that failed, with no failing roll-back, leaves the manifest and
\* the tool settings as it found them, the absence of a file included
\* (install_tool_space, remove_tool_space).
FailureLeavesFiles ==
  \A r \in Requests :
    pc[r] \in {"restored", "refused"} => manifest = mem[r].manifest /\ toolsets = mem[r].toolsets

\* When the manifest without a Space has been written, and the locks are still
\* held, no profile enables a tool of it, whichever profiles other requests
\* edited, authored or deleted since they were listed
\* (disable_profile_tools_by_prefix before write_installed_tool_spaces).  Later a
\* profile may: a save that looked at the catalog before writes after, a reset
\* goes back to a document; such a name is skipped when the tools are loaded.
RemovedMeansDisabled ==
  \A r \in Requests :
    pc[r] = "committed" /\ op[r].kind \in {"remove", "cliRemove"} =>
      \A p \in Profiles : Readable(p) => Effective(p) \cap ToolsOf(op[r].space) = {}

\* At rest, the tools loaded for the active profile are those its settings and
\* the manifest say, unless the code left them on purpose (stale): every route
\* that changes them reloads, whatever ran beside it.
ServedFollowsStores ==
  Resting /\ served.profile = active /\ active \notin stale /\ Readable(active) =>
    served.tools = Loadable(Effective(active))

\* The program refuses to start only if some read or write has failed since it was
\* started: a startup profile whose document was deleted, or lost in a deletion that
\* failed, falls back to the default one (initialize_tools_with_default_fallback).
OnlyFaultsRefuse == main = "refused" => faults > faultsBefore

\* Every request comes to an end: no two of them wait for each other's locks.
RequestsEnd == \A r \in Requests : (pc[r] # "idle") ~> (pc[r] = "idle")
=============================================================================
