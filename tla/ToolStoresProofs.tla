--------------------------- MODULE ToolStoresProofs ---------------------------
(***************************************************************************)
(* Theorems about ToolStores, for any requests, profiles, Spaces and tools *)
(* and any number of faults and crashes.  A request that installs or       *)
(* removes a Space holds the locks of both stores from its first read to   *)
(* its last write; what it remembers of the files stays true of them, and  *)
(* the tools it disabled stay disabled, because everybody else who writes  *)
(* takes one of these locks, and whoever deletes a document without a lock *)
(* only makes a profile unreadable.                                        *)
(*                                                                         *)
(* The session says which requests there are while the program is down,    *)
(* starting or up: the start is alone, so that nobody deletes the document *)
(* it falls back to, and only a fault can make it refuse.                  *)
(*                                                                         *)
(* Last, what is loaded agrees with the settings in force, which are those *)
(* a change under the lock may still restore, until somebody who changed   *)
(* them, named by Covers and Announces, has reloaded or looked.            *)
(***************************************************************************)
EXTENDS ToolStores, TLAPS

Step(r) == Change(r) \/ Access(r) \/ Personality(r) \/ Apply(r) \/ Loading(r)

Adds == {"add", "cliAdd"}
Removes == {"remove", "cliRemove"}

\* What the steps of a request say of what it was asked and remembers.
Agrees(r) ==
  /\ pc[r] \in {"lock", "lock2", "change", "write"} /\ op[r].kind \in Adds =>
       mem[r].tools \subseteq ToolsOf(op[r].space)
  /\ pc[r] = "disable" => op[r].kind \in Removes
  /\ pc[r] = "rmtree" => op[r].profile # Default
StepsAgree == \A r \in Requests : Agrees(r)

\* Between its first read and its last write a request holds the stores' locks.
Holds(r) ==
  /\ pc[r] \in {"lock2", "change", "disable", "write", "committed", "restore", "restored",
                "refused", "lost"} => locks["manifest"] = r
  /\ pc[r] \in {"change", "disable", "write", "committed", "restore", "restored", "refused",
                "lost", "document", "unauthor"} => locks["toolsets"] = r
HoldsStores == \A r \in Requests : Holds(r)

\* What a request remembers of the files is what they were when it began.
Recalls(r) ==
  /\ pc[r] \in {"change", "disable", "refused", "restored"} =>
       mem[r].manifest = manifest /\ mem[r].toolsets = toolsets
  /\ pc[r] \in {"write", "restore"} => mem[r].manifest = manifest
  /\ pc[r] = "write" /\ op[r].kind = "add" => mem[r].toolsets = toolsets
Remembers == \A r \in Requests : Recalls(r)

\* The profiles listed for a removal are all there are, and none of them enables
\* a tool of the Space once they were gone through.
Disabled(s) == \A p \in Profiles : Readable(p) => Effective(p) \cap ToolsOf(s) = {}
Thorough(r) ==
  /\ pc[r] = "disable" => \A p \in Profiles : Readable(p) => p \in mem[r].hit
  /\ pc[r] \in {"write", "committed"} /\ op[r].kind \in Removes => Disabled(op[r].space)
RemovalIsThorough == \A r \in Requests : Thorough(r)

IInv ==
  /\ TypeOK
  /\ StepsAgree
  /\ HoldsStores
  /\ Remembers
  /\ RemovalIsThorough

-----------------------------------------------------------------------------
(* Type correctness, part by part *)

Memory == [manifest : {NoFile} \cup Lists(Spaces, Remote),
           toolsets : {NoFile} \cup Lists(Profiles, Tools),
           tools : SUBSET Tools, profile : Profiles,
           previous : Profiles, hit : SUBSET Profiles]

FilesOK ==
  /\ manifest \in {NoFile} \cup Lists(Spaces, Remote)
  /\ toolsets \in {NoFile} \cup Lists(Profiles, Tools)
  /\ defined \in Lists(Profiles, Tools) /\ defined[Default] # None
  /\ startup \in Profiles \cup {NoFile}

ProcessOK ==
  /\ main \in {"down", "starting", "up", "refused"}
  /\ active \in Profiles /\ choice \in Profiles
  /\ served \in [profile : Profiles \cup {None}, tools : SUBSET Tools]
  /\ stale \in SUBSET Profiles

ControlOK == pc \in [Requests -> Steps] /\ op \in [Requests -> Operations] /\ mem \in [Requests -> Memory]
LocksOK == locks \in [LockNames -> Requests \cup {Free}]
FaultsOK == faults \in 0..MaxFaults
BoundsOK ==
  /\ locked \in BOOLEAN /\ made \in 0..MaxRequests /\ crashes \in 0..MaxCrashes
  /\ faultsBefore \in 0..MaxFaults

LEMMA TypeParts ==
  TypeOK <=> FilesOK /\ ProcessOK /\ ControlOK /\ LocksOK /\ FaultsOK /\ BoundsOK
BY DEF TypeOK, FilesOK, ProcessOK, ControlOK, LocksOK, FaultsOK, BoundsOK, Memory

LEMMA TypePartsNext ==
  ASSUME FilesOK', ProcessOK', ControlOK', LocksOK', FaultsOK', BoundsOK'
  PROVE  TypeOK'
BY DEF TypeOK, FilesOK, ProcessOK, ControlOK, LocksOK, FaultsOK, BoundsOK, Memory

LEMMA NoOpTypes == NoOp \in Operations
<1>1. (CHOOSE s \in Spaces : TRUE) \in Spaces
  BY StoresAssumption
<1> QED
  BY <1>1, StoresAssumption DEF NoOp, Operations, Kinds

LEMMA BlankTypes == Blank \in Memory
BY StoresAssumption DEF Blank, Memory

LEMMA GotoTypes ==
  ASSUME ControlOK, NEW r \in Requests, NEW step \in Steps, Goto(r, step)
  PROVE  ControlOK'
BY DEF ControlOK, Goto

LEMMA GotoWithTypes ==
  ASSUME ControlOK, NEW r \in Requests, NEW step \in Steps, NEW m \in Memory, GotoWith(r, step, m)
  PROVE  ControlOK'
BY DEF ControlOK, GotoWith

LEMMA EndTypes ==
  ASSUME ControlOK, NEW r \in Requests, End(r)
  PROVE  ControlOK'
<1>1. "idle" \in Steps
  BY DEF Steps
<1> QED
  BY <1>1, NoOpTypes, BlankTypes DEF ControlOK, End

LEMMA LockTypes ==
  ASSUME LocksOK, NEW r \in Requests, NEW ls, Hold(r, ls) \/ Release(r, ls) \/ UNCHANGED locks
  PROVE  LocksOK'
BY DEF LocksOK, Hold, Release

LEMMA FaultTypes ==
  ASSUME FaultsOK, Works \/ Fault
  PROVE  FaultsOK'
BY BoundsAssumption DEF FaultsOK, Works, Fault

\* What the files say.
LEMMA StoreTypes ==
  ASSUME FilesOK
  PROVE  /\ Installed \in Lists(Spaces, Remote)
         /\ Overrides \in Lists(Profiles, Tools)
         /\ \A p \in Profiles : /\ Effective(p) \in {None} \cup SUBSET Tools
                                /\ Readable(p) => Effective(p) \in SUBSET Tools
<1>1. Installed \in Lists(Spaces, Remote)
  BY StoresAssumption DEF FilesOK, Installed
<1>2. Overrides \in Lists(Profiles, Tools)
  BY DEF FilesOK, Overrides, Lists
<1>3. \A p \in Profiles : Effective(p) \in {None} \cup SUBSET Tools
  BY <1>2 DEF FilesOK, Effective, Lists
<1> QED
  BY <1>1, <1>2, <1>3 DEF Readable

LEMMA WithoutTypes ==
  ASSUME FilesOK, NEW p \in Profiles
  PROVE  Without(p) \in {NoFile} \cup Lists(Profiles, Tools)
<1>1. [Overrides EXCEPT ![p] = None] \in Lists(Profiles, Tools)
  BY StoreTypes DEF Lists
<1> QED
  BY <1>1 DEF Without

\* A request is one of the operations, and remembers of the right kind.
LEMMA RequestTypes ==
  ASSUME ControlOK, NEW r \in Requests
  PROVE  op[r] \in Operations /\ mem[r] \in Memory /\ op[r].profile \in Profiles /\ op[r].space \in Spaces
         /\ op[r].tools \in SUBSET Tools
BY DEF ControlOK, Operations

LEMMA ChangeTypes ==
  ASSUME TypeOK, StepsAgree, NEW r \in Requests, Change(r)
  PROVE  TypeOK'
<1>0. /\ FilesOK /\ ProcessOK /\ ControlOK /\ LocksOK /\ FaultsOK /\ BoundsOK
      /\ op[r] \in Operations /\ mem[r] \in Memory /\ op[r].profile \in Profiles /\ op[r].space \in Spaces
  BY TypeParts, RequestTypes
<1>1. BoundsOK'
  BY <1>0 DEF BoundsOK, Change, Resolve, LockManifest, LockToolsets, ChangeAdd, ChangeRemove, Disable,
     WriteManifest, Restore, Unlock, After, Inspect, limits
<1>2. FaultsOK'
  <2>1. Works \/ Fault
    BY DEF Change, Resolve, LockManifest, LockToolsets, ChangeAdd, ChangeRemove, Disable, WriteManifest,
       Restore, Unlock, After, Inspect, FailsIf, Works
  <2> QED
    BY <1>0, <2>1, FaultTypes
<1>3. LocksOK'
  <2>1. UNCHANGED locks \/ \E ls \in SUBSET LockNames : Hold(r, ls) \/ Release(r, ls)
    BY DEF LockNames, Change, Resolve, LockManifest, LockToolsets, ChangeAdd, ChangeRemove, Disable,
       WriteManifest, Restore, Unlock, After, Inspect
  <2> QED
    BY <1>0, <2>1, LockTypes
<1>4. ProcessOK'
  BY <1>0 DEF ProcessOK, Change, Resolve, LockManifest, LockToolsets, ChangeAdd, ChangeRemove, Disable,
     WriteManifest, Restore, Unlock, After, Inspect, Doubt, process
<1>5. FilesOK'
  <2>1. CASE Resolve(r) \/ LockManifest(r) \/ LockToolsets(r) \/ ChangeRemove(r) \/ Unlock(r)
             \/ After(r) \/ Inspect(r)
    BY <1>0, <2>1 DEF FilesOK, Resolve, LockManifest, LockToolsets, ChangeRemove, Unlock, After, Inspect, files
  <2>2. CASE ChangeAdd(r)
    <3>1. toolsets' \in {NoFile} \cup Lists(Profiles, Tools)
      <4>1. CASE toolsets' = toolsets
        BY <1>0, <4>1 DEF FilesOK
      <4>2. CASE toolsets' # toolsets
        <5>1. /\ pc[r] = "change" /\ op[r].kind = "cliAdd" /\ Readable(op[r].profile)
              /\ toolsets' = [Overrides EXCEPT ![op[r].profile] = Effective(op[r].profile) \cup mem[r].tools]
          BY <2>2, <4>2 DEF ChangeAdd
        <5>2. mem[r].tools \subseteq Tools
          BY <1>0 DEF Memory
        <5>3. Effective(op[r].profile) \cup mem[r].tools \in SUBSET Tools
          BY <1>0, <5>1, <5>2, StoreTypes
        <5> QED
          BY <1>0, <5>1, <5>3, StoreTypes DEF Lists
      <4> QED
        BY <4>1, <4>2
    <3> QED
      BY <1>0, <2>2, <3>1 DEF FilesOK, ChangeAdd
  <2>3. CASE Disable(r)
    <3> DEFINE gone == ToolsOf(op[r].space)
               hit == {p \in mem[r].hit : Effective(p) \cap gone # {}}
    <3>1. CASE toolsets' = toolsets
      BY <1>0, <2>3, <3>1 DEF FilesOK, Disable
    <3>2. CASE toolsets' # toolsets
      <4>1. /\ \A p \in mem[r].hit : Readable(p)
            /\ toolsets' = [p \in Profiles |-> IF p \in hit THEN Effective(p) \ gone ELSE Overrides[p]]
        BY <2>3, <3>2 DEF Disable
      <4>2. ASSUME NEW p \in Profiles
            PROVE  (IF p \in hit THEN Effective(p) \ gone ELSE Overrides[p]) \in {None} \cup SUBSET Tools
        BY <1>0, <4>1, StoreTypes DEF Lists
      <4>3. toolsets' \in Lists(Profiles, Tools)
        BY <4>1, <4>2 DEF Lists
      <4> QED
        BY <1>0, <2>3, <4>3 DEF FilesOK, Disable
    <3> QED
      BY <3>1, <3>2
  <2>4. CASE WriteManifest(r)
    <3>1. op[r].kind \in Adds => mem[r].tools \in SUBSET Remote
      BY <2>4 DEF WriteManifest, StepsAgree, Agrees, ToolsOf
    <3>2. [Installed EXCEPT ![op[r].space] = IF op[r].kind \in {"add", "cliAdd"} THEN mem[r].tools ELSE None]
            \in Lists(Spaces, Remote)
      BY <1>0, <3>1, StoreTypes DEF Lists, Adds
    <3> QED
      BY <1>0, <2>4, <3>2 DEF FilesOK, WriteManifest
  <2>5. CASE Restore(r)
    BY <1>0, <2>5 DEF FilesOK, Restore, Memory
  <2> QED
    BY <2>1, <2>2, <2>3, <2>4, <2>5 DEF Change
<1>6. ControlOK'
  <2>1. CASE End(r)
    BY <1>0, <2>1, EndTypes
  <2>2. CASE \E step \in Steps : Goto(r, step)
    BY <1>0, <2>2, GotoTypes
  <2>3. CASE \E step \in Steps, m \in Memory : GotoWith(r, step, m)
    BY <1>0, <2>3, GotoWithTypes
  <2>4. CASE Resolve(r)
    <3>1. \A ts \in SUBSET ToolsOf(op[r].space) : [mem[r] EXCEPT !.tools = ts] \in Memory
      BY <1>0 DEF ToolsOf, Tools, Memory
    <3>2. "lock" \in Steps
      BY DEF Steps
    <3> QED
      BY <2>1, <2>3, <2>4, <3>1, <3>2 DEF Resolve
  <2>5. CASE LockManifest(r) \/ ChangeAdd(r) \/ WriteManifest(r) \/ Restore(r) \/ Unlock(r)
    BY <2>1, <2>2, <2>5 DEF LockManifest, ChangeAdd, WriteManifest, Restore, Unlock, Steps
  <2>6. CASE LockToolsets(r)
    <3>1. [mem[r] EXCEPT !.manifest = manifest, !.toolsets = toolsets] \in Memory
      BY <1>0 DEF FilesOK, Memory
    <3> QED
      BY <2>3, <2>6, <3>1 DEF LockToolsets, Steps
  <2>7. CASE ChangeRemove(r)
    <3>1. [mem[r] EXCEPT !.hit = {p \in Profiles : Readable(p)}] \in Memory
      BY <1>0 DEF Memory
    <3> QED
      BY <2>2, <2>3, <2>7, <3>1 DEF ChangeRemove, Steps
  <2>8. CASE Disable(r)
    <3>1. [mem[r] EXCEPT !.hit = {p \in mem[r].hit : Effective(p) \cap ToolsOf(op[r].space) # {}}] \in Memory
      BY <1>0 DEF Memory
    <3> QED
      BY <2>2, <2>3, <2>8, <3>1 DEF Disable, Steps
  <2>9. CASE After(r)
    <3>1. [mem[r] EXCEPT !.profile = active] \in Memory
      BY <1>0 DEF ProcessOK, Memory
    <3> QED
      BY <2>1, <2>2, <2>3, <2>9, <3>1 DEF After, Steps
  <2>10. CASE Inspect(r)
    BY <2>1, <2>2, <2>10 DEF Inspect, Steps
  <2> QED
    BY <2>4, <2>5, <2>6, <2>7, <2>8, <2>9, <2>10 DEF Change
<1> QED
  BY <1>1, <1>2, <1>3, <1>4, <1>5, <1>6, TypePartsNext

LEMMA AccessTypes ==
  ASSUME TypeOK, NEW r \in Requests, Access(r)
  PROVE  TypeOK'
<1>0. /\ FilesOK /\ ProcessOK /\ ControlOK /\ LocksOK /\ FaultsOK /\ BoundsOK
      /\ mem[r] \in Memory /\ op[r].profile \in Profiles /\ op[r].tools \in SUBSET Tools
  BY TypeParts, RequestTypes
<1>1. BoundsOK' /\ LocksOK' /\ ProcessOK'
  <2>1. UNCHANGED <<process, locks, made, limits>>
    BY DEF Access, Known, Current, Defaults, ReadCatalog, WriteOverride, ClearOverride
  <2> QED
    BY <1>0, <2>1 DEF BoundsOK, LocksOK, ProcessOK, process, limits
<1>2. FaultsOK'
  <2>1. Works \/ Fault
    BY DEF Access, Known, Current, Defaults, ReadCatalog, WriteOverride, ClearOverride, FailsIf, Works
  <2> QED
    BY <1>0, <2>1, FaultTypes
<1>3. FilesOK'
  <2>1. toolsets' \in {NoFile} \cup Lists(Profiles, Tools)
    <3>1. CASE toolsets' = toolsets
      BY <1>0, <3>1 DEF FilesOK
    <3>2. CASE toolsets' = Without(op[r].profile)
      BY <1>0, <3>2, WithoutTypes
    <3>3. CASE toolsets' = [Overrides EXCEPT ![op[r].profile] = op[r].tools]
      BY <1>0, <3>3, StoreTypes DEF Lists
    <3> QED
      BY <3>1, <3>2, <3>3 DEF Access, Known, Current, Defaults, ReadCatalog, WriteOverride, ClearOverride, files
  <2>2. UNCHANGED <<manifest, defined, startup>>
    BY DEF Access, Known, Current, Defaults, ReadCatalog, WriteOverride, ClearOverride, files
  <2> QED
    BY <1>0, <2>1, <2>2 DEF FilesOK
<1>4. ControlOK'
  <2>1. CASE End(r)
    BY <1>0, <2>1, EndTypes
  <2>2. CASE \E step \in Steps : Goto(r, step)
    BY <1>0, <2>2, GotoTypes
  <2>3. CASE \E step \in Steps, m \in Memory : GotoWith(r, step, m)
    BY <1>0, <2>3, GotoWithTypes
  <2>4. CASE Known(r) \/ WriteOverride(r)
    BY <2>1, <2>2, <2>4 DEF Known, WriteOverride, Steps
  <2>5. CASE Current(r)
    <3> DEFINE own == Overrides[op[r].profile]
               m == IF own = None THEN mem[r] ELSE [mem[r] EXCEPT !.tools = own, !.hit = {op[r].profile}]
    <3>1. own \in {None} \cup SUBSET Tools
      BY <1>0, StoreTypes DEF Lists
    <3>2. m \in Memory
      BY <1>0, <3>1 DEF Memory
    <3>3. End(r) \/ GotoWith(r, "defaults", m)
      BY <2>5 DEF Current
    <3> QED
      BY <2>1, <2>3, <3>2, <3>3 DEF Steps
  <2>6. CASE Defaults(r)
    <3> DEFINE m == IF mem[r].hit # {} THEN mem[r] ELSE [mem[r] EXCEPT !.tools = defined[op[r].profile]]
    <3>1. CASE End(r)
      BY <2>1, <3>1
    <3>2. CASE defined[op[r].profile] # None /\ GotoWith(r, "catalog", m)
      <4>1. defined[op[r].profile] \in SUBSET Tools
        BY <1>0, <3>2 DEF FilesOK, Lists
      <4>2. m \in Memory
        BY <1>0, <4>1 DEF Memory
      <4> QED
        BY <2>3, <3>2, <4>2 DEF Steps
    <3> QED
      BY <2>6, <3>1, <3>2 DEF Defaults
  <2>7. CASE ReadCatalog(r)
    <3>1. [mem[r] EXCEPT !.hit = {}] \in Memory /\ [mem[r] EXCEPT !.hit = {op[r].profile}] \in Memory
      BY <1>0 DEF Memory
    <3> QED
      BY <2>1, <2>3, <2>7, <3>1 DEF ReadCatalog, Steps
  <2>8. CASE ClearOverride(r)
    <3>1. [mem[r] EXCEPT !.hit = {op[r].profile}] \in Memory
      BY <1>0 DEF Memory
    <3> QED
      BY <2>1, <2>2, <2>3, <2>8, <3>1 DEF ClearOverride, Steps
  <2> QED
    BY <2>4, <2>5, <2>6, <2>7, <2>8 DEF Access
<1> QED
  BY <1>1, <1>2, <1>3, <1>4, TypePartsNext

LEMMA PersonalityTypes ==
  ASSUME TypeOK, StepsAgree, NEW r \in Requests, Personality(r)
  PROVE  TypeOK'
<1>0. /\ FilesOK /\ ProcessOK /\ ControlOK /\ LocksOK /\ FaultsOK /\ BoundsOK
      /\ mem[r] \in Memory /\ op[r].profile \in Profiles /\ op[r].tools \in SUBSET Tools
  BY TypeParts, RequestTypes
<1> USE DEF Personality, Author, AuthorClears, WriteDocument, Unauthor, Delete, DeleteDocument, DeleteOverride
<1>1. BoundsOK'
  BY <1>0 DEF BoundsOK, limits
<1>2. ProcessOK'
  BY <1>0 DEF ProcessOK, process
<1>3. FaultsOK'
  <2>1. Works \/ Fault
    BY DEF FailsIf, Works
  <2> QED
    BY <1>0, <2>1, FaultTypes
<1>4. LocksOK'
  <2>1. CASE UNCHANGED locks \/ \E ls \in SUBSET LockNames : Hold(r, ls) \/ Release(r, ls)
    BY <1>0, <2>1, LockTypes
  <2>2. CASE locks' = [locks EXCEPT !["toolsets"] = r]
    BY <1>0, <2>2 DEF LocksOK
  <2> QED
    BY <2>1, <2>2 DEF LockNames
<1>5. FilesOK'
  <2>1. toolsets' \in {NoFile} \cup Lists(Profiles, Tools)
    <3>1. CASE toolsets' = toolsets
      BY <1>0, <3>1 DEF FilesOK
    <3>2. CASE toolsets' = Without(op[r].profile)
      BY <1>0, <3>2, WithoutTypes
    <3>3. CASE toolsets' = mem[r].toolsets
      BY <1>0, <3>3 DEF Memory
    <3> QED
      BY <3>1, <3>2, <3>3 DEF files
  <2>2. defined' \in Lists(Profiles, Tools) /\ defined'[Default] # None
    <3>1. CASE defined' = defined
      BY <1>0, <3>1 DEF FilesOK
    <3>2. CASE WriteDocument(r) /\ defined' # defined
      <4> DEFINE names == IF "tools" \in op[r].opts THEN op[r].tools
                          ELSE IF defined[op[r].profile] # None THEN defined[op[r].profile]
                          ELSE defined[Default]
      <4>1. defined' = [defined EXCEPT ![op[r].profile] = names]
        BY <3>2
      <4>2. names \in SUBSET Tools
        BY <1>0, StoresAssumption DEF FilesOK, Lists
      <4>3. names # None
        BY <4>2, NothingAssumption
      <4> HIDE DEF names
      <4> QED
        BY <1>0, <4>1, <4>2, <4>3 DEF FilesOK, Lists
    <3>3. CASE DeleteDocument(r) /\ defined' # defined
      <4>1. op[r].profile # Default
        BY <3>3 DEF StepsAgree, Agrees
      <4>2. defined' = [defined EXCEPT ![op[r].profile] = None]
        BY <3>3
      <4> QED
        BY <1>0, <4>1, <4>2 DEF FilesOK, Lists
    <3> QED
      BY <3>1, <3>2, <3>3 DEF files
  <2>3. UNCHANGED <<manifest, startup>>
    BY DEF files
  <2> QED
    BY <1>0, <2>1, <2>2, <2>3 DEF FilesOK
<1>6. ControlOK'
  <2>1. CASE End(r)
    BY <1>0, <2>1, EndTypes
  <2>2. CASE \E step \in Steps : Goto(r, step)
    BY <1>0, <2>2, GotoTypes
  <2>3. CASE \E step \in Steps, m \in Memory : GotoWith(r, step, m)
    BY <1>0, <2>3, GotoWithTypes
  <2>4. [mem[r] EXCEPT !.toolsets = toolsets] \in Memory
    BY <1>0 DEF FilesOK, Memory
  <2> QED
    BY <2>1, <2>2, <2>3, <2>4 DEF Steps
<1> QED
  BY <1>1, <1>2, <1>3, <1>4, <1>5, <1>6, TypePartsNext

LEMMA ApplyTypes ==
  ASSUME TypeOK, NEW r \in Requests, Apply(r)
  PROVE  TypeOK'
<1>0. /\ FilesOK /\ ProcessOK /\ ControlOK /\ LocksOK /\ FaultsOK /\ BoundsOK
      /\ mem[r] \in Memory /\ op[r].profile \in Profiles
  BY TypeParts, RequestTypes
<1> USE DEF Apply, Compare, SetProfile, InstructionsFail, Undo, Applied, ReadVoice, WriteVoice, WriteStartup,
        Persist, NothingPersisted
<1>1. BoundsOK'
  BY <1>0 DEF BoundsOK, limits
<1>2. ProcessOK'
  <2>1. CASE Compare(r) \/ Applied(r)
    BY <1>0, <2>1 DEF ProcessOK
  <2>2. CASE SetProfile(r) \/ InstructionsFail(r) \/ Undo(r) \/ ReadVoice(r) \/ WriteVoice(r)
    BY <1>0, <2>2 DEF ProcessOK, process, Memory
  <2> QED
    BY <2>1, <2>2
<1>3. FaultsOK'
  <2>1. Works \/ Fault
    <3>1. CASE Compare(r) \/ Applied(r)
      BY <3>1 DEF Works
    <3>2. CASE SetProfile(r) \/ InstructionsFail(r) \/ Undo(r) \/ ReadVoice(r) \/ WriteVoice(r)
      BY <3>2 DEF Works
    <3> QED
      BY <3>1, <3>2
  <2> QED
    BY <1>0, <2>1, FaultTypes
<1>4. LocksOK'
  <2>1. UNCHANGED locks \/ \E ls \in SUBSET LockNames : Hold(r, ls) \/ Release(r, ls)
    BY DEF LockNames
  <2> QED
    BY <1>0, <2>1, LockTypes
<1>5. FilesOK'
  <2>1. startup' \in Profiles \cup {NoFile}
    <3>1. CASE Compare(r) \/ Applied(r)
      BY <1>0, <3>1, StoresAssumption DEF FilesOK
    <3>2. CASE SetProfile(r) \/ InstructionsFail(r) \/ Undo(r) \/ ReadVoice(r) \/ WriteVoice(r)
      BY <1>0, <3>2, StoresAssumption DEF FilesOK, Memory, files
    <3> QED
      BY <3>1, <3>2
  <2>2. UNCHANGED <<manifest, toolsets, defined>>
    BY DEF files
  <2> QED
    BY <1>0, <2>1, <2>2 DEF FilesOK
<1>6. ControlOK'
  <2>1. CASE End(r)
    BY <1>0, <2>1, EndTypes
  <2>2. CASE \E step \in Steps : Goto(r, step)
    BY <1>0, <2>2, GotoTypes
  <2>3. CASE \E step \in Steps, m \in Memory : GotoWith(r, step, m)
    BY <1>0, <2>3, GotoWithTypes
  <2>4. /\ [mem[r] EXCEPT !.previous = active] \in Memory
        /\ [mem[r] EXCEPT !.profile = IF startup = NoFile THEN Default ELSE startup] \in Memory
    BY <1>0, StoresAssumption DEF FilesOK, ProcessOK, Memory
  <2> QED
    BY <2>1, <2>2, <2>3, <2>4 DEF Steps
<1> QED
  BY <1>1, <1>2, <1>3, <1>4, <1>5, <1>6, TypePartsNext

\* The process is gone.
LEMMA EndsTypes ==
  ASSUME TypeOK, Ends, main' \in {"down", "refused"}, crashes' \in 0..MaxCrashes
  PROVE  TypeOK'
<1>0. FilesOK /\ FaultsOK /\ BoundsOK
  BY TypeParts
<1>1. FilesOK' /\ FaultsOK' /\ BoundsOK'
  BY <1>0 DEF Ends, FilesOK, FaultsOK, BoundsOK, files
<1>2. ProcessOK'
  BY StoresAssumption DEF Ends, ProcessOK, Unloaded
<1>3. ControlOK'
  <2>1. "idle" \in Steps
    BY DEF Steps
  <2> QED
    BY <2>1, NoOpTypes, BlankTypes DEF Ends, ControlOK
<1>4. LocksOK'
  BY DEF Ends, LocksOK
<1> QED
  BY <1>1, <1>2, <1>3, <1>4, TypePartsNext

LEMMA LoadFailsTypes ==
  ASSUME ControlOK, LocksOK, ProcessOK, NEW r \in Requests, LoadFails(r)
  PROVE  ControlOK' /\ LocksOK' /\ stale' \in SUBSET Profiles
<1>1. mem[r].profile \in Profiles
  BY RequestTypes DEF Memory
<1>2. stale' \in SUBSET Profiles
  BY <1>1 DEF LoadFails, ProcessOK
<1>3. LocksOK'
  BY LockTypes DEF LoadFails
<1>4. ControlOK'
  <2>1. CASE op[r].kind = "apply"
    BY <2>1, GotoTypes DEF LoadFails, Steps
  <2>2. CASE op[r].kind = "start"
    BY <2>2, GotoTypes DEF LoadFails, Steps
  <2>3. CASE op[r].kind \notin {"apply", "start"}
    BY <2>3, EndTypes DEF LoadFails
  <2> QED
    BY <2>1, <2>2, <2>3
<1> QED
  BY <1>2, <1>3, <1>4

LEMMA LoadingTypes ==
  ASSUME TypeOK, NEW r \in Requests, Loading(r)
  PROVE  TypeOK'
<1>0. /\ FilesOK /\ ProcessOK /\ ControlOK /\ LocksOK /\ FaultsOK /\ BoundsOK
      /\ mem[r] \in Memory /\ mem[r].profile \in Profiles /\ active \in Profiles
  BY TypeParts, RequestTypes DEF Memory, ProcessOK
<1>1. CASE Load(r)
  <2>1. ControlOK'
    BY <1>0, <1>1, GotoTypes DEF Load, Steps
  <2>2. ProcessOK'
    BY <1>0, <1>1, StoresAssumption DEF Load, ProcessOK, FilesOK
  <2>3. FaultsOK'
    BY <1>0, <1>1, FaultTypes DEF Load
  <2>4. FilesOK' /\ LocksOK' /\ BoundsOK'
    BY <1>0, <1>1 DEF Load, FilesOK, LocksOK, FaultsOK, BoundsOK, files, limits
  <2> QED
    BY <2>1, <2>2, <2>3, <2>4, TypePartsNext
<1>2. CASE Initialize(r) \/ Reload(r)
  <2>1. [mem[r] EXCEPT !.profile = active] \in Memory
    BY <1>0 DEF Memory
  <2>2. End(r) \/ GotoWith(r, "names", [mem[r] EXCEPT !.profile = active])
    BY <1>2 DEF Initialize, Reload
  <2>3. ControlOK'
    BY <1>0, <2>1, <2>2, EndTypes, GotoWithTypes DEF Steps
  <2>4. LocksOK'
    BY <1>0, <1>2, LockTypes DEF Initialize, Reload
  <2>5. ProcessOK'
    BY <1>0, <1>2 DEF Initialize, Reload, ProcessOK, process
  <2>6. FilesOK' /\ FaultsOK' /\ BoundsOK'
    BY <1>0, <1>2 DEF Initialize, Reload, FilesOK, FaultsOK, BoundsOK, files, limits
  <2> QED
    BY <2>3, <2>4, <2>5, <2>6, TypePartsNext
<1>3. CASE ReadNames(r)
  <2>1. FaultsOK'
    BY <1>0, <1>3, FaultTypes DEF ReadNames, FailsIf, Works
  <2>2. FilesOK' /\ BoundsOK' /\ UNCHANGED <<main, active, choice, served>>
    BY <1>0, <1>3 DEF ReadNames, FilesOK, BoundsOK, files, limits
  <2>3. ControlOK' /\ LocksOK' /\ stale' \in SUBSET Profiles
    <3>1. CASE LoadFails(r)
      BY <1>0, <3>1, LoadFailsTypes
    <3>2. CASE ~LoadFails(r)
      <4>1. Readable(active) /\ UNCHANGED locks
            /\ GotoWith(r, "build", [mem[r] EXCEPT !.tools = Effective(active)])
        BY <1>3, <3>2 DEF ReadNames
      <4>2. [mem[r] EXCEPT !.tools = Effective(active)] \in Memory
        BY <1>0, <4>1, StoreTypes DEF Memory
      <4>3. ControlOK'
        BY <1>0, <4>1, <4>2, GotoWithTypes DEF Steps
      <4>4. stale' \in SUBSET Profiles
        BY <1>0, <1>3, <3>2 DEF ReadNames, ProcessOK
      <4> QED
        BY <1>0, <4>1, <4>3, <4>4 DEF LocksOK
    <3> QED
      BY <3>1, <3>2
  <2> QED
    BY <1>0, <2>1, <2>2, <2>3, TypePartsNext DEF ProcessOK
<1>4. CASE Build(r)
  <2>1. FaultsOK' /\ FilesOK' /\ BoundsOK' /\ UNCHANGED <<active, choice>>
    BY <1>0, <1>4, FaultTypes DEF Build, FilesOK, BoundsOK, files, limits
  <2>2. CASE LoadFails(r) /\ UNCHANGED <<served, main>>
    BY <1>0, <2>1, <2>2, LoadFailsTypes, TypePartsNext DEF ProcessOK
  <2>3. CASE ~(LoadFails(r) /\ UNCHANGED <<served, main>>)
    <3>1. /\ served' = [profile |-> mem[r].profile, tools |-> Loadable(mem[r].tools)]
          /\ \E ls : Release(r, ls)
          /\ End(r) \/ Goto(r, "applied")
          /\ main' \in {"up", main} /\ UNCHANGED stale
      BY <1>4, <2>3 DEF Build
    <3>2. mem[r].tools \in SUBSET Tools
      BY <1>0 DEF Memory
    <3>3. ProcessOK'
      BY <1>0, <2>1, <3>1, <3>2 DEF ProcessOK, Loadable
    <3>4. ControlOK'
      BY <1>0, <3>1, EndTypes, GotoTypes DEF Steps
    <3>5. LocksOK'
      BY <1>0, <3>1, LockTypes
    <3> QED
      BY <2>1, <3>3, <3>4, <3>5, TypePartsNext
  <2> QED
    BY <2>2, <2>3
<1>5. CASE Fallback(r)
  <2>1. CASE Ends /\ main' = "refused" /\ UNCHANGED crashes
    BY <1>0, <2>1, EndsTypes DEF BoundsOK
  <2>2. CASE ~(Ends /\ main' = "refused" /\ UNCHANGED crashes)
    <3>1. /\ active' = Default /\ Goto(r, "reload")
          /\ UNCHANGED <<files, main, choice, served, stale, locks, made, faults, limits>>
      BY <1>5, <2>2 DEF Fallback
    <3>2. ControlOK'
      BY <1>0, <3>1, GotoTypes DEF Steps
    <3>3. ProcessOK'
      BY <1>0, <3>1, StoresAssumption DEF ProcessOK
    <3>4. FilesOK' /\ LocksOK' /\ FaultsOK' /\ BoundsOK'
      BY <1>0, <3>1 DEF FilesOK, LocksOK, FaultsOK, BoundsOK, files, limits
    <3> QED
      BY <3>2, <3>3, <3>4, TypePartsNext
  <2> QED
    BY <2>1, <2>2
<1> QED
  BY <1>1, <1>2, <1>3, <1>4, <1>5 DEF Loading

LEMMA AskTypes ==
  ASSUME TypeOK, NEW r \in Requests, NEW o \in Asked, Ask(r, o)
  PROVE  TypeOK'
<1>0. FilesOK /\ ProcessOK /\ ControlOK /\ LocksOK /\ FaultsOK /\ BoundsOK
  BY TypeParts
<1>1. o \in Operations
  BY StoresAssumption
<1>2. First(o.kind) \in Steps
  <2>1. o.kind \in Kinds
    BY <1>1 DEF Operations
  <2> QED
    BY <2>1 DEF First, Kinds, Steps
<1>3. ControlOK'
  BY <1>0, <1>1, <1>2 DEF Ask, ControlOK
<1>4. BoundsOK'
  BY <1>0, BoundsAssumption DEF Ask, BoundsOK, limits
<1>5. FilesOK' /\ ProcessOK' /\ LocksOK' /\ FaultsOK'
  BY <1>0 DEF Ask, FilesOK, ProcessOK, LocksOK, FaultsOK, files, process
<1> QED
  BY <1>3, <1>4, <1>5, TypePartsNext

LEMMA CrashTypes ==
  ASSUME TypeOK, Crash
  PROVE  TypeOK'
<1>1. crashes' \in 0..MaxCrashes
  BY BoundsAssumption DEF TypeOK, Crash
<1> QED
  BY <1>1, EndsTypes DEF Crash

LEMMA InitTypeOK == Init => TypeOK
<1> SUFFICES ASSUME Init PROVE TypeOK
  OBVIOUS
<1>1. FilesOK
  BY StoresAssumption DEF Init, FilesOK
<1>2. ProcessOK
  BY StoresAssumption DEF Init, ProcessOK, Unloaded
<1>3. ControlOK
  <2>1. "idle" \in Steps
    BY DEF Steps
  <2> QED
    BY <2>1, NoOpTypes, BlankTypes DEF Init, ControlOK
<1>4. LocksOK /\ FaultsOK /\ BoundsOK
  BY BoundsAssumption DEF Init, LocksOK, FaultsOK, BoundsOK
<1> QED
  BY <1>1, <1>2, <1>3, <1>4, TypeParts

-----------------------------------------------------------------------------
(* What one request does to the others *)

\* A request made or a step taken, the process going on.
Acts(r) == (Step(r) /\ ~Ends) \/ \E o \in Asked : Ask(r, o)

\* Where the requests that do not hold a store go.
Outside == {"idle", "resolve", "after", "inspect", "known", "current", "defaults", "catalog", "override",
            "clear", "author", "exists", "delete", "clearDeleted", "compare", "set", "undo", "applied",
            "readVoice", "writeVoice", "load", "initialize", "fallback", "reload", "names", "build"}

LEMMA OthersUntouched ==
  ASSUME TypeOK, NEW r \in Requests, Acts(r)
  PROVE  \A q \in Requests \ {r} : pc'[q] = pc[q] /\ op'[q] = op[q] /\ mem'[q] = mem[q]
<1>1. CASE \E o \in Asked : Ask(r, o)
  BY <1>1 DEF Ask, TypeOK
<1>2. CASE Step(r) /\ ~Ends
  <2>1. \/ End(r) \/ \E step : Goto(r, step)
        \/ \E step, m : GotoWith(r, step, m)
    <3>1. CASE Change(r)
      BY <3>1 DEF Change, Resolve, LockManifest, LockToolsets, ChangeAdd, ChangeRemove, Disable,
         WriteManifest, Restore, Unlock, After, Inspect
    <3>2. CASE Access(r)
      BY <3>2 DEF Access, Known, Current, Defaults, ReadCatalog, WriteOverride, ClearOverride
    <3>3. CASE Personality(r)
      BY <3>3 DEF Personality, Author, AuthorClears, WriteDocument, Unauthor, Delete, DeleteDocument, DeleteOverride
    <3>4. CASE Apply(r)
      BY <3>4 DEF Apply, Compare, SetProfile, InstructionsFail, Undo, Applied, ReadVoice, WriteVoice
    <3>5. CASE Loading(r)
      BY <1>2, <3>5 DEF Loading, Load, Initialize, Reload, ReadNames, Build, Fallback, LoadFails
    <3> QED
      BY <1>2, <3>1, <3>2, <3>3, <3>4, <3>5 DEF Step
  <2> QED
    BY <2>1 DEF End, Goto, GotoWith, TypeOK
<1> QED
  BY <1>1, <1>2 DEF Acts

\* The requests that stay outside, and what they leave of the stores.
LEMMA OutsideSteps ==
  ASSUME TypeOK, NEW r \in Requests, Access(r) \/ Apply(r) \/ (Loading(r) /\ ~Ends)
  PROVE  /\ pc'[r] \in Outside
         /\ UNCHANGED <<manifest, defined>>
         /\ toolsets' = toolsets \/ locks["toolsets"] \in {Free, r}
         /\ \A l \in {"manifest", "toolsets"} : locks'[l] = locks[l]
<1>1. CASE Access(r)
  <2>1. pc'[r] \in Outside
    BY <1>1 DEF Access, Known, Current, Defaults, ReadCatalog, WriteOverride, ClearOverride,
       End, Goto, GotoWith, TypeOK, Outside
  <2>2. /\ UNCHANGED <<manifest, defined, locks>>
        /\ toolsets' = toolsets \/ locks["toolsets"] \in {Free, r}
    BY <1>1 DEF Access, Known, Current, Defaults, ReadCatalog, WriteOverride, ClearOverride, Available, files
  <2> QED
    BY <2>1, <2>2
<1>2. CASE Apply(r)
  <2>1. pc'[r] \in Outside
    BY <1>2 DEF Apply, Compare, SetProfile, InstructionsFail, Undo, Applied, ReadVoice, WriteVoice,
       End, Goto, GotoWith, TypeOK, Outside
  <2>2. UNCHANGED <<manifest, defined, toolsets>>
    BY <1>2 DEF Apply, Compare, SetProfile, InstructionsFail, Undo, Applied, ReadVoice, WriteVoice, Persist,
       NothingPersisted, files
  <2>3. UNCHANGED locks \/ Hold(r, {"conversation"}) \/ Release(r, {"conversation"})
    BY <1>2 DEF Apply, Compare, SetProfile, InstructionsFail, Undo, Applied, ReadVoice, WriteVoice
  <2>4. \A l \in {"manifest", "toolsets"} : locks'[l] = locks[l]
    BY <2>3 DEF Hold, Release, LockNames
  <2> QED
    BY <2>1, <2>2, <2>4
<1>3. CASE Loading(r) /\ ~Ends
  <2>1. pc'[r] \in Outside
    BY <1>3 DEF Loading, Load, Initialize, Reload, ReadNames, Build, Fallback, LoadFails,
       End, Goto, GotoWith, TypeOK, Outside
  <2>2. UNCHANGED <<manifest, defined, toolsets>>
    BY <1>3 DEF Loading, Load, Initialize, Reload, ReadNames, Build, Fallback, files
  <2>3. UNCHANGED locks \/ \E ls \in SUBSET {"registry", "conversation"} : Hold(r, ls) \/ Release(r, ls)
    BY <1>3 DEF Loading, Load, Initialize, Reload, ReadNames, Build, Fallback, LoadFails
  <2>4. \A l \in {"manifest", "toolsets"} : locks'[l] = locks[l]
    BY <2>3 DEF Hold, Release, LockNames
  <2> QED
    BY <2>1, <2>2, <2>4
<1> QED
  BY <1>1, <1>2, <1>3

\* A personality is written, or deleted: only under the lock of the tool settings
\* does a document change otherwise than by being gone.
LEMMA PersonalitySteps ==
  ASSUME TypeOK, HoldsStores, NEW r \in Requests, Personality(r)
  PROVE  /\ pc'[r] \in Outside \cup {"rmtree", "document", "unauthor"}
         /\ pc'[r] = "rmtree" => op'[r].profile # Default
         /\ pc'[r] \in {"document", "unauthor"} => locks'["toolsets"] = r
         /\ UNCHANGED manifest /\ locks'["manifest"] = locks["manifest"]
         /\ toolsets' = toolsets \/ locks["toolsets"] \in {Free, r}
         /\ locks'["toolsets"] = locks["toolsets"] \/ locks["toolsets"] \in {Free, r}
         /\ (\A p \in Profiles : defined'[p] \in {defined[p], None}) \/ locks["toolsets"] = r
<1>0. pc[r] \in {"document", "unauthor"} => locks["toolsets"] = r
  BY DEF HoldsStores, Holds
<1>1. CASE Author(r)
  <2>1. pc'[r] = "exists" /\ UNCHANGED files /\ Hold(r, {"server"})
    BY <1>1 DEF Author, Goto, TypeOK
  <2> QED
    BY <2>1 DEF files, Hold, LockNames, Outside
<1>2. CASE AuthorClears(r)
  <2>1. /\ pc'[r] \in {"idle", "document"} /\ UNCHANGED <<manifest, defined>>
        /\ locks["toolsets"] = Free
    BY <1>2 DEF AuthorClears, End, GotoWith, TypeOK
  <2>2. CASE Release(r, {"server"}) /\ End(r)
    BY <2>1, <2>2 DEF Release, End, LockNames, Outside, TypeOK
  <2>3. CASE locks' = [locks EXCEPT !["toolsets"] = r]
    BY <2>1, <2>3 DEF LockNames, Outside, TypeOK
  <2> QED
    BY <1>2, <2>2, <2>3 DEF AuthorClears
<1>3. CASE WriteDocument(r)
  <2>1. /\ pc[r] = "document" /\ UNCHANGED <<manifest, toolsets>>
        /\ \/ pc'[r] = "idle" /\ Release(r, {"server", "toolsets"})
           \/ pc'[r] = "unauthor" /\ UNCHANGED locks
    BY <1>3 DEF WriteDocument, End, Goto, TypeOK
  <2> QED
    BY <1>0, <2>1 DEF Release, LockNames, Outside
<1>4. CASE Unauthor(r)
  <2>1. /\ pc[r] = "unauthor" /\ UNCHANGED <<manifest, defined>>
        /\ pc'[r] = "idle" /\ Release(r, {"server", "toolsets"})
    BY <1>4 DEF Unauthor, End, TypeOK
  <2> QED
    BY <1>0, <2>1 DEF Release, LockNames, Outside
<1>5. CASE Delete(r)
  <2>1. /\ UNCHANGED files
        /\ \/ pc'[r] = "idle" /\ UNCHANGED locks
           \/ pc'[r] = "rmtree" /\ op[r].profile # Default /\ UNCHANGED op /\ Hold(r, {"server"})
    BY <1>5 DEF Delete, End, Goto, TypeOK
  <2> QED
    BY <2>1 DEF files, Hold, LockNames, Outside
<1>6. CASE DeleteDocument(r)
  <2>1. /\ UNCHANGED <<manifest, toolsets>>
        /\ defined' \in {defined, [defined EXCEPT ![op[r].profile] = None]}
        /\ \/ pc'[r] = "clearDeleted" /\ UNCHANGED locks
           \/ pc'[r] = "idle" /\ Release(r, {"server"})
    BY <1>6 DEF DeleteDocument, End, Goto, TypeOK
  <2>2. \A p \in Profiles : defined'[p] \in {defined[p], None}
    BY <2>1 DEF TypeOK, Lists
  <2> QED
    BY <2>1, <2>2 DEF Release, LockNames, Outside
<1>7. CASE DeleteOverride(r)
  <2>1. /\ UNCHANGED <<manifest, defined>> /\ locks["toolsets"] \in {Free, r}
        /\ pc'[r] = "idle" /\ Release(r, {"server"})
    BY <1>7 DEF DeleteOverride, Available, End, TypeOK
  <2> QED
    BY <2>1 DEF Release, LockNames, Outside
<1> QED
  BY <1>1, <1>2, <1>3, <1>4, <1>5, <1>6, <1>7 DEF Personality

\* A Space is installed or removed: what changes in the stores, changes under
\* the request's own locks.
LEMMA ChangeSteps ==
  ASSUME TypeOK, HoldsStores, NEW r \in Requests, Change(r)
  PROVE  /\ UNCHANGED <<defined, op>> \/ (UNCHANGED defined /\ pc'[r] = "idle")
         /\ manifest' = manifest \/ locks["manifest"] = r
         /\ toolsets' = toolsets \/ locks["toolsets"] = r
         /\ \A l \in {"manifest", "toolsets"} : locks'[l] = locks[l] \/ locks[l] \in {Free, r}
         /\ Holds(r)'
<1>0. Holds(r)
  BY DEF HoldsStores
<1>1. CASE Resolve(r)
  <2>1. UNCHANGED <<files, locks>> /\ pc'[r] \in {"idle", "lock"} /\ (UNCHANGED op \/ pc'[r] = "idle")
    BY <1>1 DEF Resolve, End, GotoWith, TypeOK
  <2> QED
    BY <2>1 DEF files, Holds
<1>2. CASE LockManifest(r)
  <2>1. UNCHANGED <<files, op>> /\ pc'[r] = "lock2" /\ Hold(r, {"manifest"})
    BY <1>2 DEF LockManifest, Goto, TypeOK
  <2> QED
    BY <2>1 DEF files, Holds, Hold, LockNames
<1>3. CASE LockToolsets(r)
  <2>1. pc[r] = "lock2" /\ UNCHANGED <<files, op>> /\ pc'[r] = "change" /\ Hold(r, {"toolsets"})
    BY <1>3 DEF LockToolsets, GotoWith, TypeOK
  <2> QED
    BY <1>0, <2>1 DEF files, Holds, Hold, LockNames
<1>4. CASE ChangeAdd(r) \/ ChangeRemove(r) \/ Disable(r) \/ WriteManifest(r) \/ Restore(r)
  <2>1. /\ pc[r] \in {"change", "disable", "write", "restore"} /\ UNCHANGED <<defined, op, locks>>
        /\ pc'[r] \in {"refused", "write", "disable", "committed", "restored", "restore", "lost"}
    BY <1>4 DEF ChangeAdd, ChangeRemove, Disable, WriteManifest, Restore, Goto, GotoWith, files, TypeOK
  <2> QED
    BY <1>0, <2>1 DEF Holds
<1>5. CASE Unlock(r)
  <2>1. /\ pc[r] \in {"committed", "restored", "refused", "lost"} /\ UNCHANGED files
        /\ pc'[r] = "idle" \/ (pc'[r] = "after" /\ UNCHANGED op)
        /\ Release(r, {"manifest", "toolsets"})
    BY <1>5 DEF Unlock, Goto, End, TypeOK
  <2> QED
    BY <1>0, <2>1 DEF files, Holds, Release, LockNames
<1>6. CASE After(r) \/ Inspect(r)
  <2>1. /\ UNCHANGED <<files, locks>>
        /\ pc'[r] = "idle" \/ (pc'[r] \in {"inspect", "reload"} /\ UNCHANGED op)
    BY <1>6 DEF After, Inspect, Goto, GotoWith, End, TypeOK
  <2> QED
    BY <2>1 DEF files, Holds
<1> QED
  BY <1>1, <1>2, <1>3, <1>4, <1>5, <1>6 DEF Change

\* What a request does to the stores, it does under its own locks.
LEMMA Confined ==
  ASSUME TypeOK, HoldsStores, NEW r \in Requests, Acts(r)
  PROVE  /\ \A l \in {"manifest", "toolsets"} : locks'[l] = locks[l] \/ locks[l] \in {Free, r}
         /\ manifest' = manifest \/ locks["manifest"] = r
         /\ toolsets' = toolsets \/ locks["toolsets"] \in {Free, r}
         /\ (\A p \in Profiles : defined'[p] \in {defined[p], None}) \/ locks["toolsets"] = r
<1>1. CASE \E o \in Asked : Ask(r, o)
  BY <1>1 DEF Ask, files
<1>2. CASE Access(r) \/ Apply(r) \/ (Loading(r) /\ ~Ends)
  BY <1>2, OutsideSteps
<1>3. CASE Personality(r)
  BY <1>3, PersonalitySteps
<1>4. CASE Change(r)
  BY <1>4, ChangeSteps
<1> QED
  BY <1>1, <1>2, <1>3, <1>4 DEF Acts, Step

\* So nobody disturbs what another one holds on to.
LEMMA OthersKeep ==
  ASSUME IInv, NEW r \in Requests, Acts(r), NEW q \in Requests, q # r
  PROVE  Agrees(q)' /\ Holds(q)' /\ Recalls(q)' /\ Thorough(q)'
<1>0. TypeOK /\ HoldsStores /\ Agrees(q) /\ Holds(q) /\ Recalls(q) /\ Thorough(q) /\ q # Free
  BY StoresAssumption DEF IInv, StepsAgree, HoldsStores, Remembers, RemovalIsThorough
<1>1. pc'[q] = pc[q] /\ op'[q] = op[q] /\ mem'[q] = mem[q]
  BY <1>0, OthersUntouched
<1>2. Agrees(q)'
  BY <1>0, <1>1 DEF Agrees
<1>3. Holds(q)'
  BY <1>0, <1>1, Confined DEF Holds
<1>4. locks["manifest"] = q => UNCHANGED manifest
  BY <1>0, Confined
<1>5. locks["toolsets"] = q => UNCHANGED toolsets /\ \A p \in Profiles : defined'[p] \in {defined[p], None}
  BY <1>0, Confined
<1>6. Recalls(q)'
  BY <1>0, <1>1, <1>4, <1>5 DEF Recalls, Holds
<1>7. locks["toolsets"] = q =>
        \A p \in Profiles : Readable(p)' => Readable(p) /\ Effective(p)' = Effective(p)
  BY <1>5 DEF Readable, Effective, Overrides
<1>8. Thorough(q)'
  <2>1. pc[q] = "disable" => \A p \in Profiles : Readable(p)' => p \in mem[q].hit
    BY <1>0, <1>7 DEF Thorough, Holds
  <2>2. pc[q] \in {"write", "committed"} /\ op[q].kind \in Removes => Disabled(op[q].space)'
    BY <1>0, <1>1, <1>7 DEF Thorough, Holds, Disabled, ToolsOf
  <2> QED
    BY <1>1, <2>1, <2>2 DEF Thorough, Disabled, ToolsOf
<1> QED
  BY <1>2, <1>3, <1>6, <1>8

-----------------------------------------------------------------------------
(* What one request does for itself *)

\* Outside the stores there is nothing to keep.
LEMMA NothingToKeep ==
  ASSUME NEW r \in Requests, pc'[r] \in Outside
  PROVE  Agrees(r)' /\ Holds(r)' /\ Recalls(r)' /\ Thorough(r)'
BY DEF Outside, Agrees, Holds, Recalls, Thorough

LEMMA AskKeeps ==
  ASSUME IInv, NEW r \in Requests, NEW o \in Asked, Ask(r, o)
  PROVE  Agrees(r)' /\ Holds(r)' /\ Recalls(r)' /\ Thorough(r)'
<1>1. pc'[r] = First(o.kind) /\ op'[r] = o /\ o.kind \in Kinds
  BY StoresAssumption DEF Ask, IInv, TypeOK, Operations
<1>2. CASE pc'[r] \in Outside
  BY <1>2, NothingToKeep
<1>3. CASE pc'[r] \notin Outside
  <2>1. pc'[r] = "lock" /\ op'[r].kind \in Removes
    BY <1>1, <1>3 DEF First, Kinds, Outside, Removes
  <2> QED
    BY <2>1 DEF Agrees, Holds, Recalls, Thorough, Adds, Removes
<1> QED
  BY <1>2, <1>3

\* Disabling goes through every profile that can be read, so none is left.
LEMMA DisableIsThorough ==
  ASSUME IInv, NEW r \in Requests, Disable(r), pc'[r] = "write"
  PROVE  \A p \in Profiles : Readable(p)' => Effective(p)' \cap ToolsOf(op[r].space) = {}
<1> DEFINE gone == ToolsOf(op[r].space)
           hit == {p \in mem[r].hit : Effective(p) \cap gone # {}}
<1>0. /\ FilesOK /\ ControlOK /\ pc[r] = "disable"
      /\ \A p \in Profiles : Readable(p) => p \in mem[r].hit
  BY TypeParts DEF IInv, RemovalIsThorough, Thorough, Disable
<1>1. /\ \A p \in mem[r].hit : Readable(p)
      /\ toolsets' = IF hit = {} THEN toolsets
                     ELSE [p \in Profiles |-> IF p \in hit THEN Effective(p) \ gone ELSE Overrides[p]]
      /\ UNCHANGED defined
  BY <1>0 DEF Disable, Goto, ControlOK
<1>2. CASE hit = {}
  <2>1. \A p \in Profiles : Readable(p)' = Readable(p) /\ Effective(p)' = Effective(p)
    BY <1>1, <1>2 DEF Readable, Effective, Overrides
  <2> QED
    BY <1>0, <1>2, <2>1
<1>3. CASE hit # {}
  <2>1. toolsets' = [p \in Profiles |-> IF p \in hit THEN Effective(p) \ gone ELSE Overrides[p]]
    BY <1>1, <1>3
  <2>2. \A p \in Profiles : (IF p \in hit THEN Effective(p) \ gone ELSE Overrides[p]) \in {None} \cup SUBSET Tools
    BY <1>0, <1>1, StoreTypes DEF Lists
  <2>3. toolsets' \in Lists(Profiles, Tools)
    BY <2>1, <2>2 DEF Lists
  <2>4. Overrides' = toolsets'
    BY <2>3, NothingAssumption DEF Overrides
  <2>5. ASSUME NEW p \in Profiles, p \in hit
        PROVE  Effective(p)' \cap gone = {}
    <3>1. Effective(p) \ gone \in SUBSET Tools
      BY <1>0, <1>1, <2>5, StoreTypes
    <3>2. Overrides'[p] = Effective(p) \ gone /\ Overrides'[p] # None
      BY <2>1, <2>4, <2>5, <3>1, NothingAssumption
    <3>3. Effective(p)' = Effective(p) \ gone
      BY <3>2 DEF Effective
    <3> QED
      BY <3>3
  <2>6. ASSUME NEW p \in Profiles, p \notin hit, Readable(p)'
        PROVE  Effective(p)' \cap gone = {}
    <3>1. Overrides'[p] = Overrides[p] /\ defined'[p] = defined[p]
      BY <1>1, <2>1, <2>4, <2>6
    <3>2. Effective(p)' = Effective(p) /\ Readable(p)
      BY <2>6, <3>1 DEF Effective, Readable
    <3> QED
      BY <1>0, <2>6, <3>2
  <2> QED
    BY <2>5, <2>6
<1> QED
  BY <1>2, <1>3

LEMMA ChangeKeeps ==
  ASSUME IInv, NEW r \in Requests, Change(r)
  PROVE  Agrees(r)' /\ Holds(r)' /\ Recalls(r)' /\ Thorough(r)'
<1>0. /\ FilesOK /\ ControlOK /\ TypeOK /\ HoldsStores
      /\ Agrees(r) /\ Holds(r) /\ Recalls(r) /\ Thorough(r)
  BY TypeParts DEF IInv, StepsAgree, HoldsStores, Remembers, RemovalIsThorough
<1>1. Holds(r)'
  BY <1>0, ChangeSteps
<1>2. CASE pc'[r] \in Outside
  BY <1>2, NothingToKeep
<1>3. CASE Resolve(r) /\ pc'[r] \notin Outside
  <2>1. PICK ts \in SUBSET ToolsOf(op[r].space) : GotoWith(r, "lock", [mem[r] EXCEPT !.tools = ts])
    BY <1>0, <1>3 DEF Resolve, End, ControlOK, Outside
  <2>2. mem'[r].tools = ts /\ pc'[r] = "lock" /\ UNCHANGED op
    BY <1>0, <2>1, RequestTypes DEF GotoWith, ControlOK, Memory
  <2> QED
    BY <1>1, <2>1, <2>2 DEF Agrees, Recalls, Thorough, ToolsOf
<1>4. CASE LockManifest(r)
  <2>1. pc[r] = "lock" /\ pc'[r] = "lock2" /\ UNCHANGED <<op, mem>>
    BY <1>0, <1>4 DEF LockManifest, Goto, ControlOK
  <2> QED
    BY <1>0, <1>1, <2>1 DEF Agrees, Recalls, Thorough
<1>5. CASE LockToolsets(r)
  <2>1. pc[r] = "lock2" /\ pc'[r] = "change" /\ UNCHANGED <<op, files>>
    BY <1>0, <1>5 DEF LockToolsets, GotoWith, ControlOK
  <2>2. mem'[r] = [mem[r] EXCEPT !.manifest = manifest, !.toolsets = toolsets]
    BY <1>0, <1>5 DEF LockToolsets, GotoWith, ControlOK
  <2>3. mem'[r].manifest = manifest /\ mem'[r].toolsets = toolsets /\ mem'[r].tools = mem[r].tools
    BY <1>0, <2>2, RequestTypes DEF Memory
  <2> QED
    BY <1>0, <1>1, <2>1, <2>3 DEF Agrees, Recalls, Thorough, files
<1>6. CASE ChangeAdd(r)
  <2>1. /\ pc[r] = "change" /\ op[r].kind \in Adds /\ UNCHANGED <<op, mem, manifest>>
        /\ \/ pc'[r] = "refused" /\ UNCHANGED toolsets
           \/ pc'[r] = "write" /\ (op[r].kind = "add" => UNCHANGED toolsets)
    BY <1>0, <1>6 DEF ChangeAdd, Goto, ControlOK, Adds
  <2> QED
    BY <1>0, <1>1, <2>1 DEF Agrees, Recalls, Thorough, Adds, Removes
<1>7. CASE ChangeRemove(r)
  <2>1. pc[r] = "change" /\ op[r].kind \in Removes /\ UNCHANGED <<op, files>>
    BY <1>7 DEF ChangeRemove, Goto, GotoWith, Removes
  <2>2. CASE Goto(r, "refused")
    BY <1>0, <1>1, <2>1, <2>2 DEF Goto, ControlOK, Agrees, Recalls, Thorough, files
  <2>3. CASE GotoWith(r, "disable", [mem[r] EXCEPT !.hit = {p \in Profiles : Readable(p)}])
    <3>1. pc'[r] = "disable" /\ mem'[r] = [mem[r] EXCEPT !.hit = {p \in Profiles : Readable(p)}]
      BY <1>0, <2>3 DEF GotoWith, ControlOK
    <3>2. /\ mem'[r].hit = {p \in Profiles : Readable(p)}
          /\ mem'[r].manifest = mem[r].manifest /\ mem'[r].toolsets = mem[r].toolsets
      BY <1>0, <3>1, RequestTypes DEF Memory
    <3>3. \A p \in Profiles : Readable(p)' = Readable(p)
      BY <2>1 DEF files, Readable, Effective, Overrides
    <3> QED
      BY <1>0, <1>1, <2>1, <3>1, <3>2, <3>3 DEF Agrees, Recalls, Thorough, files
  <2> QED
    BY <1>7, <2>2, <2>3 DEF ChangeRemove
<1>8. CASE Disable(r)
  <2>1. pc[r] = "disable" /\ op[r].kind \in Removes /\ UNCHANGED <<op, manifest>>
    BY <1>0, <1>8 DEF Disable, Goto, GotoWith, Agrees
  <2>2. CASE pc'[r] = "refused"
    <3>1. UNCHANGED <<mem, toolsets>>
      BY <1>0, <1>8, <2>2 DEF Disable, Goto, GotoWith, ControlOK
    <3> QED
      BY <1>0, <1>1, <2>1, <2>2, <3>1 DEF Agrees, Recalls, Thorough
  <2>3. CASE pc'[r] = "write"
    <3>1. \E h : mem'[r] = [mem[r] EXCEPT !.hit = h]
      BY <1>0, <1>8, <2>3 DEF Disable, Goto, GotoWith, ControlOK
    <3>2. mem'[r].manifest = mem[r].manifest
      BY <1>0, <3>1, RequestTypes DEF Memory
    <3>3. \A p \in Profiles : Readable(p)' => Effective(p)' \cap ToolsOf(op[r].space) = {}
      BY <1>8, <2>3, DisableIsThorough
    <3> QED
      BY <1>0, <1>1, <2>1, <2>3, <3>2, <3>3
         DEF Agrees, Recalls, Thorough, Disabled, ToolsOf, Adds, Removes
  <2> QED
    BY <1>0, <1>8, <2>2, <2>3 DEF Disable, Goto, GotoWith, ControlOK
<1>9. CASE WriteManifest(r)
  <2>1. pc[r] = "write" /\ UNCHANGED <<op, mem, toolsets, defined>>
    BY <1>9 DEF WriteManifest, Goto
  <2>2. CASE pc'[r] = "committed"
    BY <1>0, <1>1, <2>1, <2>2 DEF Agrees, Recalls, Thorough, Disabled, Readable, Effective, Overrides, ToolsOf
  <2>3. CASE pc'[r] = "restored" /\ op[r].kind = "add" /\ UNCHANGED manifest
    BY <1>0, <1>1, <2>1, <2>3 DEF Agrees, Recalls, Thorough
  <2>4. CASE pc'[r] = "restore" /\ UNCHANGED manifest
    BY <1>0, <1>1, <2>1, <2>4 DEF Agrees, Recalls, Thorough
  <2> QED
    BY <1>0, <1>9, <2>2, <2>3, <2>4 DEF WriteManifest, Goto, ControlOK
<1>10. CASE Restore(r)
  <2>1. /\ pc[r] = "restore" /\ UNCHANGED <<op, mem, manifest>>
        /\ pc'[r] = "lost" \/ (pc'[r] = "restored" /\ toolsets' = mem[r].toolsets)
    BY <1>0, <1>10 DEF Restore, Goto, ControlOK
  <2> QED
    BY <1>0, <1>1, <2>1 DEF Agrees, Recalls, Thorough
<1>11. CASE Unlock(r) \/ After(r) \/ Inspect(r)
  <2>1. pc'[r] \in Outside
    BY <1>0, <1>11 DEF Unlock, After, Inspect, Goto, GotoWith, End, ControlOK, Outside
  <2> QED
    BY <1>2, <2>1
<1> QED
  BY <1>2, <1>3, <1>4, <1>5, <1>6, <1>7, <1>8, <1>9, <1>10, <1>11 DEF Change

LEMMA StepKeeps ==
  ASSUME IInv, NEW r \in Requests, Acts(r)
  PROVE  Agrees(r)' /\ Holds(r)' /\ Recalls(r)' /\ Thorough(r)'
<1>0. TypeOK /\ HoldsStores
  BY DEF IInv
<1>1. CASE \E o \in Asked : Ask(r, o)
  BY <1>1, AskKeeps
<1>2. CASE Access(r) \/ Apply(r) \/ (Loading(r) /\ ~Ends)
  BY <1>0, <1>2, OutsideSteps, NothingToKeep
<1>3. CASE Personality(r)
  <2>1. CASE pc'[r] \in Outside
    BY <2>1, NothingToKeep
  <2>2. CASE pc'[r] \notin Outside
    BY <1>0, <1>3, <2>2, PersonalitySteps DEF Agrees, Holds, Recalls, Thorough
  <2> QED
    BY <2>1, <2>2
<1>4. CASE Change(r)
  BY <1>4, ChangeKeeps
<1> QED
  BY <1>1, <1>2, <1>3, <1>4 DEF Acts, Step

-----------------------------------------------------------------------------
(* The invariant, and what follows from it *)

LEMMA InitIInv == Init => IInv
<1> SUFFICES ASSUME Init PROVE IInv
  OBVIOUS
<1>1. \A r \in Requests : pc[r] = "idle"
  BY DEF Init
<1>2. StepsAgree /\ HoldsStores /\ Remembers /\ RemovalIsThorough
  BY <1>1 DEF StepsAgree, HoldsStores, Remembers, RemovalIsThorough, Agrees, Holds, Recalls, Thorough
<1> QED
  BY <1>2, InitTypeOK DEF IInv

LEMMA StepIInv == IInv /\ [Next]_vars => IInv'
<1> SUFFICES ASSUME IInv, [Next]_vars PROVE IInv'
  OBVIOUS
<1>0. TypeOK /\ StepsAgree
  BY DEF IInv
<1>1. CASE \E r \in Requests : Acts(r)
  <2>1. PICK r \in Requests : Acts(r)
    BY <1>1
  <2>2. TypeOK'
    BY <1>0, <2>1, AskTypes, ChangeTypes, AccessTypes, PersonalityTypes, ApplyTypes, LoadingTypes DEF Acts, Step
  <2>3. \A q \in Requests : Agrees(q)' /\ Holds(q)' /\ Recalls(q)' /\ Thorough(q)'
    BY <2>1, StepKeeps, OthersKeep
  <2> QED
    BY <2>2, <2>3 DEF IInv, StepsAgree, HoldsStores, Remembers, RemovalIsThorough
<1>2. CASE Ends /\ TypeOK'
  <2>1. \A r \in Requests : pc'[r] = "idle"
    BY <1>2 DEF Ends
  <2> QED
    BY <1>2, <2>1 DEF IInv, StepsAgree, HoldsStores, Remembers, RemovalIsThorough, Agrees, Holds, Recalls, Thorough
<1>3. CASE UNCHANGED vars
  BY <1>3 DEF IInv, TypeOK, vars, files, process, requests, limits, StepsAgree, HoldsStores, Remembers,
     RemovalIsThorough, Agrees, Holds, Recalls, Thorough, Disabled, Readable, Effective, Overrides
<1>4. CASE Crash
  BY <1>0, <1>2, <1>4, CrashTypes DEF Crash
<1>5. ASSUME NEW r \in Requests, Step(r), Ends
      PROVE  IInv'
  BY <1>0, <1>2, <1>5, ChangeTypes, AccessTypes, PersonalityTypes, ApplyTypes, LoadingTypes DEF Step
<1> QED
  BY <1>1, <1>3, <1>4, <1>5 DEF Next, Acts, Step

\* The files, the settings of the program, the locks and the requests keep their kinds.
THEOREM StoresTypeCorrect == Spec => []TypeOK
<1>1. IInv => TypeOK
  BY DEF IInv
<1> QED
  BY <1>1, InitIInv, StepIInv, PTL DEF Spec

\* Installing or removing a Space that fails leaves the manifest and the tool
\* settings as they were, the absence of a file included (install_tool_space,
\* remove_tool_space): whatever else is edited, deleted, loaded or crashes.
THEOREM FailuresLeaveTheFiles == Spec => []FailureLeavesFiles
<1>1. IInv => FailureLeavesFiles
  BY DEF IInv, Remembers, Recalls, FailureLeavesFiles
<1> QED
  BY <1>1, InitIInv, StepIInv, PTL DEF Spec

\* When the manifest without a Space has been written under both locks, no profile
\* that can be read enables a tool of it (disable_profile_tools_by_prefix, remove_tool_space).
THEOREM RemovedSpacesAreDisabled == Spec => []RemovedMeansDisabled
<1>1. IInv => RemovedMeansDisabled
  BY DEF IInv, RemovalIsThorough, Thorough, Disabled, Removes, RemovedMeansDisabled
<1> QED
  BY <1>1, InitIInv, StepIInv, PTL DEF Spec

-----------------------------------------------------------------------------
(* The session: which requests there are while the program is down, starting *)
(* or up, and why only a fault can keep it from starting                     *)

\* The steps each kind of request goes through.
StepsOf(kind) ==
  CASE kind = "add" -> {"resolve", "lock", "lock2", "change", "write", "committed", "restored", "refused",
                        "after", "inspect", "reload", "names", "build"}
    [] kind = "cliAdd" -> {"resolve", "lock", "lock2", "change", "write", "committed", "restore", "restored",
                           "refused", "lost"}
    [] kind = "remove" -> {"lock", "lock2", "change", "disable", "write", "committed", "restore", "restored",
                           "refused", "lost", "after", "reload", "names", "build"}
    [] kind = "cliRemove" -> {"lock", "lock2", "change", "disable", "write", "committed", "restore",
                              "restored", "refused", "lost"}
    [] kind = "save" -> {"known", "current", "defaults", "catalog", "override", "after", "reload", "names", "build"}
    [] kind = "reset" -> {"known", "defaults", "catalog", "clear", "after", "reload", "names", "build"}
    [] kind = "author" -> {"author", "exists", "document", "unauthor"}
    [] kind = "delete" -> {"delete", "rmtree", "clearDeleted"}
    [] kind = "apply" -> {"compare", "set", "reload", "names", "build", "undo", "applied"}
    [] kind = "voice" -> {"readVoice", "writeVoice"}
    [] kind = "use" -> {"idle", "initialize", "names", "build"}
    [] kind = "start" -> {"load", "initialize", "names", "build", "fallback", "reload"}
Onward == \A r \in Requests : pc[r] \in StepsOf(op[r].kind)

\* Without the program there is one start or one command line; a starting
\* program keeps its start, and applies no personality before it is up.
Alone == {"start", "cliAdd", "cliRemove"}
Attends(r) ==
  pc[r] # "idle" =>
    /\ Down => op[r].kind \in Alone /\ (op[r].kind = "start" => pc[r] = "load")
    /\ op[r].kind \in Alone =>
         /\ ~Down => op[r].kind = "start" /\ main = "starting" /\ pc[r] # "load"
         /\ \A q \in Requests \ {r} : pc[q] # "idle" => op[q].kind \notin Alone
    /\ op[r].kind = "apply" => pc[r] = "compare" \/ main = "up"
Session == \A r \in Requests : Attends(r)

\* A pinned profile keeps its document and stays selected: nobody administers it.
Admin == {"add", "remove", "save", "reset", "author", "delete", "apply"}
PinnedStays ==
  locked => /\ active \in {Default, Pinned} /\ defined[Pinned] # None
            /\ \A r \in Requests : op[r].kind \notin Admin

\* Without a fault since the start, only a profile that is not the default one fails to load.
FallsBack ==
  /\ faultsBefore <= faults
  /\ \A r \in Requests : pc[r] = "fallback" /\ faults = faultsBefore => active # Default /\ ~locked

SessionInv ==
  /\ IInv
  /\ Onward
  /\ Session
  /\ PinnedStays
  /\ FallsBack
  /\ OnlyFaultsRefuse

\* A step belongs to a request, which goes on or ends.
LEMMA Moves ==
  ASSUME TypeOK, NEW r \in Requests, Step(r), ~Ends
  PROVE  /\ pc[r] # "idle"
         /\ UNCHANGED <<made, locked, crashes>>
         /\ op' = op \/ (pc'[r] = "idle" /\ op'[r] = NoOp)
         /\ Works \/ Fault
<1>1. CASE Change(r)
  <2> USE DEF Change, Resolve, LockManifest, LockToolsets, ChangeAdd, ChangeRemove, Disable,
         WriteManifest, Restore, Unlock, After, Inspect
  <2>1. pc[r] # "idle" /\ UNCHANGED <<made, locked, crashes>> /\ (Works \/ Fault)
    BY <1>1 DEF limits, FailsIf, Works
  <2>2. End(r) \/ UNCHANGED op
    BY <1>1 DEF Goto, GotoWith
  <2> QED
    BY <2>1, <2>2 DEF End, TypeOK
<1>2. CASE Access(r)
  <2> USE DEF Access, Known, Current, Defaults, ReadCatalog, WriteOverride, ClearOverride
  <2>1. pc[r] # "idle" /\ UNCHANGED <<made, locked, crashes>> /\ (Works \/ Fault)
    BY <1>2 DEF limits, FailsIf, Works
  <2>2. End(r) \/ UNCHANGED op
    BY <1>2 DEF Goto, GotoWith
  <2> QED
    BY <2>1, <2>2 DEF End, TypeOK
<1>3. CASE Personality(r)
  <2> USE DEF Personality, Author, AuthorClears, WriteDocument, Unauthor, Delete, DeleteDocument, DeleteOverride
  <2>1. pc[r] # "idle" /\ UNCHANGED <<made, locked, crashes>> /\ (Works \/ Fault)
    BY <1>3 DEF limits, FailsIf, Works
  <2>2. End(r) \/ UNCHANGED op
    BY <1>3 DEF Goto, GotoWith
  <2> QED
    BY <2>1, <2>2 DEF End, TypeOK
<1>4. CASE Apply(r)
  <2> USE DEF Apply, Compare, SetProfile, InstructionsFail, Undo, Applied, ReadVoice, WriteVoice
  <2>1. pc[r] # "idle" /\ UNCHANGED <<made, locked, crashes>>
    BY <1>4 DEF limits
  <2>2. Works \/ Fault
    BY <1>4 DEF Works, Persist, NothingPersisted, WriteStartup
  <2>3. End(r) \/ UNCHANGED op
    BY <1>4 DEF Goto, GotoWith
  <2> QED
    BY <2>1, <2>2, <2>3 DEF End, TypeOK
<1>5. CASE Loading(r)
  <2> USE <1>5 DEF Loading, Load, Initialize, Reload, ReadNames, Build, Fallback
  <2>1. pc[r] # "idle" /\ UNCHANGED <<made, locked, crashes>> /\ (Works \/ Fault)
    BY DEF limits, FailsIf, Works
  <2>2. End(r) \/ UNCHANGED op
    BY DEF Goto, GotoWith, LoadFails
  <2> QED
    BY <2>1, <2>2 DEF End, TypeOK
<1> QED
  BY <1>1, <1>2, <1>3, <1>4, <1>5 DEF Step

\* The program is started by a start, and is up when the start ends.
LEMMA MainSteps ==
  ASSUME TypeOK, NEW r \in Requests, Step(r), pc[r] # "fallback" \/ ~Ends
  PROVE  \/ main' = main
         \/ Load(r) /\ main' = "starting"
         \/ op[r].kind = "start" /\ pc'[r] = "idle" /\ main' = "up"
<1>1. CASE Change(r)
  BY <1>1 DEF Change, Resolve, LockManifest, LockToolsets, ChangeAdd, ChangeRemove, Disable,
     WriteManifest, Restore, Unlock, After, Inspect, process
<1>2. CASE Access(r) \/ Personality(r)
  BY <1>2 DEF Access, Known, Current, Defaults, ReadCatalog, WriteOverride, ClearOverride,
     Personality, Author, AuthorClears, WriteDocument, Unauthor, Delete, DeleteDocument, DeleteOverride, process
<1>3. CASE Apply(r)
  BY <1>3 DEF Apply, Compare, SetProfile, InstructionsFail, Undo, Applied, ReadVoice, WriteVoice, process
<1>4. CASE Loading(r)
  BY <1>4 DEF Loading, Load, Initialize, Reload, ReadNames, Build, Fallback, process, End, TypeOK
<1> QED
  BY <1>1, <1>2, <1>3, <1>4 DEF Step

LEMMA KeepsOnward ==
  ASSUME TypeOK, Onward, NEW r \in Requests, Acts(r)
  PROVE  Onward'
<1>0. pc[r] \in StepsOf(op[r].kind) /\ op[r].kind \in Kinds
  BY RequestTypes, TypeParts DEF Onward, Operations
<1>1. CASE \E o \in Asked : Ask(r, o)
  <2>1. PICK o \in Asked : Ask(r, o)
    BY <1>1
  <2>2. o.kind \in Kinds /\ pc'[r] = First(o.kind) /\ op'[r] = o
    BY <2>1, StoresAssumption DEF Ask, TypeOK, Operations
  <2>3. First(o.kind) \in StepsOf(o.kind)
    BY <2>2 DEF First, StepsOf, Kinds
  <2> QED
    BY <1>1, <2>2, <2>3, OthersUntouched DEF Onward
<1>2. CASE Step(r) /\ ~Ends
  <2> SUFFICES pc'[r] \in StepsOf(op'[r].kind)
    BY <1>2, OthersUntouched DEF Onward, Acts
  <2>0. pc'[r] = "idle" /\ op'[r] = NoOp => pc'[r] \in StepsOf(op'[r].kind)
    BY DEF NoOp, StepsOf
  <2>1. CASE Change(r)
    <3>1. CASE End(r)
      BY <2>0, <3>1 DEF End, TypeOK
    <3>2. CASE op' = op /\ pc'[r] \in StepsOf(op[r].kind)
      BY <3>2
    <3>3. CASE Resolve(r)
      BY <1>0, <3>1, <3>2, <3>3 DEF Resolve, GotoWith, TypeOK, StepsOf, Kinds
    <3>4. CASE LockManifest(r)
      BY <1>0, <3>2, <3>4 DEF LockManifest, Goto, TypeOK, StepsOf, Kinds
    <3>5. CASE LockToolsets(r)
      BY <1>0, <3>2, <3>5 DEF LockToolsets, GotoWith, TypeOK, StepsOf, Kinds
    <3>6. CASE ChangeAdd(r)
      BY <1>0, <3>2, <3>6 DEF ChangeAdd, Goto, TypeOK, StepsOf, Kinds
    <3>7. CASE ChangeRemove(r)
      BY <1>0, <3>2, <3>7 DEF ChangeRemove, Goto, GotoWith, TypeOK, StepsOf, Kinds
    <3>8. CASE Disable(r)
      BY <1>0, <3>2, <3>8 DEF Disable, Goto, GotoWith, TypeOK, StepsOf, Kinds
    <3>9. CASE WriteManifest(r)
      BY <1>0, <3>2, <3>9 DEF WriteManifest, Goto, TypeOK, StepsOf, Kinds
    <3>10. CASE Restore(r)
      BY <1>0, <3>2, <3>10 DEF Restore, Goto, TypeOK, StepsOf, Kinds
    <3>11. CASE Unlock(r)
      BY <1>0, <3>1, <3>2, <3>11 DEF Unlock, Goto, TypeOK, StepsOf, Kinds
    <3>12. CASE After(r) \/ Inspect(r)
      BY <1>0, <3>1, <3>2, <3>12 DEF After, Inspect, Goto, GotoWith, TypeOK, StepsOf, Kinds
    <3> QED
      BY <2>1, <3>3, <3>4, <3>5, <3>6, <3>7, <3>8, <3>9, <3>10, <3>11, <3>12 DEF Change
  <2>2. CASE Access(r)
    <3>1. CASE End(r)
      BY <2>0, <3>1 DEF End, TypeOK
    <3>2. CASE op' = op /\ pc'[r] \in StepsOf(op[r].kind)
      BY <3>2
    <3> QED
      BY <1>0, <2>2, <3>1, <3>2 DEF Access, Known, Current, Defaults, ReadCatalog, WriteOverride, ClearOverride,
         Goto, GotoWith, TypeOK, StepsOf, Kinds
  <2>3. CASE Personality(r)
    <3>1. CASE End(r)
      BY <2>0, <3>1 DEF End, TypeOK
    <3>2. CASE op' = op /\ pc'[r] \in StepsOf(op[r].kind)
      BY <3>2
    <3> QED
      BY <1>0, <2>3, <3>1, <3>2 DEF Personality, Author, AuthorClears, WriteDocument, Unauthor, Delete,
         DeleteDocument, DeleteOverride, Goto, GotoWith, TypeOK, StepsOf, Kinds
  <2>4. CASE Apply(r)
    <3>1. CASE End(r)
      BY <2>0, <3>1 DEF End, TypeOK
    <3>2. CASE op' = op /\ pc'[r] \in StepsOf(op[r].kind)
      BY <3>2
    <3> QED
      BY <1>0, <2>4, <3>1, <3>2 DEF Apply, Compare, SetProfile, InstructionsFail, Undo, Applied, ReadVoice,
         WriteVoice, Goto, GotoWith, TypeOK, StepsOf, Kinds
  <2>5. CASE Loading(r)
    <3>1. CASE End(r)
      BY <2>0, <3>1 DEF End, TypeOK
    <3>2. CASE op' = op /\ pc'[r] \in StepsOf(op[r].kind)
      BY <3>2
    <3>3. CASE Load(r) \/ Fallback(r) \/ Initialize(r) \/ Reload(r)
      BY <1>0, <1>2, <3>1, <3>2, <3>3 DEF Load, Fallback, Initialize, Reload, Goto, GotoWith, TypeOK, StepsOf, Kinds
    <3>4. CASE ReadNames(r) \/ Build(r)
      BY <1>0, <3>1, <3>2, <3>4 DEF ReadNames, Build, LoadFails, Goto, GotoWith, TypeOK, StepsOf, Kinds
    <3> QED
      BY <2>5, <3>3, <3>4 DEF Loading
  <2> QED
    BY <1>2, <2>1, <2>2, <2>3, <2>4, <2>5 DEF Step
<1> QED
  BY <1>1, <1>2 DEF Acts

LEMMA KeepsSession ==
  ASSUME TypeOK, Onward, Session, NEW r \in Requests, Acts(r)
  PROVE  Session'
<1>0. /\ \A q \in Requests \ {r} : pc'[q] = pc[q] /\ op'[q] = op[q]
      /\ \A q \in Requests : Attends(q)
      /\ pc[r] \in StepsOf(op[r].kind) /\ op[r].kind \in Kinds
  BY OthersUntouched, RequestTypes, TypeParts DEF Session, Onward, Operations
<1>1. CASE \E o \in Asked : Ask(r, o)
  <2>1. PICK o \in Asked : Ask(r, o)
    BY <1>1
  <2>2. /\ o.kind \in Kinds /\ pc'[r] = First(o.kind) /\ op'[r] = o /\ pc[r] = "idle"
        /\ Admitted(o.kind) /\ UNCHANGED main
    BY <2>1, StoresAssumption DEF Ask, TypeOK, Operations, process
  <2>3. ASSUME NEW q \in Requests, q # r, pc[q] # "idle"
        PROVE  Attends(q)'
    <3>1. o.kind \notin Alone
      BY <1>0, <2>2, <2>3 DEF Admitted, Alone, Resting
    <3> QED
      BY <1>0, <2>2, <2>3, <3>1 DEF Attends, Down
  <2>4. Attends(r)'
    <3>1. o.kind \in Alone => Down /\ \A q \in Requests : pc[q] = "idle"
      BY <2>2 DEF Admitted, Alone, Resting
    <3>2. Down => o.kind \in Alone
      BY <2>2 DEF Admitted, Alone, Down
    <3>3. (o.kind = "start" => pc'[r] = "load") /\ (o.kind = "apply" => pc'[r] = "compare")
      BY <2>2 DEF First
    <3> QED
      BY <1>0, <2>2, <3>1, <3>2, <3>3 DEF Attends, Down
  <2> QED
    BY <1>0, <2>3, <2>4 DEF Session, Attends
<1>2. CASE Step(r) /\ ~Ends
  <2>0. pc[r] # "idle" /\ (op' = op \/ pc'[r] = "idle")
    BY <1>2, Moves
  <2>1. CASE Load(r)
    <3>1. /\ pc[r] = "load" /\ pc'[r] = "initialize" /\ main' = "starting" /\ op' = op
          /\ op[r].kind = "start"
      BY <1>0, <2>1 DEF Load, Goto, TypeOK, StepsOf, Kinds
    <3>2. Down
      BY <1>0, <3>1 DEF Attends, Alone
    <3>3. \A q \in Requests \ {r} : pc[q] = "idle"
      BY <1>0, <3>1, <3>2 DEF Attends, Alone
    <3> QED
      BY <1>0, <3>1, <3>3 DEF Session, Attends, Down
  <2>2. CASE op[r].kind = "start" /\ pc'[r] = "idle" /\ main' = "up"
    <3>1. \A q \in Requests \ {r} : pc[q] # "idle" => op[q].kind \notin Alone
      BY <1>0, <2>0, <2>2 DEF Attends, Alone
    <3> QED
      BY <1>0, <2>2, <3>1 DEF Session, Attends, Down
  <2>3. CASE main' = main /\ ~Load(r)
    <3>1. ASSUME NEW q \in Requests, q # r
          PROVE  Attends(q)'
      BY <1>0, <2>0, <2>3, <3>1 DEF Attends, Down
    <3>2. CASE pc'[r] = "idle"
      BY <3>1, <3>2 DEF Session, Attends
    <3>3. CASE pc'[r] # "idle"
      <4>1. op[r].kind = "start" => ~Down /\ pc'[r] # "load"
        <5>1. pc[r] = "load" => ~Step(r)
          BY <2>3 DEF Step, Change, Resolve, LockManifest, LockToolsets, ChangeAdd, ChangeRemove, Disable,
             WriteManifest, Restore, Unlock, After, Inspect, Access, Known, Current, Defaults, ReadCatalog,
             WriteOverride, ClearOverride, Personality, Author, AuthorClears, WriteDocument, Unauthor,
             Delete, DeleteDocument, DeleteOverride, Apply, Compare, SetProfile, InstructionsFail, Undo,
             Applied, ReadVoice, WriteVoice, Loading, Initialize, Reload, ReadNames, Build, Fallback
        <5>2. op[r].kind = "start" => Loading(r)
          <6>1. op[r].kind = "start" => pc[r] \in {"load", "initialize", "names", "build", "fallback", "reload"}
            BY <1>0 DEF StepsOf
          <6> QED
            BY <1>2, <6>1 DEF Step, Change, Resolve, LockManifest, LockToolsets, ChangeAdd, ChangeRemove, Disable,
             WriteManifest, Restore, Unlock, After, Inspect, Access, Known, Current, Defaults, ReadCatalog,
             WriteOverride, ClearOverride, Personality, Author, AuthorClears, WriteDocument, Unauthor,
             Delete, DeleteDocument, DeleteOverride, Apply, Compare, SetProfile, InstructionsFail, Undo,
             Applied, ReadVoice, WriteVoice
        <5>3. Loading(r) => pc'[r] # "load"
          BY <1>2, <2>3 DEF Loading, Initialize, Reload, ReadNames, Build, Fallback, LoadFails, Goto, GotoWith,
             End, TypeOK
        <5> QED
          BY <1>0, <1>2, <2>0, <5>1, <5>2, <5>3 DEF Attends
      <4>2. op[r].kind = "apply" => pc'[r] = "compare" \/ main' = "up"
        <5>1. op[r].kind = "apply" /\ pc[r] = "compare" => Compare(r)
          BY <1>2 DEF Step, Change, Resolve, LockManifest, LockToolsets, ChangeAdd, ChangeRemove, Disable,
             WriteManifest, Restore, Unlock, After, Inspect, Access, Known, Current, Defaults, ReadCatalog,
             WriteOverride, ClearOverride, Personality, Author, AuthorClears, WriteDocument, Unauthor,
             Delete, DeleteDocument, DeleteOverride, Apply, SetProfile, InstructionsFail, Undo,
             Applied, ReadVoice, WriteVoice, Loading, Load, Initialize, Reload, ReadNames, Build, Fallback
        <5>2. Compare(r) => main = "up"
          BY <3>3 DEF Compare, End, TypeOK
        <5> QED
          BY <1>0, <2>0, <2>3, <5>1, <5>2 DEF Attends
      <4> QED
        BY <1>0, <2>0, <2>3, <3>1, <3>3, <4>1, <4>2 DEF Session, Attends, Down, Alone
    <3> QED
      BY <3>2, <3>3
  <2> QED
    BY <1>2, <2>1, <2>2, <2>3, MainSteps
<1> QED
  BY <1>1, <1>2 DEF Acts

\* The active profile: set by a start or by an applied personality.
LEMMA ActiveSteps ==
  ASSUME TypeOK, Onward, NEW r \in Requests, Step(r), ~Ends
  PROVE  \/ active' = active
         \/ op[r].kind = "start" /\ (locked => active' \in {Default, Pinned}) /\ pc[r] \in {"load", "fallback"}
         \/ op[r].kind = "apply" /\ (pc[r] = "compare" => active' = active)
<1>0. pc[r] \in StepsOf(op[r].kind) /\ op[r].kind \in Kinds
  BY RequestTypes, TypeParts DEF Onward, Operations
<1>1. CASE Change(r)
  BY <1>1 DEF Change, Resolve, LockManifest, LockToolsets, ChangeAdd, ChangeRemove, Disable,
     WriteManifest, Restore, Unlock, After, Inspect, process
<1>2. CASE Access(r) \/ Personality(r)
  BY <1>2 DEF Access, Known, Current, Defaults, ReadCatalog, WriteOverride, ClearOverride,
     Personality, Author, AuthorClears, WriteDocument, Unauthor, Delete, DeleteDocument, DeleteOverride, process
<1>3. CASE Apply(r)
  <2>1. CASE Compare(r)
    BY <2>1 DEF Compare, Persist, NothingPersisted
  <2>2. CASE SetProfile(r) \/ InstructionsFail(r) \/ Undo(r) \/ Applied(r) \/ ReadVoice(r) \/ WriteVoice(r)
    <3>1. active' = active \/ pc[r] \in {"set", "undo", "applied"}
      BY <2>2 DEF SetProfile, InstructionsFail, Undo, Applied, ReadVoice, WriteVoice, process
    <3> QED
      BY <1>0, <3>1 DEF StepsOf, Kinds
  <2> QED
    BY <1>3, <2>1, <2>2 DEF Apply
<1>4. CASE Loading(r)
  <2>1. CASE Load(r) \/ Fallback(r)
    <3>1. /\ pc[r] \in {"load", "fallback"}
          /\ locked => active' \in {Default, Pinned}
      BY <1>2, <2>1 DEF Load, Fallback
    <3> QED
      BY <1>0, <3>1 DEF StepsOf, Kinds
  <2>2. CASE Initialize(r) \/ Reload(r) \/ ReadNames(r) \/ Build(r)
    BY <2>2 DEF Initialize, Reload, ReadNames, Build, process
  <2> QED
    BY <1>4, <2>1, <2>2 DEF Loading
<1> QED
  BY <1>1, <1>2, <1>3, <1>4 DEF Step

LEMMA KeepsPinned ==
  ASSUME TypeOK, Onward, PinnedStays, NEW r \in Requests, Acts(r)
  PROVE  PinnedStays'
<1> SUFFICES ASSUME locked PROVE PinnedStays'
  <2>1. locked' = locked
    BY Moves DEF Acts, Ask, limits
  <2> QED
    BY <2>1 DEF PinnedStays
<1>0. /\ active \in {Default, Pinned} /\ defined[Pinned] # None
      /\ \A q \in Requests : op[q].kind \notin Admin
      /\ \A q \in Requests \ {r} : op'[q] = op[q]
      /\ pc[r] \in StepsOf(op[r].kind) /\ op[r].kind \in Kinds
  BY OthersUntouched, RequestTypes, TypeParts DEF PinnedStays, Onward, Operations
<1>1. CASE \E o \in Asked : Ask(r, o)
  <2>1. PICK o \in Asked : Ask(r, o)
    BY <1>1
  <2>2. op'[r] = o /\ o.kind \notin Admin /\ UNCHANGED <<active, defined>>
    BY <2>1 DEF Ask, Admitted, Admin, TypeOK, files, process
  <2> QED
    BY <1>0, <2>2 DEF PinnedStays
<1>2. CASE Step(r) /\ ~Ends
  <2>1. op'[r].kind \notin Admin
    <3>1. op' = op \/ op'[r] = NoOp
      BY <1>2, Moves
    <3> QED
      BY <1>0, <3>1 DEF NoOp, Admin
  <2>2. active' \in {Default, Pinned}
    BY <1>0, <1>2, ActiveSteps DEF Admin
  <2>3. UNCHANGED defined
    <3>1. CASE Change(r)
      BY <3>1 DEF Change, Resolve, LockManifest, LockToolsets, ChangeAdd, ChangeRemove, Disable,
         WriteManifest, Restore, Unlock, After, Inspect, files
    <3>2. CASE Access(r) \/ Apply(r) \/ Loading(r)
      BY <1>2, <3>2, OutsideSteps
    <3>3. CASE Personality(r)
      <4>1. pc[r] \in {"author", "exists", "document", "unauthor", "delete", "rmtree", "clearDeleted"}
        BY <3>3 DEF Personality, Author, AuthorClears, WriteDocument, Unauthor, Delete, DeleteDocument, DeleteOverride
      <4> QED
        BY <1>0, <4>1 DEF StepsOf, Kinds, Admin
    <3> QED
      BY <1>2, <3>1, <3>2, <3>3 DEF Step
  <2> QED
    BY <1>0, <2>1, <2>2, <2>3 DEF PinnedStays
<1> QED
  BY <1>1, <1>2 DEF Acts

\* Faults are only counted up, and noted when the program is loaded.
LEMMA CountersGo ==
  ASSUME TypeOK, NEW r \in Requests, Acts(r)
  PROVE  /\ faults' = faults \/ faults' = faults + 1
         /\ faultsBefore' = faultsBefore \/ (Load(r) /\ faultsBefore' = faults)
<1>1. CASE \E o \in Asked : Ask(r, o)
  BY <1>1 DEF Ask, limits
<1>2. CASE Step(r) /\ ~Ends
  <2>1. faults' = faults \/ faults' = faults + 1
    BY <1>2, Moves DEF Works, Fault
  <2>2. faultsBefore' = faultsBefore \/ (Load(r) /\ faultsBefore' = faults)
    <3>1. CASE Change(r) \/ Access(r)
      BY <3>1 DEF Change, Resolve, LockManifest, LockToolsets, ChangeAdd, ChangeRemove, Disable, WriteManifest,
         Restore, Unlock, After, Inspect, Access, Known, Current, Defaults, ReadCatalog, WriteOverride,
         ClearOverride, limits
    <3>2. CASE Personality(r) \/ Apply(r)
      BY <3>2 DEF Personality, Author, AuthorClears, WriteDocument, Unauthor, Delete, DeleteDocument,
         DeleteOverride, Apply, Compare, SetProfile, InstructionsFail, Undo, Applied, ReadVoice, WriteVoice, limits
    <3>3. CASE Loading(r)
      BY <1>2, <3>3 DEF Loading, Load, Initialize, Reload, ReadNames, Build, Fallback, limits
    <3> QED
      BY <1>2, <3>1, <3>2, <3>3 DEF Step
  <2> QED
    BY <2>1, <2>2
<1> QED
  BY <1>1, <1>2 DEF Acts

\* What is read fails for the default profile, and for a pinned one, only by a fault.
LEMMA KeepsFallsBack ==
  ASSUME TypeOK, Onward, Session, PinnedStays, FallsBack, NEW r \in Requests, Acts(r)
  PROVE  FallsBack'
<1>a. /\ faults \in Nat /\ faultsBefore \in Nat /\ faultsBefore <= faults
      /\ faults' = faults \/ faults' = faults + 1
      /\ faultsBefore' = faultsBefore \/ (Load(r) /\ faultsBefore' = faults)
  BY CountersGo DEF FallsBack, TypeOK
<1> SUFFICES ASSUME NEW q \in Requests, pc'[q] = "fallback", faults' = faultsBefore'
             PROVE  active' # Default /\ ~locked'
  BY <1>a DEF FallsBack
<1>0. /\ \A p \in Requests \ {r} : pc'[p] = pc[p] /\ op'[p] = op[p]
      /\ pc[q] \in StepsOf(op[q].kind) /\ op[q].kind \in Kinds
      /\ pc[r] \in StepsOf(op[r].kind) /\ op[r].kind \in Kinds
  BY OthersUntouched, RequestTypes, TypeParts DEF Onward, Operations
<1>1. faults' = faults /\ (faults = faultsBefore \/ Load(r)) /\ locked' = locked
  <2>1. locked' = locked
    BY Moves DEF Acts, Ask, limits
  <2> QED
    BY <1>a, <2>1
<1>2. CASE q # r
  <2>0. pc[q] = "fallback"
    BY <1>0, <1>2
  <2>2. op[q].kind = "start" /\ ~Down /\ main = "starting"
    <3>1. op[q].kind = "start"
      BY <1>0, <2>0 DEF StepsOf, Kinds
    <3> QED
      BY <2>0, <3>1 DEF Session, Attends, Alone
  <2>1. pc[q] = "fallback" /\ active # Default /\ ~locked
    <3>1. ~Load(r)
      <4>1. ASSUME Load(r) PROVE op[r].kind = "start"
        BY <1>0, <4>1 DEF Load, StepsOf, Kinds
      <4> QED
        BY <1>2, <2>0, <2>2, <4>1 DEF Load, Session, Attends, Alone
    <3> QED
      BY <1>1, <2>0, <3>1 DEF FallsBack
  <2>3. active' = active
    <3>1. CASE \E o \in Asked : Ask(r, o)
      BY <3>1 DEF Ask, process
    <3>2. CASE Step(r) /\ ~Ends
      <4>1. pc[r] # "idle"
        BY <3>2, Moves
      <4>2. op[r].kind # "start"
        BY <1>2, <2>1, <2>2, <4>1 DEF Session, Attends, Alone
      <4>3. op[r].kind = "apply" => pc[r] = "compare"
        BY <2>2, <4>1 DEF Session, Attends
      <4> QED
        BY <3>2, <4>2, <4>3, ActiveSteps
    <3> QED
      BY <3>1, <3>2 DEF Acts
  <2> QED
    BY <1>1, <2>1, <2>3
<1>3. CASE q = r
  <2>1. Step(r) /\ ~Ends
    <3>1. ASSUME NEW o \in Asked, Ask(r, o)
          PROVE  FALSE
      <4>1. o.kind \in Kinds /\ First(o.kind) = "fallback"
        BY <1>3, <3>1, StoresAssumption DEF Ask, TypeOK, Operations
      <4> QED
        BY <4>1 DEF First, Kinds
    <3> QED
      BY <3>1 DEF Acts
  <2>2. Loading(r)
    <3>1. ~Change(r)
      BY <1>3 DEF Change, Resolve, LockManifest, LockToolsets, ChangeAdd, ChangeRemove, Disable,
         WriteManifest, Restore, Unlock, After, Inspect, Goto, GotoWith, End, TypeOK
    <3>2. ~Access(r) /\ ~Personality(r)
      BY <1>3 DEF Access, Known, Current, Defaults, ReadCatalog, WriteOverride, ClearOverride,
         Personality, Author, AuthorClears, WriteDocument, Unauthor, Delete, DeleteDocument, DeleteOverride,
         Goto, GotoWith, End, TypeOK
    <3>3. ~Apply(r)
      BY <1>3 DEF Apply, Compare, SetProfile, InstructionsFail, Undo, Applied, ReadVoice, WriteVoice,
         Goto, GotoWith, End, TypeOK
    <3> QED
      BY <2>1, <3>1, <3>2, <3>3 DEF Step
  <2>3. ReadNames(r) /\ ~Readable(active) /\ UNCHANGED active
    <3>1. ~Load(r) /\ ~Initialize(r) /\ ~Reload(r)
      BY <1>3 DEF Load, Initialize, Reload, Goto, GotoWith, End, TypeOK
    <3>2. ~Fallback(r)
      BY <1>3, <2>1 DEF Fallback, Goto, TypeOK
    <3>3. ~Fault
      BY <1>a, <1>1 DEF Fault
    <3>4. ~Build(r)
      BY <1>3, <3>3 DEF Build, Goto, End, TypeOK
    <3>5. ReadNames(r)
      BY <2>2, <3>1, <3>2, <3>4 DEF Loading
    <3>6. ~GotoWith(r, "build", [mem[r] EXCEPT !.tools = Effective(active)])
      BY <1>3 DEF GotoWith, TypeOK
    <3> QED
      BY <3>3, <3>5, <3>6 DEF ReadNames, FailsIf
  <2>4. active # Default
    BY <2>3 DEF Readable, Effective, TypeOK
  <2>5. ~locked
    BY <2>3, <2>4 DEF PinnedStays, Readable, Effective
  <2> QED
    BY <1>1, <2>3, <2>4, <2>5
<1> QED
  BY <1>2, <1>3

LEMMA InitSession == Init => SessionInv
<1> SUFFICES ASSUME Init PROVE SessionInv
  OBVIOUS
<1>1. IInv
  BY InitIInv
<1>2. \A r \in Requests : pc[r] = "idle" /\ op[r] = NoOp
  BY DEF Init
<1>3. Onward /\ Session /\ FallsBack
  <2>1. "idle" \in StepsOf(NoOp.kind)
    BY DEF StepsOf, NoOp
  <2> QED
    BY <1>2, <2>1 DEF Init, Onward, Session, Attends, FallsBack
<1>4. PinnedStays /\ OnlyFaultsRefuse
  BY <1>2 DEF Init, PinnedStays, Admin, NoOp, OnlyFaultsRefuse
<1> QED
  BY <1>1, <1>3, <1>4 DEF SessionInv

LEMMA StepSession == SessionInv /\ [Next]_vars => SessionInv'
<1> SUFFICES ASSUME SessionInv, [Next]_vars PROVE SessionInv'
  OBVIOUS
<1>0. IInv /\ TypeOK /\ Onward /\ Session /\ PinnedStays /\ FallsBack /\ OnlyFaultsRefuse
      /\ faults \in Nat /\ faultsBefore \in Nat
  BY DEF SessionInv, IInv, TypeOK
<1>1. IInv'
  BY <1>0, StepIInv
<1>2. ASSUME NEW r \in Requests, Acts(r)
      PROVE  SessionInv'
  <2>1. Onward' /\ Session' /\ PinnedStays' /\ FallsBack'
    BY <1>0, <1>2, KeepsOnward, KeepsSession, KeepsPinned, KeepsFallsBack
  <2>2. main' # "refused" \/ (main = "refused" /\ faults' >= faults /\ faultsBefore' = faultsBefore)
    <3>0. faults' >= faults /\ (faultsBefore' = faultsBefore \/ Load(r))
      BY <1>0, <1>2, CountersGo
    <3>1. CASE \E o \in Asked : Ask(r, o)
      BY <1>0, <3>1 DEF Ask, process, limits
    <3>2. CASE Step(r) /\ ~Ends
      <4>1. Load(r) => main' = "starting"
        BY DEF Load
      <4> QED
        BY <1>0, <3>0, <3>2, <4>1, MainSteps
    <3> QED
      BY <1>2, <3>1, <3>2 DEF Acts
  <2>3. OnlyFaultsRefuse'
    <3>1. faults' \in Nat /\ faultsBefore' \in Nat
      BY <1>1 DEF IInv, TypeOK
    <3> QED
      BY <1>0, <2>2, <3>1 DEF OnlyFaultsRefuse
  <2> QED
    BY <1>1, <2>1, <2>3 DEF SessionInv
<1>3. ASSUME Ends, main' = "refused" => faults > faultsBefore
      PROVE  SessionInv'
  <2>1. \A r \in Requests : pc'[r] = "idle" /\ op'[r] = NoOp
    BY <1>3 DEF Ends
  <2>2. Onward' /\ Session' /\ FallsBack'
    <3>1. "idle" \in StepsOf(NoOp.kind)
      BY DEF StepsOf, NoOp
    <3> QED
      BY <1>0, <1>3, <2>1, <3>1 DEF Ends, Onward, Session, Attends, FallsBack
  <2>3. PinnedStays'
    BY <1>0, <1>3, <2>1 DEF Ends, files, PinnedStays, Admin, NoOp
  <2>4. OnlyFaultsRefuse'
    BY <1>3 DEF Ends, OnlyFaultsRefuse
  <2> QED
    BY <1>1, <2>2, <2>3, <2>4 DEF SessionInv
<1>4. CASE Crash
  BY <1>3, <1>4 DEF Crash
<1>5. ASSUME NEW r \in Requests, Step(r), Ends
      PROVE  SessionInv'
  <2>1. CASE pc[r] = "fallback"
    <3>1. Fallback(r)
      BY <1>5, <2>1 DEF Step, Change, Resolve, LockManifest, LockToolsets, ChangeAdd, ChangeRemove, Disable,
         WriteManifest, Restore, Unlock, After, Inspect, Access, Known, Current, Defaults, ReadCatalog,
         WriteOverride, ClearOverride, Personality, Author, AuthorClears, WriteDocument, Unauthor,
         Delete, DeleteDocument, DeleteOverride, Apply, Compare, SetProfile, InstructionsFail, Undo,
         Applied, ReadVoice, WriteVoice, Loading, Load, Initialize, Reload, ReadNames, Build
    <3>2. CASE active = Default \/ locked
      BY <1>0, <1>3, <2>1, <3>1, <3>2 DEF Fallback, FallsBack
    <3>3. CASE ~(active = Default \/ locked)
      BY <1>0, <1>5, <3>1, <3>3 DEF Fallback, Ends, Goto, TypeOK, Blank
    <3> QED
      BY <3>2, <3>3
  <2>2. CASE pc[r] # "fallback"
    <3>1. main' = "refused" => main = "refused"
      BY <1>0, <1>5, <2>2, MainSteps
    <3> QED
      BY <1>0, <1>3, <1>5, <3>1 DEF OnlyFaultsRefuse
  <2> QED
    BY <2>1, <2>2
<1>6. CASE UNCHANGED vars
  BY <1>0, <1>1, <1>6 DEF vars, files, process, requests, limits, SessionInv, Onward, Session, Attends, Down,
     PinnedStays, FallsBack, OnlyFaultsRefuse
<1> QED
  BY <1>2, <1>4, <1>5, <1>6 DEF Next, Acts, Step

\* The program refuses to start only if a read or write failed since it was started
\* (initialize_tools_with_default_fallback): the default profile always has its
\* document, and a pinned one keeps its own, whatever failed before.
THEOREM OnlyFaultsKeepItDown == Spec => []OnlyFaultsRefuse
<1>1. SessionInv => OnlyFaultsRefuse
  BY DEF SessionInv
<1> QED
  BY <1>1, InitSession, StepSession, PTL DEF Spec

-----------------------------------------------------------------------------
(* The loops and the registry: who runs on them without an await *)

Runs(r) ==
  /\ pc[r] \in {"names", "build"} => locks["registry"] = r
  /\ op[r].kind = "apply" /\ pc[r] \in {"reload", "names", "build", "undo"} => locks["conversation"] = r
  /\ op[r].kind = "use" /\ pc[r] \in {"names", "build"} => locks["conversation"] = r
  /\ pc[r] = "writeVoice" => locks["conversation"] = r
  /\ pc[r] \in {"exists", "document", "unauthor", "rmtree", "clearDeleted"} => locks["server"] = r
RunsAlone == \A r \in Requests : Runs(r)

\* A lock is taken when it is free and given back by its holder.
Loops == {"registry", "conversation", "server"}
LocksPass(r) == \A l \in Loops : locks'[l] = locks[l] \/ locks[l] \in {Free, r}

\* Where a request is on no loop.
Aside == {"idle", "resolve", "lock", "lock2", "change", "disable", "write", "committed", "restore", "restored",
          "refused", "lost", "after", "inspect", "known", "current", "defaults", "catalog", "override", "clear",
          "author", "delete", "compare", "set", "applied", "readVoice", "load", "initialize", "fallback"}

LEMMA AsideRuns ==
  ASSUME NEW r \in Requests, pc'[r] \in Aside
  PROVE  Runs(r)'
BY DEF Aside, Runs

LEMMA LoadingRuns ==
  ASSUME TypeOK, Onward, NEW r \in Requests, Runs(r), Loading(r), ~Ends
  PROVE  Runs(r)' /\ LocksPass(r)
<1>0. pc[r] \in StepsOf(op[r].kind) /\ op[r].kind \in Kinds
  BY RequestTypes, TypeParts DEF Onward, Operations
<1>1. CASE Load(r) \/ Fallback(r)
  <2>1. pc[r] \in {"load", "fallback"} /\ pc'[r] \in {"initialize", "reload"} /\ UNCHANGED <<op, locks>>
    BY <1>1 DEF Load, Fallback, Goto, TypeOK
  <2>2. op[r].kind = "start"
    BY <1>0, <2>1 DEF StepsOf, Kinds
  <2> QED
    BY <2>1, <2>2 DEF Runs, LocksPass
<1>2. CASE Initialize(r)
  <2> DEFINE own == IF op[r].kind = "use" THEN {"registry", "conversation"} ELSE {"registry"}
  <2>1. CASE End(r) /\ UNCHANGED locks
    BY <2>1, AsideRuns DEF End, TypeOK, Aside, LocksPass
  <2>2. CASE Hold(r, own) /\ pc'[r] = "names" /\ UNCHANGED op
    <3>1. op[r].kind # "apply"
      BY <1>0, <1>2 DEF Initialize, StepsOf, Kinds
    <3> QED
      BY <2>2, <3>1 DEF Hold, Runs, LockNames, LocksPass, Loops
  <2> QED
    BY <1>2, <2>1, <2>2 DEF Initialize, GotoWith, TypeOK
<1>3. CASE Reload(r)
  <2>1. pc[r] = "reload" /\ pc'[r] = "names" /\ UNCHANGED op /\ Hold(r, {"registry"})
    BY <1>3 DEF Reload, GotoWith, TypeOK
  <2>2. op[r].kind # "use"
    BY <1>0, <2>1 DEF StepsOf, Kinds
  <2> QED
    BY <2>1, <2>2 DEF Hold, Runs, LockNames, LocksPass, Loops
<1>4. CASE (ReadNames(r) \/ Build(r)) /\ pc'[r] = "build"
  <2>1. pc[r] = "names" /\ UNCHANGED <<op, locks>>
    BY <1>4 DEF ReadNames, Build, LoadFails, Goto, GotoWith, End, TypeOK
  <2> QED
    BY <1>4, <2>1 DEF Runs, LocksPass
<1>5. CASE (ReadNames(r) \/ Build(r)) /\ pc'[r] # "build"
  <2>1. /\ pc[r] \in {"names", "build"}
        /\ \/ Release(r, {"registry"} \cup IF op[r].kind = "use" THEN {"conversation"} ELSE {})
              /\ \/ op[r].kind = "apply" /\ pc'[r] = "undo" /\ UNCHANGED op
                 \/ pc'[r] \in Aside
           \/ /\ Release(r, {"registry"} \cup IF op[r].kind \in {"use", "apply"} THEN {"conversation"} ELSE {})
              /\ pc'[r] \in Aside
    BY <1>5 DEF ReadNames, Build, LoadFails, Goto, GotoWith, End, TypeOK, Aside
  <2>2. LocksPass(r)
    BY <2>1 DEF Release, LockNames, Runs, LocksPass, Loops
  <2>3. CASE pc'[r] \in Aside
    BY <2>2, <2>3, AsideRuns
  <2>4. CASE pc'[r] \notin Aside
    <3>1. op[r].kind = "apply" /\ pc'[r] = "undo" /\ UNCHANGED op /\ Release(r, {"registry"})
      BY <2>1, <2>4
    <3> QED
      BY <2>1, <2>2, <3>1 DEF Release, LockNames, Runs
  <2> QED
    BY <2>3, <2>4
<1> QED
  BY <1>1, <1>2, <1>3, <1>4, <1>5 DEF Loading

LEMMA ApplyRuns ==
  ASSUME TypeOK, Onward, NEW r \in Requests, Runs(r), Apply(r)
  PROVE  Runs(r)' /\ LocksPass(r)
<1>0. pc[r] \in StepsOf(op[r].kind) /\ op[r].kind \in Kinds
  BY RequestTypes, TypeParts DEF Onward, Operations
<1>1. CASE Compare(r) \/ Applied(r)
  <2>1. pc'[r] \in Aside /\ UNCHANGED locks
    BY <1>1 DEF Compare, Applied, Goto, End, TypeOK, Aside
  <2> QED
    BY <2>1, AsideRuns DEF LocksPass
<1>2. CASE SetProfile(r) \/ ReadVoice(r)
  <2>1. pc[r] \in {"set", "readVoice"} /\ pc'[r] \in {"reload", "writeVoice"} /\ UNCHANGED op /\ Hold(r, {"conversation"})
    BY <1>2 DEF SetProfile, ReadVoice, GotoWith, TypeOK
  <2> QED
    BY <2>1 DEF Hold, Runs, LockNames, LocksPass, Loops
<1>3. CASE InstructionsFail(r)
  <2>1. pc[r] = "reload" /\ pc'[r] = "undo" /\ UNCHANGED <<op, locks>>
    BY <1>3 DEF InstructionsFail, Goto, TypeOK
  <2> QED
    BY <2>1 DEF Runs, LocksPass
<1>4. CASE Undo(r) \/ WriteVoice(r)
  <2>1. pc[r] \in {"undo", "writeVoice"} /\ pc'[r] = "idle" /\ Release(r, {"conversation"})
    BY <1>4 DEF Undo, WriteVoice, End, TypeOK
  <2>2. locks["conversation"] = r
    BY <1>0, <2>1 DEF Runs, StepsOf, Kinds
  <2>3. LocksPass(r)
    BY <2>1, <2>2 DEF Release, LockNames, LocksPass, Loops
  <2> QED
    BY <2>1, <2>3, AsideRuns DEF Aside
<1> QED
  BY <1>1, <1>2, <1>3, <1>4 DEF Apply

LEMMA PersonalityRuns ==
  ASSUME TypeOK, NEW r \in Requests, Runs(r), Personality(r)
  PROVE  Runs(r)' /\ LocksPass(r)
<1>1. CASE Author(r)
  <2>1. pc'[r] = "exists" /\ Hold(r, {"server"})
    BY <1>1 DEF Author, Goto, TypeOK
  <2> QED
    BY <2>1 DEF Hold, LockNames, Runs, LocksPass, Loops
<1>2. CASE Delete(r)
  <2>1. \/ pc'[r] = "idle" /\ UNCHANGED locks
        \/ pc'[r] = "rmtree" /\ Hold(r, {"server"})
    BY <1>2 DEF Delete, Goto, End, TypeOK
  <2> QED
    BY <2>1 DEF Hold, LockNames, Runs, LocksPass, Loops
<1>3. CASE AuthorClears(r) \/ WriteDocument(r) \/ Unauthor(r) \/ DeleteDocument(r) \/ DeleteOverride(r)
  <2>1. /\ pc[r] \in {"exists", "document", "unauthor", "rmtree", "clearDeleted"}
        /\ \/ pc'[r] = "idle" /\ (Release(r, {"server"}) \/ Release(r, {"server", "toolsets"}))
           \/ /\ pc'[r] \in {"document", "unauthor", "clearDeleted"}
              /\ locks' = locks \/ locks' = [locks EXCEPT !["toolsets"] = r]
    BY <1>3 DEF AuthorClears, WriteDocument, Unauthor, DeleteDocument, DeleteOverride, Goto, GotoWith, End, TypeOK
  <2>2. locks["server"] = r
    BY <2>1 DEF Runs
  <2>3. CASE pc'[r] = "idle"
    <3>1. LocksPass(r)
      BY <2>1, <2>2, <2>3 DEF Release, LockNames, LocksPass, Loops
    <3> QED
      BY <2>3, <3>1, AsideRuns DEF Aside
  <2>4. CASE pc'[r] # "idle"
    <3>1. \A l \in Loops : locks'[l] = locks[l]
      BY <2>1, <2>4 DEF TypeOK, LockNames, Loops
    <3> QED
      BY <2>1, <2>2, <2>4, <3>1 DEF Runs, LocksPass, Loops
  <2> QED
    BY <2>3, <2>4
<1> QED
  BY <1>1, <1>2, <1>3 DEF Personality

LEMMA ChangeRuns ==
  ASSUME TypeOK, Onward, NEW r \in Requests, Change(r)
  PROVE  Runs(r)' /\ LocksPass(r)
<1>0. pc[r] \in StepsOf(op[r].kind) /\ op[r].kind \in Kinds
  BY RequestTypes, TypeParts DEF Onward, Operations
<1> USE DEF Change, Resolve, LockManifest, LockToolsets, ChangeAdd, ChangeRemove, Disable, WriteManifest, Restore,
       Unlock, After, Inspect
<1>1. pc'[r] \in Aside \/ (pc'[r] = "reload" /\ op' = op /\ pc[r] \in {"after", "inspect"})
  BY DEF Goto, GotoWith, End, TypeOK, Aside
<1>2. UNCHANGED locks \/ \E ls \in SUBSET {"manifest", "toolsets"} : Hold(r, ls) \/ Release(r, ls)
  OBVIOUS
<1>3. LocksPass(r)
  BY <1>2 DEF Hold, Release, LockNames, LocksPass, Loops
<1>4. CASE pc'[r] \in Aside
  BY <1>3, <1>4, AsideRuns
<1>5. CASE pc'[r] = "reload" /\ op' = op /\ pc[r] \in {"after", "inspect"}
  <2>1. op'[r].kind \notin {"apply", "use"}
    BY <1>0, <1>5 DEF StepsOf, Kinds
  <2> QED
    BY <1>3, <1>5, <2>1 DEF Runs
<1> QED
  BY <1>1, <1>4, <1>5

LEMMA StepRuns ==
  ASSUME TypeOK, Onward, RunsAlone, NEW r \in Requests, Acts(r)
  PROVE  RunsAlone' /\ LocksPass(r)
<1>0. Runs(r)
  BY DEF RunsAlone
<1>1. Runs(r)' /\ LocksPass(r)
  <2>1. CASE \E o \in Asked : Ask(r, o)
    <3>1. PICK o \in Asked : Ask(r, o)
      BY <2>1
    <3>2. o.kind \in Kinds /\ pc'[r] = First(o.kind) /\ UNCHANGED locks
      BY <3>1, StoresAssumption DEF Ask, TypeOK, Operations
    <3>3. pc'[r] \in Aside
      BY <3>2 DEF First, Kinds, Aside
    <3> QED
      BY <3>2, <3>3, AsideRuns DEF LocksPass
  <2>2. CASE Access(r)
    <3>1. pc'[r] \in Aside /\ UNCHANGED locks
      BY <2>2 DEF Access, Known, Current, Defaults, ReadCatalog, WriteOverride, ClearOverride,
         Goto, GotoWith, End, TypeOK, Aside
    <3> QED
      BY <3>1, AsideRuns DEF LocksPass
  <2> QED
    BY <1>0, <2>1, <2>2, LoadingRuns, ApplyRuns, PersonalityRuns, ChangeRuns DEF Acts, Step
<1>2. ASSUME NEW q \in Requests, q # r
      PROVE  Runs(q)'
  <2>1. pc'[q] = pc[q] /\ op'[q] = op[q] /\ q # Free /\ Runs(q)
    BY <1>2, OthersUntouched, StoresAssumption DEF RunsAlone
  <2> QED
    BY <1>1, <1>2, <2>1 DEF Runs, LocksPass, Loops
<1> QED
  BY <1>1, <1>2 DEF RunsAlone

-----------------------------------------------------------------------------
(* What the stores say, and what their changes spare *)

\* The overrides of the profiles in a file of tool settings.
OverridesIn(ts) == IF ts = NoFile THEN [p \in Profiles |-> None] ELSE ts

\* The tools of a Space carry its alias.
SpacesKeep == \A s \in Spaces : Installed[s] # None => Installed[s] \subseteq ToolsOf(s)

\* A removal leaves the overrides of the profiles it did not hit; whoever writes
\* a personality, all others, and its own profile is in doubt until then; a
\* deleted personality has no document when its override goes.
Spares(r) ==
  /\ pc[r] = "write" /\ op[r].kind \in Removes =>
       \A p \in Profiles \ mem[r].hit : OverridesIn(mem[r].toolsets)[p] = Overrides[p]
  /\ pc[r] \in {"document", "unauthor"} =>
       /\ op[r].profile \in stale
       /\ \A p \in Profiles \ {op[r].profile} : OverridesIn(mem[r].toolsets)[p] = Overrides[p]
  /\ pc[r] = "clearDeleted" => defined[op[r].profile] = None
  /\ pc[r] = "override" => mem[r].hit = {op[r].profile} /\ op[r].kind = "save"
SparesOthers == \A r \in Requests : Spares(r)

\* Nothing is loaded without a program.
UnloadedDown == Down => served.profile = None

StoresInv ==
  /\ SessionInv
  /\ RunsAlone
  /\ SpacesKeep
  /\ SparesOthers
  /\ UnloadedDown

LEMMA WithoutDrops ==
  ASSUME FilesOK, NEW p \in Profiles, toolsets' = Without(p)
  PROVE  \A q \in Profiles : Overrides'[q] = IF q = p THEN None ELSE Overrides[q]
<1> DEFINE rest == [Overrides EXCEPT ![p] = None]
<1>1. rest \in Lists(Profiles, Tools) /\ Overrides \in Lists(Profiles, Tools)
  BY StoreTypes DEF Lists
<1>2. CASE \A q \in Profiles : rest[q] = None
  <2>1. toolsets' = NoFile
    BY <1>2 DEF Without
  <2>2. \A q \in Profiles : Overrides'[q] = None
    BY <2>1 DEF Overrides
  <2>3. \A q \in Profiles : q # p => Overrides[q] = None
    BY <1>1, <1>2 DEF Lists
  <2> QED
    BY <2>2, <2>3
<1>3. CASE ~\A q \in Profiles : rest[q] = None
  <2>1. toolsets' = rest
    BY <1>3 DEF Without
  <2>2. Overrides' = rest
    BY <1>1, <2>1, NothingAssumption DEF Overrides
  <2> QED
    BY <1>1, <2>2 DEF Lists
<1> QED
  BY <1>2, <1>3

LEMMA OverrideSets ==
  ASSUME FilesOK, NEW p \in Profiles, NEW names \in SUBSET Tools, toolsets' = [Overrides EXCEPT ![p] = names]
  PROVE  \A q \in Profiles : Overrides'[q] = IF q = p THEN names ELSE Overrides[q]
<1>1. Overrides \in Lists(Profiles, Tools) /\ [Overrides EXCEPT ![p] = names] \in Lists(Profiles, Tools)
  BY StoreTypes DEF Lists
<1>2. Overrides' = [Overrides EXCEPT ![p] = names]
  BY <1>1, NothingAssumption DEF Overrides
<1> QED
  BY <1>1, <1>2 DEF Lists

\* A document comes to be only where a personality is written.
LEMMA DocumentSteps ==
  ASSUME TypeOK, NEW r \in Requests, Acts(r)
  PROVE  (\A p \in Profiles : defined'[p] \in {defined[p], None}) \/ pc[r] = "document"
<1>1. CASE \E o \in Asked : Ask(r, o)
  BY <1>1 DEF Ask, files
<1>2. CASE Change(r)
  BY <1>2 DEF Change, Resolve, LockManifest, LockToolsets, ChangeAdd, ChangeRemove, Disable,
     WriteManifest, Restore, Unlock, After, Inspect, files
<1>3. CASE Access(r) \/ Apply(r) \/ (Loading(r) /\ ~Ends)
  BY <1>3, OutsideSteps
<1>4. CASE Personality(r)
  <2>1. CASE DeleteDocument(r)
    BY <2>1 DEF DeleteDocument, TypeOK, Lists
  <2> QED
    BY <1>4, <2>1 DEF Personality, Author, AuthorClears, WriteDocument, Unauthor, Delete, DeleteOverride, files
<1> QED
  BY <1>1, <1>2, <1>3, <1>4 DEF Acts, Step

\* Doubt about a profile ends when its names are read, and they are loaded then.
LEMMA StaleSteps ==
  ASSUME TypeOK, NEW r \in Requests, Acts(r)
  PROVE  stale \subseteq stale' \/ (ReadNames(r) /\ pc'[r] = "build" /\ stale' = stale \ {active})
<1>1. CASE \E o \in Asked : Ask(r, o)
  BY <1>1 DEF Ask, process
<1>2. CASE Change(r)
  BY <1>2 DEF Change, Resolve, LockManifest, LockToolsets, ChangeAdd, ChangeRemove, Disable,
     WriteManifest, Restore, Unlock, After, Inspect, Doubt, process, TypeOK
<1>3. CASE Access(r) \/ Personality(r)
  BY <1>3 DEF Access, Known, Current, Defaults, ReadCatalog, WriteOverride, ClearOverride,
     Personality, Author, AuthorClears, WriteDocument, Unauthor, Delete, DeleteDocument, DeleteOverride, process
<1>4. CASE Apply(r)
  BY <1>4 DEF Apply, Compare, SetProfile, InstructionsFail, Undo, Applied, ReadVoice, WriteVoice, Persist,
     NothingPersisted, process
<1>5. CASE Loading(r) /\ ~Ends
  <2>1. CASE ReadNames(r)
    BY <2>1 DEF ReadNames, LoadFails, GotoWith, TypeOK
  <2> QED
    BY <1>5, <2>1 DEF Loading, Load, Initialize, Reload, Build, Fallback, LoadFails, process, TypeOK
<1> QED
  BY <1>1, <1>2, <1>3, <1>4, <1>5 DEF Acts, Step

LEMMA KeepsSpaces ==
  ASSUME IInv, SpacesKeep, NEW r \in Requests, Acts(r)
  PROVE  SpacesKeep'
<1>0. TypeOK /\ HoldsStores /\ FilesOK /\ ControlOK /\ Agrees(r)
  BY TypeParts DEF IInv, StepsAgree
<1>1. CASE UNCHANGED manifest
  BY <1>1 DEF SpacesKeep, Installed, ToolsOf
<1>2. CASE WriteManifest(r) /\ manifest' # manifest
  <2> DEFINE new == IF op[r].kind \in {"add", "cliAdd"} THEN mem[r].tools ELSE None
  <2>1. pc[r] = "write" /\ manifest' = [Installed EXCEPT ![op[r].space] = new]
    BY <1>2 DEF WriteManifest
  <2>2. op[r].kind \in Adds => mem[r].tools \subseteq ToolsOf(op[r].space)
    BY <1>0, <2>1 DEF Agrees
  <2>3. Installed \in Lists(Spaces, Remote) /\ op[r].space \in Spaces
    BY <1>0, StoreTypes, RequestTypes
  <2>4. new \in {None} \cup SUBSET Remote
    BY <2>2 DEF ToolsOf, Adds
  <2>5. manifest' \in Lists(Spaces, Remote)
    BY <2>1, <2>3, <2>4 DEF Lists
  <2>6. Installed' = manifest'
    BY <2>5, NothingAssumption DEF Installed
  <2>7. \A s \in Spaces : Installed'[s] = IF s = op[r].space THEN new ELSE Installed[s]
    BY <2>1, <2>3, <2>6 DEF Lists
  <2>8. new # None => new \subseteq ToolsOf(op[r].space)
    BY <2>2 DEF Adds
  <2> QED
    BY <2>7, <2>8 DEF SpacesKeep, ToolsOf
<1>3. manifest' = manifest \/ WriteManifest(r)
  <2>1. CASE \E o \in Asked : Ask(r, o)
    BY <2>1 DEF Ask, files
  <2>2. CASE Change(r)
    BY <2>2 DEF Change, Resolve, LockManifest, LockToolsets, ChangeAdd, ChangeRemove, Disable, Restore, Unlock,
       After, Inspect, files
  <2>3. CASE Access(r) \/ Apply(r) \/ (Loading(r) /\ ~Ends)
    BY <1>0, <2>3, OutsideSteps
  <2>4. CASE Personality(r)
    BY <1>0, <2>4, PersonalitySteps
  <2> QED
    BY <2>1, <2>2, <2>3, <2>4 DEF Acts, Step
<1> QED
  BY <1>1, <1>2, <1>3

\* A removal spares the profiles it does not hit.
LEMMA DisableSpares ==
  ASSUME IInv, NEW r \in Requests, Disable(r), pc'[r] = "write"
  PROVE  /\ mem'[r].toolsets = toolsets
         /\ \A p \in Profiles \ mem'[r].hit : Overrides'[p] = Overrides[p]
<1> DEFINE gone == ToolsOf(op[r].space)
           hit == {p \in mem[r].hit : Effective(p) \cap gone # {}}
<1>0. /\ FilesOK /\ ControlOK /\ pc[r] = "disable" /\ mem[r] \in Memory /\ mem[r].toolsets = toolsets
  BY TypeParts, RequestTypes DEF IInv, Remembers, Recalls, Disable
<1>1. /\ \A p \in mem[r].hit : Readable(p)
      /\ toolsets' = IF hit = {} THEN toolsets
                     ELSE [p \in Profiles |-> IF p \in hit THEN Effective(p) \ gone ELSE Overrides[p]]
      /\ mem'[r] = [mem[r] EXCEPT !.hit = hit]
  BY <1>0 DEF Disable, Goto, GotoWith, ControlOK
<1>2. mem'[r].hit = hit /\ mem'[r].toolsets = toolsets
  BY <1>0, <1>1 DEF Memory
<1>3. CASE hit = {}
  BY <1>1, <1>2, <1>3 DEF Overrides
<1>4. CASE hit # {}
  <2>1. toolsets' = [p \in Profiles |-> IF p \in hit THEN Effective(p) \ gone ELSE Overrides[p]]
    BY <1>1, <1>4
  <2>2. \A p \in Profiles : (IF p \in hit THEN Effective(p) \ gone ELSE Overrides[p]) \in {None} \cup SUBSET Tools
    BY <1>0, <1>1, StoreTypes DEF Lists
  <2>3. toolsets' \in Lists(Profiles, Tools)
    BY <2>1, <2>2 DEF Lists
  <2>4. Overrides' = toolsets'
    BY <2>3, NothingAssumption DEF Overrides
  <2> QED
    BY <1>2, <2>1, <2>4
<1> QED
  BY <1>3, <1>4

LEMMA OthersSpared ==
  ASSUME IInv, RunsAlone, SparesOthers, NEW r \in Requests, Acts(r), NEW q \in Requests, q # r
  PROVE  Spares(q)'
<1>0. TypeOK /\ HoldsStores /\ Holds(q) /\ Spares(q) /\ Runs(q) /\ Runs(r) /\ q # Free
  BY StoresAssumption DEF IInv, HoldsStores, SparesOthers, RunsAlone
<1>1. pc'[q] = pc[q] /\ op'[q] = op[q] /\ mem'[q] = mem[q]
  BY <1>0, OthersUntouched
<1>2. locks["toolsets"] = q => UNCHANGED toolsets
  BY <1>0, Confined
<1>3. locks["toolsets"] = q => UNCHANGED Overrides
  BY <1>2 DEF Overrides
<1>4. locks["toolsets"] = q => stale \subseteq stale'
  BY <1>0, StaleSteps DEF ReadNames, Available
<1>5. pc[q] = "clearDeleted" => defined'[op[q].profile] \in {defined[op[q].profile], None}
  <2>1. pc[q] = "clearDeleted" => pc[r] # "document"
    BY <1>0 DEF Runs
  <2>2. op[q].profile \in Profiles
    BY <1>0, RequestTypes, TypeParts
  <2> QED
    BY <1>0, <2>1, <2>2, DocumentSteps
<1>6. pc[q] = "write" /\ op[q].kind \in Removes =>
        \A p \in Profiles \ mem[q].hit : OverridesIn(mem'[q].toolsets)[p] = Overrides'[p]
  BY <1>0, <1>1, <1>3 DEF Spares, Holds, OverridesIn
<1>7. pc[q] \in {"document", "unauthor"} =>
        /\ op[q].profile \in stale'
        /\ \A p \in Profiles \ {op[q].profile} : OverridesIn(mem'[q].toolsets)[p] = Overrides'[p]
  BY <1>0, <1>1, <1>3, <1>4 DEF Spares, Holds, OverridesIn
<1> QED
  BY <1>0, <1>1, <1>5, <1>6, <1>7 DEF Spares, OverridesIn

LEMMA SelfSpares ==
  ASSUME IInv, Onward, SparesOthers, NEW r \in Requests, Acts(r)
  PROVE  Spares(r)'
<1>0. TypeOK /\ FilesOK /\ ControlOK /\ HoldsStores /\ Spares(r) /\ mem[r] \in Memory /\ op[r].profile \in Profiles
  BY TypeParts, RequestTypes DEF IInv, SparesOthers
<1>1. CASE pc'[r] \notin {"write", "document", "unauthor", "clearDeleted", "override"}
  BY <1>1 DEF Spares
<1>2. CASE Change(r) /\ pc'[r] \in {"write", "document", "unauthor", "clearDeleted", "override"}
  <2>1. ChangeAdd(r) \/ Disable(r)
    BY <1>0, <1>2 DEF Change, Resolve, LockManifest, LockToolsets, ChangeRemove, WriteManifest, Restore, Unlock,
       After, Inspect, Goto, GotoWith, End, ControlOK
  <2>2. CASE ChangeAdd(r)
    <3>1. pc'[r] = "write" /\ op'[r].kind \notin Removes
      BY <1>0, <1>2, <2>2 DEF ChangeAdd, Goto, ControlOK, Removes
    <3> QED
      BY <3>1 DEF Spares
  <2>3. CASE Disable(r)
    <3>1. pc'[r] = "write"
      BY <1>0, <1>2, <2>3 DEF Disable, Goto, GotoWith, ControlOK
    <3>2. /\ mem'[r].toolsets = toolsets
          /\ \A p \in Profiles \ mem'[r].hit : Overrides'[p] = Overrides[p]
      BY <2>3, <3>1, DisableSpares
    <3>3. OverridesIn(mem'[r].toolsets) = Overrides
      BY <3>2 DEF OverridesIn, Overrides
    <3> QED
      BY <3>1, <3>2, <3>3 DEF Spares, OverridesIn
  <2> QED
    BY <2>1, <2>2, <2>3
<1>3. CASE Personality(r)
  <2>1. CASE AuthorClears(r)
    <3>1. CASE End(r)
      BY <1>0, <1>1, <3>1 DEF End, ControlOK
    <3>2. CASE ~End(r)
      <4>1. /\ toolsets' = toolsets \/ toolsets' = Without(op[r].profile)
            /\ stale' = stale \cup {op[r].profile}
            /\ pc'[r] = "document" /\ op' = op
            /\ mem'[r] = [mem[r] EXCEPT !.toolsets = toolsets]
        BY <1>0, <2>1, <3>2 DEF AuthorClears, GotoWith, ControlOK
      <4>2. mem'[r].toolsets = toolsets
        BY <1>0, <4>1 DEF Memory
      <4>3. OverridesIn(mem'[r].toolsets) = Overrides
        BY <4>2 DEF OverridesIn, Overrides
      <4>4. \A p \in Profiles \ {op[r].profile} : Overrides'[p] = Overrides[p]
        <5>1. CASE toolsets' = toolsets
          BY <5>1 DEF Overrides
        <5> QED
          BY <1>0, <4>1, <5>1, WithoutDrops
      <4> QED
        BY <4>1, <4>3, <4>4 DEF Spares, OverridesIn
    <3> QED
      BY <3>1, <3>2
  <2>2. CASE WriteDocument(r)
    <3>1. /\ pc[r] = "document" /\ UNCHANGED <<toolsets, stale>>
          /\ pc'[r] = "idle" \/ (pc'[r] = "unauthor" /\ UNCHANGED <<op, mem>>)
      BY <1>0, <2>2 DEF WriteDocument, Goto, End, ControlOK, process
    <3> QED
      BY <1>0, <1>1, <3>1 DEF Spares, OverridesIn, Overrides
  <2>3. CASE DeleteDocument(r)
    <3>1. \/ pc'[r] = "idle"
          \/ pc'[r] = "clearDeleted" /\ UNCHANGED op /\ defined' = [defined EXCEPT ![op[r].profile] = None]
      BY <1>0, <2>3 DEF DeleteDocument, Goto, End, ControlOK
    <3>2. CASE pc'[r] = "idle"
      BY <1>1, <3>2
    <3>3. CASE pc'[r] # "idle"
      <4>1. defined'[op[r].profile] = None
        BY <1>0, <3>1, <3>3 DEF FilesOK, Lists
      <4> QED
        BY <3>1, <3>3, <4>1 DEF Spares
    <3> QED
      BY <3>2, <3>3
  <2>4. CASE Author(r) \/ Unauthor(r) \/ Delete(r) \/ DeleteOverride(r)
    <3>1. pc'[r] \in {"exists", "idle", "rmtree"}
      BY <1>0, <2>4 DEF Author, Unauthor, Delete, DeleteOverride, Goto, End, ControlOK
    <3> QED
      BY <1>1, <3>1
  <2> QED
    BY <1>3, <2>1, <2>2, <2>3, <2>4 DEF Personality
<1>4. CASE \E o \in Asked : Ask(r, o)
  <2>1. PICK o \in Asked : Ask(r, o)
    BY <1>4
  <2>2. o.kind \in Kinds /\ pc'[r] = First(o.kind)
    BY <1>0, <2>1, StoresAssumption DEF Ask, ControlOK, Operations
  <2> QED
    BY <1>1, <2>2 DEF First, Kinds
<1>5. CASE Access(r)
  <2>1. CASE pc'[r] # "override"
    <3>1. pc'[r] \notin {"write", "document", "unauthor", "clearDeleted", "override"}
      BY <1>0, <1>5, <2>1 DEF Access, Known, Current, Defaults, ReadCatalog, WriteOverride, ClearOverride,
         Goto, GotoWith, End, ControlOK
    <3> QED
      BY <1>1, <3>1
  <2>2. CASE pc'[r] = "override"
    <3>1. /\ pc[r] = "catalog" /\ op[r].kind # "reset" /\ UNCHANGED op
          /\ mem'[r] = [mem[r] EXCEPT !.hit = {op[r].profile}]
      BY <1>0, <1>5, <2>2 DEF Access, Known, Current, Defaults, ReadCatalog, WriteOverride, ClearOverride,
         Goto, GotoWith, End, ControlOK
    <3>2. mem'[r].hit = {op[r].profile}
      BY <1>0, <3>1 DEF Memory
    <3>3. op[r].kind = "save"
      <4>1. pc[r] \in StepsOf(op[r].kind) /\ op[r].kind \in Kinds
        BY <1>0, RequestTypes DEF Onward, Operations
      <4> QED
        BY <3>1, <4>1 DEF StepsOf, Kinds
    <3> QED
      BY <2>2, <3>1, <3>2, <3>3 DEF Spares
  <2> QED
    BY <2>1, <2>2
<1>6. CASE Apply(r)
  <2>1. pc'[r] \notin {"write", "document", "unauthor", "clearDeleted", "override"}
    BY <1>0, <1>6 DEF Apply, Compare, SetProfile, InstructionsFail, Undo, Applied, ReadVoice, WriteVoice,
       Goto, GotoWith, End, ControlOK
  <2> QED
    BY <1>1, <2>1
<1>7. CASE Loading(r) /\ ~Ends
  <2>1. pc'[r] \notin {"write", "document", "unauthor", "clearDeleted", "override"}
    BY <1>0, <1>7 DEF Loading, Load, Initialize, Reload, ReadNames, Build, Fallback, LoadFails,
       Goto, GotoWith, End, ControlOK
  <2> QED
    BY <1>1, <2>1
<1> QED
  BY <1>1, <1>2, <1>3, <1>4, <1>5, <1>6, <1>7 DEF Acts, Step

\* What is loaded changes where it is built, while the program runs.
LEMMA ServedSteps ==
  ASSUME TypeOK, NEW r \in Requests, Acts(r)
  PROVE  UNCHANGED served \/ (Build(r) /\ Works)
<1>1. CASE \E o \in Asked : Ask(r, o)
  BY <1>1 DEF Ask, process
<1>2. CASE Change(r)
  BY <1>2 DEF Change, Resolve, LockManifest, LockToolsets, ChangeAdd, ChangeRemove, Disable,
     WriteManifest, Restore, Unlock, After, Inspect, process
<1>3. CASE Access(r) \/ Personality(r)
  BY <1>3 DEF Access, Known, Current, Defaults, ReadCatalog, WriteOverride, ClearOverride,
     Personality, Author, AuthorClears, WriteDocument, Unauthor, Delete, DeleteDocument, DeleteOverride, process
<1>4. CASE Apply(r)
  BY <1>4 DEF Apply, Compare, SetProfile, InstructionsFail, Undo, Applied, ReadVoice, WriteVoice, process
<1>5. CASE Loading(r) /\ ~Ends
  BY <1>5 DEF Loading, Load, Initialize, Reload, ReadNames, Build, Fallback, process
<1> QED
  BY <1>1, <1>2, <1>3, <1>4, <1>5 DEF Acts, Step

LEMMA KeepsUnloaded ==
  ASSUME TypeOK, Onward, Session, UnloadedDown, NEW r \in Requests, Acts(r)
  PROVE  UnloadedDown'
<1>1. Down' => Down
  <2>1. CASE \E o \in Asked : Ask(r, o)
    BY <2>1 DEF Ask, process, Down
  <2> QED
    BY <2>1, MainSteps DEF Acts, Down
<1>2. CASE UNCHANGED served
  BY <1>1, <1>2 DEF UnloadedDown
<1>3. CASE Build(r)
  <2>1. pc[r] = "build" /\ pc[r] \in StepsOf(op[r].kind) /\ op[r].kind \in Kinds
    BY <1>3, RequestTypes, TypeParts DEF Build, Onward, Operations
  <2>2. ~Down
    BY <2>1 DEF Session, Attends, Alone, StepsOf, Kinds
  <2> QED
    BY <1>1, <2>2 DEF UnloadedDown
<1> QED
  BY <1>2, <1>3, ServedSteps

LEMMA InitStores == Init => StoresInv
<1> SUFFICES ASSUME Init PROVE StoresInv
  OBVIOUS
<1>1. SessionInv
  BY InitSession
<1>2. \A r \in Requests : pc[r] = "idle"
  BY DEF Init
<1>3. RunsAlone /\ SparesOthers
  BY <1>2 DEF RunsAlone, Runs, SparesOthers, Spares
<1>4. SpacesKeep
  BY StoresAssumption DEF Init, SpacesKeep, Installed, ToolsOf, Lists
<1>5. UnloadedDown
  BY DEF Init, UnloadedDown, Unloaded
<1> QED
  BY <1>1, <1>3, <1>4, <1>5 DEF StoresInv

LEMMA StepStores == StoresInv /\ [Next]_vars => StoresInv'
<1> SUFFICES ASSUME StoresInv, [Next]_vars PROVE StoresInv'
  OBVIOUS
<1>0. /\ SessionInv /\ IInv /\ TypeOK /\ Onward /\ Session
      /\ RunsAlone /\ SpacesKeep /\ SparesOthers /\ UnloadedDown
  BY DEF StoresInv, SessionInv, IInv
<1>1. SessionInv'
  BY <1>0, StepSession
<1>2. ASSUME NEW r \in Requests, Acts(r)
      PROVE  StoresInv'
  <2>1. RunsAlone' /\ SpacesKeep' /\ UnloadedDown'
    BY <1>0, <1>2, StepRuns, KeepsSpaces, KeepsUnloaded
  <2>2. SparesOthers'
    BY <1>0, <1>2, OthersSpared, SelfSpares DEF SparesOthers
  <2> QED
    BY <1>1, <2>1, <2>2 DEF StoresInv
<1>3. CASE Ends
  <2>1. (\A r \in Requests : pc'[r] = "idle") /\ served' = Unloaded /\ UNCHANGED manifest
    BY <1>3 DEF Ends, files
  <2>2. RunsAlone' /\ SparesOthers'
    BY <2>1 DEF RunsAlone, Runs, SparesOthers, Spares
  <2>3. SpacesKeep'
    BY <1>0, <2>1 DEF SpacesKeep, Installed, ToolsOf
  <2>4. UnloadedDown'
    BY <2>1 DEF UnloadedDown, Unloaded
  <2> QED
    BY <1>1, <2>2, <2>3, <2>4 DEF StoresInv
<1>4. CASE UNCHANGED vars
  BY <1>0, <1>1, <1>4 DEF vars, files, process, requests, limits, StoresInv, RunsAlone, Runs, SparesOthers, Spares,
     SpacesKeep, Installed, Overrides, UnloadedDown, Down, ToolsOf
<1> QED
  BY <1>2, <1>3, <1>4 DEF Next, Acts, Step, Crash

-----------------------------------------------------------------------------
(* The settings the loaded tools follow, and which profiles matter *)

\* While a change may still be rolled back, the settings it found count.
Pending == {"write", "restore", "lost"}
Base ==
  LET h == locks["toolsets"]
  IN IF h # Free /\ pc[h] \in Pending THEN mem[h].toolsets ELSE toolsets
Goes(p) == IF OverridesIn(Base)[p] # None THEN OverridesIn(Base)[p] ELSE defined[p]

\* The active profile, and the one a personality being applied may set back.
Loads == {"reload", "names", "build"}
SwapsFrom(r, p) == op[r].kind = "apply" /\ pc[r] \in Loads \cup {"undo"} /\ mem[r].previous = p
Watched(p) == p = active \/ \E r \in Requests : SwapsFrom(r, p)

\* A request that changed the profile is still to compare it with the active one,
\* or to load: what is loaded until then need not agree.
Covers(r, p) ==
  \/ op[r].kind \in {"save", "reset"} /\ pc[r] = "after" /\ p \in mem[r].hit
  \/ op[r].kind = "remove" /\ pc[r] \in {"committed", "after"} /\ p \in mem[r].hit
  \/ op[r].kind # "apply" /\ pc[r] \in Loads
  \/ op[r].kind = "apply" /\ pc[r] \in Loads \cup {"undo"} /\ p # mem[r].previous
  \/ op[r].kind = "apply" /\ pc[r] = "build" /\ p = mem[r].profile

\* An installed Space is still to be looked for in the profile.
Announces(r, p) ==
  /\ op[r].kind = "add"
  /\ pc[r] \in {"committed", "after"} \/ (pc[r] = "inspect" /\ p = mem[r].profile)

\* Nothing but w stands between the settings of the profile and what is loaded.
Open(w, p) ==
  /\ Watched(p) /\ p \notin stale /\ Goes(p) # None
  /\ \A r \in Requests \ {w} : ~Covers(r, p)

ServedAgrees(p) ==
  served.profile = p /\ Open(Free, p) =>
    /\ served.tools \subseteq Goes(p)
    /\ \A t \in Goes(p) : \/ t \in served.tools <=> t \in Core \cup InstalledTools
                          \/ \E r \in Requests : Announces(r, p) /\ t \in ToolsOf(op[r].space)
LoaderAgrees(w, p) == pc[w] = "build" /\ mem[w].profile = p /\ Open(w, p) => mem[w].tools = Goes(p)
Agreement == \A p \in Profiles : ServedAgrees(p) /\ \A w \in Requests : LoaderAgrees(w, p)

ServedInv == StoresInv /\ Agreement

\* A lock is free, its holder's, or taken by the request that acts.
LEMMA LockTaken ==
  ASSUME TypeOK, NEW r \in Requests, Acts(r)
  PROVE  locks'["toolsets"] \in {locks["toolsets"], Free, r}
<1>1. CASE \E o \in Asked : Ask(r, o)
  BY <1>1 DEF Ask
<1>2. CASE Access(r) \/ Apply(r) \/ (Loading(r) /\ ~Ends)
  BY <1>2, OutsideSteps
<1>3. CASE Personality(r)
  <2>1. \/ UNCHANGED locks \/ locks' = [locks EXCEPT !["toolsets"] = r]
        \/ \E ls \in SUBSET LockNames : Hold(r, ls) \/ Release(r, ls)
    BY <1>3 DEF Personality, Author, AuthorClears, WriteDocument, Unauthor, Delete, DeleteDocument,
       DeleteOverride, LockNames
  <2> QED
    BY <2>1 DEF Hold, Release, LockNames, TypeOK
<1>4. CASE Change(r)
  <2>1. UNCHANGED locks \/ \E ls \in SUBSET LockNames : Hold(r, ls) \/ Release(r, ls)
    BY <1>4 DEF LockNames, Change, Resolve, LockManifest, LockToolsets, ChangeAdd, ChangeRemove, Disable,
       WriteManifest, Restore, Unlock, After, Inspect
  <2> QED
    BY <2>1 DEF Hold, Release, LockNames
<1> QED
  BY <1>1, <1>2, <1>3, <1>4 DEF Acts, Step

\* Under another's lock the settings stay; under one's own they are the file's.
LEMMA BaseOthers ==
  ASSUME IInv, NEW r \in Requests, Acts(r), locks["toolsets"] \notin {Free, r}
  PROVE  Base' = Base
<1>0. TypeOK /\ HoldsStores
  BY DEF IInv
<1>1. locks["toolsets"] \in Requests
  BY <1>0 DEF TypeOK, LockNames
<1>2. locks'["toolsets"] = locks["toolsets"] /\ UNCHANGED toolsets
  BY <1>0, Confined
<1>3. pc'[locks["toolsets"]] = pc[locks["toolsets"]] /\ mem'[locks["toolsets"]] = mem[locks["toolsets"]]
  BY <1>0, <1>1, OthersUntouched
<1> QED
  BY <1>2, <1>3 DEF Base

LEMMA BaseFree ==
  ASSUME NEW r \in Requests, locks["toolsets"] \in {Free, r}, pc[r] \notin Pending
  PROVE  Base = toolsets
BY DEF Base

LEMMA BaseFreeNext ==
  ASSUME NEW r \in Requests, locks'["toolsets"] \in {Free, r}, pc'[r] \notin Pending
  PROVE  Base' = toolsets'
BY DEF Base

LEMMA BaseHeld ==
  ASSUME NEW r \in Requests, locks["toolsets"] = r, pc[r] \in Pending
  PROVE  Base = mem[r].toolsets
BY StoresAssumption DEF Base

LEMMA BaseHeldNext ==
  ASSUME NEW r \in Requests, locks'["toolsets"] = r, pc'[r] \in Pending
  PROVE  Base' = mem'[r].toolsets
BY StoresAssumption DEF Base

LEMMA GoesEffective ==
  ASSUME Base = toolsets, NEW p \in Profiles
  PROVE  Goes(p) = Effective(p)
BY DEF Goes, Effective, OverridesIn, Overrides

LEMMA GoesEffectiveNext ==
  ASSUME Base' = toolsets', NEW p \in Profiles
  PROVE  Goes(p)' = Effective(p)'
BY DEF Goes, Effective, OverridesIn, Overrides

\* Settings are read or written by a request that holds no changed file yet.
LEMMA GoesAside ==
  ASSUME StoresInv, NEW r \in Requests, Access(r) \/ Personality(r), locks["toolsets"] \in {Free, r},
         NEW p \in Profiles
  PROVE  Effective(p)' \in {Effective(p), None} \/ p \in stale' \/ Covers(r, p)'
<1>0. TypeOK /\ FilesOK /\ ControlOK /\ Spares(r) /\ op[r].profile \in Profiles /\ op[r].tools \in SUBSET Tools
      /\ pc[r] \in StepsOf(op[r].kind) /\ op[r].kind \in Kinds
  BY TypeParts, RequestTypes DEF StoresInv, SessionInv, IInv, SparesOthers, Onward, Operations
<1>1. CASE UNCHANGED <<toolsets, defined>>
  BY <1>1 DEF Effective, Overrides
<1>2. CASE WriteOverride(r) /\ toolsets' # toolsets
  <2>1. /\ pc[r] = "override" /\ toolsets' = [Overrides EXCEPT ![op[r].profile] = op[r].tools]
        /\ pc'[r] = "after" /\ UNCHANGED <<mem, op, defined>>
    BY <1>0, <1>2 DEF WriteOverride, Goto, ControlOK
  <2>2. op[r].kind = "save" /\ mem[r].hit = {op[r].profile}
    BY <1>0, <2>1 DEF Spares
  <2>3. p # op[r].profile => Overrides'[p] = Overrides[p]
    <3>1. toolsets' = [Overrides EXCEPT ![op[r].profile] = op[r].tools]
      BY <2>1
    <3>2. \A q \in Profiles : Overrides'[q] = IF q = op[r].profile THEN op[r].tools ELSE Overrides[q]
      BY <1>0, <3>1, OverrideSets
    <3> QED
      BY <3>2
  <2> QED
    BY <2>1, <2>2, <2>3 DEF Effective, Covers
<1>3. CASE ClearOverride(r) /\ toolsets' # toolsets
  <2>1. /\ pc[r] = "clear" /\ toolsets' = Without(op[r].profile) /\ pc'[r] = "after" /\ UNCHANGED <<op, defined>>
        /\ mem'[r] = [mem[r] EXCEPT !.hit = {op[r].profile}]
    BY <1>0, <1>3 DEF ClearOverride, Goto, GotoWith, ControlOK
  <2>2. op[r].kind = "reset"
    BY <1>0, <2>1 DEF StepsOf, Kinds
  <2>3. mem'[r].hit = {op[r].profile}
    BY <1>0, <2>1 DEF ControlOK, Memory
  <2>4. p # op[r].profile => Overrides'[p] = Overrides[p]
    BY <1>0, <2>1, WithoutDrops
  <2> QED
    BY <2>1, <2>2, <2>3, <2>4 DEF Effective, Covers
<1>4. CASE AuthorClears(r) /\ toolsets' # toolsets
  <2>1. toolsets' = Without(op[r].profile) /\ stale' = stale \cup {op[r].profile} /\ UNCHANGED defined
    BY <1>4 DEF AuthorClears
  <2>2. p # op[r].profile => Overrides'[p] = Overrides[p]
    BY <1>0, <2>1, WithoutDrops
  <2> QED
    BY <2>1, <2>2 DEF Effective
<1>5. CASE WriteDocument(r) /\ defined' # defined
  <2>1. /\ pc[r] = "document" /\ UNCHANGED <<toolsets, stale>>
        /\ \E names : defined' = [defined EXCEPT ![op[r].profile] = names]
    BY <1>5 DEF WriteDocument, process
  <2>2. op[r].profile \in stale'
    BY <1>0, <2>1 DEF Spares
  <2>3. p # op[r].profile => defined'[p] = defined[p]
    BY <1>0, <2>1 DEF FilesOK, Lists
  <2> QED
    BY <2>1, <2>2, <2>3 DEF Effective, Overrides
<1>6. CASE Unauthor(r) /\ toolsets' # toolsets
  <2>1. pc[r] = "unauthor" /\ UNCHANGED <<defined, stale>> /\ toolsets' = mem[r].toolsets
    BY <1>6 DEF Unauthor, process
  <2>2. /\ op[r].profile \in stale'
        /\ p # op[r].profile => OverridesIn(mem[r].toolsets)[p] = Overrides[p]
    BY <1>0, <2>1 DEF Spares
  <2>3. Overrides' = OverridesIn(mem[r].toolsets)
    BY <2>1 DEF Overrides, OverridesIn
  <2> QED
    BY <2>1, <2>2, <2>3 DEF Effective
<1>7. CASE DeleteDocument(r)
  <2>1. UNCHANGED toolsets /\ defined'[p] \in {defined[p], None}
    BY <1>0, <1>7 DEF DeleteDocument, FilesOK, Lists
  <2> QED
    BY <2>1 DEF Effective, Overrides
<1>8. CASE DeleteOverride(r) /\ toolsets' # toolsets
  <2>1. pc[r] = "clearDeleted" /\ UNCHANGED defined /\ toolsets' = Without(op[r].profile)
    BY <1>8 DEF DeleteOverride
  <2>2. defined[op[r].profile] = None
    BY <1>0, <2>1 DEF Spares
  <2>3. Overrides'[p] = IF p = op[r].profile THEN None ELSE Overrides[p]
    BY <1>0, <2>1, WithoutDrops
  <2> QED
    BY <2>1, <2>2, <2>3 DEF Effective
<1>9. \/ UNCHANGED <<toolsets, defined>>
      \/ (WriteOverride(r) \/ ClearOverride(r) \/ AuthorClears(r) \/ Unauthor(r) \/ DeleteOverride(r)) /\ toolsets' # toolsets
      \/ WriteDocument(r) /\ defined' # defined
      \/ DeleteDocument(r)
  BY DEF Access, Known, Current, Defaults, ReadCatalog, WriteOverride, ClearOverride,
     Personality, Author, AuthorClears, WriteDocument, Unauthor, Delete, DeleteOverride, files
<1> QED
  BY <1>1, <1>2, <1>3, <1>4, <1>5, <1>6, <1>7, <1>8, <1>9

\* The command line works while the program is down.
LEMMA CommandLineDown ==
  ASSUME StoresInv, NEW r \in Requests, Change(r), ~Down'
  PROVE  op[r].kind \notin {"cliAdd", "cliRemove"}
<1>1. pc[r] # "idle" /\ UNCHANGED main
  BY DEF Change, Resolve, LockManifest, LockToolsets, ChangeAdd, ChangeRemove, Disable,
     WriteManifest, Restore, Unlock, After, Inspect, process
<1> QED
  BY <1>1 DEF StoresInv, SessionInv, Session, Attends, Alone, Down

LEMMA GoesChange ==
  ASSUME StoresInv, NEW r \in Requests, Change(r), ~Ends, ~Down', locks["toolsets"] \in {Free, r}, NEW p \in Profiles
  PROVE  Goes(p)' \in {Goes(p), None} \/ p \in stale' \/ Covers(r, p)'
<1>0. /\ IInv /\ TypeOK /\ FilesOK /\ ControlOK /\ Holds(r) /\ Recalls(r) /\ Spares(r) /\ mem[r] \in Memory
      /\ op[r].kind \notin {"cliAdd", "cliRemove"} /\ locks'["toolsets"] \in {Free, r}
      /\ pc[r] \in StepsOf(op[r].kind) /\ op[r].kind \in Kinds
  BY TypeParts, RequestTypes, CommandLineDown, LockTaken
     DEF StoresInv, SessionInv, IInv, HoldsStores, Remembers, SparesOthers, Acts, Step, Onward, Operations
<1>1. CASE Base' = Base /\ UNCHANGED defined
  BY <1>1 DEF Goes
<1>2. CASE UNCHANGED <<toolsets, defined>> /\ pc[r] \notin Pending /\ pc'[r] \notin Pending
  BY <1>0, <1>1, <1>2, BaseFree, BaseFreeNext
<1>3. CASE ChangeAdd(r) \/ Disable(r)
  <2>1. /\ pc[r] \in {"change", "disable"} /\ pc[r] \notin Pending /\ UNCHANGED <<locks, defined>>
        /\ \/ pc'[r] = "refused" /\ UNCHANGED toolsets
           \/ /\ pc'[r] = "write"
              /\ mem'[r] = mem[r] \/ \E h : mem'[r] = [mem[r] EXCEPT !.hit = h]
    BY <1>0, <1>3 DEF ChangeAdd, Disable, Goto, GotoWith, ControlOK, Pending
  <2>2. mem[r].toolsets = toolsets /\ Base = toolsets /\ locks["toolsets"] = r
    BY <1>0, <2>1, BaseFree DEF Recalls, Holds
  <2>3. CASE pc'[r] = "write"
    <3>1. mem'[r].toolsets = mem[r].toolsets
      BY <1>0, <2>1, <2>3 DEF Memory
    <3>2. Base' = mem'[r].toolsets
      BY <2>1, <2>2, <2>3, BaseHeldNext DEF Pending
    <3> QED
      BY <1>1, <2>1, <2>2, <3>1, <3>2
  <2>4. CASE pc'[r] # "write"
    BY <1>2, <2>1, <2>4 DEF Pending
  <2> QED
    BY <2>3, <2>4
<1>4. CASE WriteManifest(r)
  <2>1. /\ pc[r] = "write" /\ UNCHANGED <<locks, toolsets, defined, mem, op>>
        /\ \/ pc'[r] = "committed"
           \/ pc'[r] = "restored" /\ op[r].kind = "add"
           \/ pc'[r] = "restore"
    BY <1>0, <1>4 DEF WriteManifest, Goto, ControlOK
  <2>2. Base = mem[r].toolsets /\ locks["toolsets"] = r
    BY <1>0, <2>1, BaseHeld DEF Holds, Pending
  <2>3. CASE pc'[r] = "restore"
    BY <1>1, <2>1, <2>2, <2>3, BaseHeldNext DEF Pending
  <2>4. CASE pc'[r] # "restore"
    <3>1. Base' = toolsets
      BY <2>1, <2>2, <2>4, BaseFreeNext DEF Pending
    <3>2. CASE op[r].kind = "add"
      BY <1>0, <1>1, <2>1, <2>2, <3>1, <3>2 DEF Recalls
    <3>3. CASE op[r].kind # "add"
      <4>1. op[r].kind = "remove" /\ pc'[r] = "committed"
        BY <1>0, <2>1, <2>4, <3>3 DEF StepsOf, Kinds
      <4>2. CASE p \in mem[r].hit
        BY <2>1, <4>1, <4>2 DEF Covers
      <4>3. CASE p \notin mem[r].hit
        <5>1. OverridesIn(mem[r].toolsets)[p] = Overrides[p]
          BY <1>0, <2>1, <4>1, <4>3 DEF Spares, Removes
        <5>2. OverridesIn(Base)[p] = OverridesIn(Base')[p]
          BY <2>2, <3>1, <5>1 DEF OverridesIn, Overrides
        <5> QED
          BY <2>1, <5>2 DEF Goes, OverridesIn
      <4> QED
        BY <4>2, <4>3
    <3> QED
      BY <3>2, <3>3
  <2> QED
    BY <2>3, <2>4
<1>5. CASE Restore(r)
  <2>1. /\ pc[r] = "restore" /\ UNCHANGED <<locks, defined, mem>>
        /\ pc'[r] = "lost" \/ (pc'[r] = "restored" /\ toolsets' = mem[r].toolsets)
    BY <1>0, <1>5 DEF Restore, Goto, ControlOK
  <2>2. Base = mem[r].toolsets /\ locks["toolsets"] = r
    BY <1>0, <2>1, BaseHeld DEF Holds, Pending
  <2>3. CASE pc'[r] = "lost"
    BY <1>1, <2>1, <2>2, <2>3, BaseHeldNext DEF Pending
  <2>4. CASE pc'[r] = "restored" /\ toolsets' = mem[r].toolsets
    BY <1>1, <2>1, <2>2, <2>4, BaseFreeNext DEF Pending
  <2> QED
    BY <2>1, <2>3, <2>4
<1>6. CASE Unlock(r)
  <2>1. CASE pc[r] = "lost"
    BY <1>6, <2>1 DEF Unlock
  <2>2. CASE pc[r] # "lost"
    <3>1. pc[r] \notin Pending /\ pc'[r] \notin Pending /\ UNCHANGED <<toolsets, defined>>
      BY <1>0, <1>6, <2>2 DEF Unlock, Goto, End, ControlOK, files, Pending
    <3> QED
      BY <1>2, <3>1
  <2> QED
    BY <2>1, <2>2
<1>7. CASE Resolve(r) \/ LockManifest(r) \/ LockToolsets(r) \/ ChangeRemove(r) \/ After(r) \/ Inspect(r)
  <2>1. pc[r] \notin Pending /\ pc'[r] \notin Pending /\ UNCHANGED <<toolsets, defined>>
    BY <1>0, <1>7 DEF Resolve, LockManifest, LockToolsets, ChangeRemove, After, Inspect, Goto, GotoWith, End,
       ControlOK, files, Pending
  <2> QED
    BY <1>2, <2>1
<1> QED
  BY <1>3, <1>4, <1>5, <1>6, <1>7 DEF Change

\* The settings that count stay, are gone, or their change is still accounted for.
LEMMA GoesSteps ==
  ASSUME StoresInv, NEW r \in Requests, Acts(r), ~Down', NEW p \in Profiles
  PROVE  Goes(p)' \in {Goes(p), None} \/ p \in stale' \/ Covers(r, p)'
<1>0. IInv /\ TypeOK /\ ControlOK /\ Holds(r)
  BY TypeParts DEF StoresInv, SessionInv, IInv, HoldsStores
<1>1. CASE locks["toolsets"] \notin {Free, r}
  <2>1. Base' = Base
    BY <1>0, <1>1, BaseOthers
  <2>2. defined'[p] \in {defined[p], None}
    BY <1>0, <1>1, DocumentSteps DEF Holds
  <2> QED
    BY <2>1, <2>2 DEF Goes
<1>2. CASE locks["toolsets"] \in {Free, r} /\ (Access(r) \/ Personality(r))
  <2>1. pc[r] \notin Pending /\ pc'[r] \notin Pending
    <3>1. CASE Access(r)
      BY <1>0, <3>1, OutsideSteps DEF Access, Known, Current, Defaults, ReadCatalog, WriteOverride, ClearOverride,
         Pending, Outside
    <3>2. CASE Personality(r)
      BY <1>0, <3>2, PersonalitySteps DEF Personality, Author, AuthorClears, WriteDocument, Unauthor, Delete,
         DeleteDocument, DeleteOverride, Pending, Outside, IInv
    <3> QED
      BY <1>2, <3>1, <3>2
  <2>2. locks'["toolsets"] \in {Free, r}
    BY <1>0, <1>2, LockTaken
  <2>3. Goes(p) = Effective(p) /\ Goes(p)' = Effective(p)'
    BY <1>2, <2>1, <2>2, BaseFree, BaseFreeNext, GoesEffective, GoesEffectiveNext
  <2> QED
    BY <1>2, <2>3, GoesAside
<1>3. CASE locks["toolsets"] \in {Free, r} /\ (Apply(r) \/ (Loading(r) /\ ~Ends) \/ \E o \in Asked : Ask(r, o))
  <2>1. UNCHANGED <<toolsets, defined>>
    BY <1>0, <1>3, OutsideSteps DEF Ask, files, Apply, Compare, SetProfile, InstructionsFail, Undo, Applied,
       ReadVoice, WriteVoice, Loading, Load, Initialize, Reload, ReadNames, Build, Fallback
  <2>2. pc[r] \notin Pending
    BY <1>3 DEF Ask, Apply, Compare, SetProfile, InstructionsFail, Undo, Applied,
       ReadVoice, WriteVoice, Loading, Load, Initialize, Reload, ReadNames, Build, Fallback, Pending
  <2>3. pc'[r] \notin Pending
    <3>1. ASSUME NEW o \in Asked, Ask(r, o)
          PROVE  pc'[r] \notin Pending
      <4>1. o.kind \in Kinds /\ pc'[r] = First(o.kind)
        BY <1>0, <3>1, StoresAssumption DEF Ask, ControlOK, Operations
      <4> QED
        BY <4>1 DEF First, Kinds, Pending
    <3> QED
      BY <1>0, <1>3, <3>1, OutsideSteps DEF Outside, Pending
  <2>4. locks'["toolsets"] \in {Free, r}
    BY <1>0, <1>3, LockTaken
  <2>5. Base' = Base
    BY <1>3, <2>1, <2>2, <2>3, <2>4, BaseFree, BaseFreeNext
  <2> QED
    BY <2>1, <2>5 DEF Goes
<1>4. CASE locks["toolsets"] \in {Free, r} /\ Change(r) /\ ~Ends
  BY <1>4, GoesChange
<1> QED
  BY <1>1, <1>2, <1>3, <1>4 DEF Acts, Step

-----------------------------------------------------------------------------
(* Which profiles matter, what is accounted for, and how long *)

\* Whoever may set a profile back is on the conversation's loop.
LEMMA SwapsHold ==
  ASSUME RunsAlone, NEW r \in Requests, NEW p, SwapsFrom(r, p)
  PROVE  locks["conversation"] = r /\ Swapping
BY DEF RunsAlone, Runs, SwapsFrom, Loads, Swapping

LEMMA SwapsOthers ==
  ASSUME TypeOK, NEW r \in Requests, Acts(r), NEW q \in Requests \ {r}, NEW p
  PROVE  SwapsFrom(q, p)' = SwapsFrom(q, p) /\ Covers(q, p)' = Covers(q, p) /\ Announces(q, p)' = Announces(q, p)
<1>1. pc'[q] = pc[q] /\ op'[q] = op[q] /\ mem'[q] = mem[q]
  BY OthersUntouched
<1> QED
  BY <1>1 DEF SwapsFrom, Covers, Announces

\* A request in the middle of a step's effects was asked before.
LEMMA GoesOn ==
  ASSUME TypeOK, NEW r \in Requests, Acts(r), pc'[r] \in {"reload", "names", "build", "undo", "committed", "inspect"}
  PROVE  Step(r) /\ ~Ends /\ op'[r] = op[r]
<1>1. ASSUME NEW o \in Asked, Ask(r, o)
      PROVE  FALSE
  <2>1. o.kind \in Kinds /\ pc'[r] = First(o.kind)
    BY <1>1, StoresAssumption DEF Ask, TypeOK, Operations
  <2> QED
    BY <2>1 DEF First, Kinds
<1>2. Step(r) /\ ~Ends
  BY <1>1 DEF Acts
<1>3. op' = op \/ pc'[r] = "idle"
  BY <1>2, Moves
<1> QED
  BY <1>2, <1>3

LEMMA ApplySteps ==
  ASSUME TypeOK, Onward, NEW r \in Requests, Step(r), op[r].kind = "apply"
  PROVE  Apply(r) \/ Reload(r) \/ ReadNames(r) \/ Build(r)
<1>1. pc[r] \in {"compare", "set", "reload", "names", "build", "undo", "applied"}
  BY DEF Onward, StepsOf
<1>2. ~Change(r)
  BY <1>1 DEF Change, Resolve, LockManifest, LockToolsets, ChangeAdd, ChangeRemove, Disable,
     WriteManifest, Restore, Unlock, After, Inspect
<1>3. ~Access(r) /\ ~Personality(r)
  BY <1>1 DEF Access, Known, Current, Defaults, ReadCatalog, WriteOverride, ClearOverride,
     Personality, Author, AuthorClears, WriteDocument, Unauthor, Delete, DeleteDocument, DeleteOverride
<1>4. ~Load(r) /\ ~Initialize(r) /\ ~Fallback(r)
  BY <1>1 DEF Load, Initialize, Fallback
<1> QED
  BY <1>2, <1>3, <1>4 DEF Step, Loading

LEMMA SwapsSelf ==
  ASSUME TypeOK, Onward, NEW r \in Requests, Acts(r), NEW p, SwapsFrom(r, p)'
  PROVE  SwapsFrom(r, p) \/ p = active
<1>0. /\ Step(r) /\ ~Ends /\ op'[r] = op[r] /\ op[r].kind = "apply" /\ mem[r] \in Memory /\ ControlOK
      /\ pc'[r] \in {"reload", "names", "build", "undo"} /\ mem'[r].previous = p
  BY GoesOn, RequestTypes, TypeParts DEF SwapsFrom, Loads
<1>1. Apply(r) \/ Reload(r) \/ ReadNames(r) \/ Build(r)
  BY <1>0, ApplySteps
<1>2. CASE SetProfile(r)
  <2>1. mem'[r] = [mem[r] EXCEPT !.previous = active]
    BY <1>0, <1>2 DEF SetProfile, GotoWith, ControlOK
  <2> QED
    BY <1>0, <2>1 DEF Memory
<1>3. CASE InstructionsFail(r) \/ Reload(r) \/ ReadNames(r) \/ Build(r)
  <2>1. /\ pc[r] \in {"reload", "names", "build"}
        /\ \/ mem'[r] = mem[r]
           \/ mem'[r] = [mem[r] EXCEPT !.profile = active]
           \/ mem'[r] = [mem[r] EXCEPT !.tools = Effective(active)]
    BY <1>0, <1>3 DEF InstructionsFail, Reload, ReadNames, Build, LoadFails, Goto, GotoWith, End, ControlOK
  <2>2. mem'[r].previous = mem[r].previous
    BY <1>0, <2>1 DEF Memory
  <2> QED
    BY <1>0, <2>1, <2>2 DEF SwapsFrom, Loads
<1>4. CASE Compare(r) \/ Undo(r) \/ Applied(r) \/ ReadVoice(r) \/ WriteVoice(r)
  <2>1. pc'[r] \notin {"reload", "names", "build", "undo"}
    BY <1>0, <1>4 DEF Compare, Undo, Applied, ReadVoice, WriteVoice, Goto, GotoWith, End, ControlOK
  <2> QED
    BY <1>0, <2>1
<1> QED
  BY <1>1, <1>2, <1>3, <1>4 DEF Apply

\* A profile that comes to matter is in doubt, or is loaded by who selected it.
LEMMA WatchedSteps ==
  ASSUME StoresInv, NEW r \in Requests, Acts(r), ~Load(r), NEW p \in Profiles, Watched(p)'
  PROVE  Watched(p) \/ p \in stale' \/ Covers(r, p)'
<1>0. TypeOK /\ ControlOK /\ Onward /\ RunsAlone /\ mem[r] \in Memory
      /\ pc[r] \in StepsOf(op[r].kind) /\ op[r].kind \in Kinds
  BY RequestTypes, TypeParts DEF StoresInv, SessionInv, IInv, Onward, Operations
<1>1. ASSUME NEW q \in Requests, SwapsFrom(q, p)'
      PROVE  Watched(p)
  <2>1. CASE q = r
    BY <1>0, <1>1, <2>1, SwapsSelf DEF Watched
  <2>2. CASE q # r
    <3>1. SwapsFrom(q, p)
      BY <1>0, <1>1, <2>2, SwapsOthers
    <3> QED
      BY <3>1 DEF Watched
  <2> QED
    BY <2>1, <2>2
<1>2. CASE p = active' /\ active' = active
  BY <1>2 DEF Watched
<1>3. CASE p = active' /\ active' # active
  <2>1. SetProfile(r) \/ Undo(r) \/ Applied(r) \/ Compare(r) \/ Fallback(r)
    <3>1. CASE \E o \in Asked : Ask(r, o)
      BY <1>3, <3>1 DEF Ask, process
    <3>2. CASE Change(r)
      BY <1>3, <3>2 DEF Change, Resolve, LockManifest, LockToolsets, ChangeAdd, ChangeRemove, Disable,
         WriteManifest, Restore, Unlock, After, Inspect, process
    <3>3. CASE Access(r) \/ Personality(r)
      BY <1>3, <3>3 DEF Access, Known, Current, Defaults, ReadCatalog, WriteOverride, ClearOverride,
         Personality, Author, AuthorClears, WriteDocument, Unauthor, Delete, DeleteDocument, DeleteOverride, process
    <3>4. CASE Apply(r)
      BY <1>3, <3>4 DEF Apply, InstructionsFail, ReadVoice, WriteVoice, process
    <3>5. CASE Loading(r) /\ ~Ends
      BY <1>3, <3>5 DEF Loading, Initialize, Reload, ReadNames, Build, process
    <3> QED
      BY <3>1, <3>2, <3>3, <3>4, <3>5 DEF Acts, Step
  <2>2. CASE SetProfile(r)
    <3>1. /\ pc[r] = "set" /\ pc'[r] = "reload" /\ UNCHANGED op
          /\ mem'[r] = [mem[r] EXCEPT !.previous = active]
      BY <1>0, <2>2 DEF SetProfile, GotoWith, ControlOK
    <3>2. op[r].kind = "apply"
      BY <1>0, <3>1 DEF StepsOf, Kinds
    <3>3. mem'[r].previous = active
      BY <1>0, <3>1 DEF Memory
    <3> QED
      BY <1>3, <3>1, <3>2, <3>3 DEF Covers, Loads
  <2>3. CASE Undo(r)
    <3>1. pc[r] = "undo" /\ mem[r].previous = p
      BY <1>3, <2>3 DEF Undo
    <3>2. op[r].kind = "apply"
      BY <1>0, <3>1 DEF StepsOf, Kinds
    <3> QED
      BY <3>1, <3>2 DEF SwapsFrom, Watched
  <2>4. CASE Applied(r) \/ Compare(r)
    BY <1>3, <2>4 DEF Applied, Compare, Persist, NothingPersisted
  <2>5. CASE Fallback(r)
    <3>0. ~Ends
      BY <2>5, Moves DEF Acts, Fallback, Ask
    <3>1. pc[r] = "fallback" /\ pc'[r] = "reload" /\ UNCHANGED op
      BY <1>0, <2>5, <3>0 DEF Fallback, Goto, ControlOK
    <3>2. op[r].kind # "apply"
      BY <1>0, <3>1 DEF StepsOf, Kinds
    <3> QED
      BY <3>1, <3>2 DEF Covers, Loads
  <2> QED
    BY <2>1, <2>2, <2>3, <2>4, <2>5
<1> QED
  BY <1>1, <1>2, <1>3 DEF Watched

\* While nobody may set another profile back, only the active one matters.
LEMMA OnlyActive ==
  ASSUME StoresInv, NEW r \in Requests, Step(r), ~Ends, op[r].kind # "apply", ~Swapping, active' = active,
         NEW p \in Profiles, Watched(p)'
  PROVE  p = active
<1>0. TypeOK /\ Onward /\ RunsAlone /\ Acts(r)
  BY DEF StoresInv, SessionInv, IInv, Acts
<1>1. ASSUME NEW q \in Requests, SwapsFrom(q, p)'
      PROVE  FALSE
  <2>1. CASE q = r
    <3>1. op'[r] = op[r]
      BY <1>0, <1>1, <2>1, GoesOn DEF SwapsFrom, Loads
    <3> QED
      BY <1>1, <2>1, <3>1 DEF SwapsFrom
  <2>2. CASE q # r
    <3>1. SwapsFrom(q, p)
      BY <1>0, <1>1, <2>2, SwapsOthers
    <3> QED
      BY <1>0, <3>1, SwapsHold
  <2> QED
    BY <2>1, <2>2
<1> QED
  BY <1>1 DEF Watched

\* Loading that gives up leaves the profiles that matter in doubt, or the old one to be set back.
LEMMA LoadFailsCovers ==
  ASSUME StoresInv, NEW r \in Requests, ReadNames(r) \/ Build(r), ~Ends, LoadFails(r), NEW p \in Profiles,
         Covers(r, p), Watched(p)'
  PROVE  Covers(r, p)' \/ p \in stale'
<1>0. TypeOK /\ ControlOK /\ Onward /\ Step(r) /\ pc[r] \in {"names", "build"} /\ UNCHANGED active
  BY TypeParts DEF StoresInv, SessionInv, IInv, Step, Loading, ReadNames, Build
<1>1. CASE op[r].kind = "apply"
  <2>1. pc'[r] = "undo" /\ UNCHANGED <<op, mem>>
    BY <1>0, <1>1 DEF LoadFails, Goto, ControlOK
  <2>2. stale' = stale \cup {mem[r].profile, active}
    BY <1>1 DEF LoadFails
  <2> QED
    BY <1>0, <1>1, <2>1, <2>2 DEF Covers, Loads
<1>2. CASE op[r].kind # "apply" /\ Swapping
  BY <1>2 DEF LoadFails
<1>3. CASE op[r].kind # "apply" /\ ~Swapping
  <2>1. p = active
    BY <1>0, <1>3, OnlyActive
  <2>2. active \in stale'
    BY <1>3 DEF LoadFails
  <2> QED
    BY <2>1, <2>2
<1> QED
  BY <1>1, <1>2, <1>3

\* What is accounted for stays so, until it does not matter or is in doubt.
LEMMA CoverSteps ==
  ASSUME StoresInv, NEW r \in Requests, Acts(r), ~(Build(r) /\ Works), NEW p \in Profiles, Covers(r, p), Watched(p)'
  PROVE  Covers(r, p)' \/ p \in stale'
<1>0. /\ IInv /\ TypeOK /\ ControlOK /\ Onward /\ RunsAlone /\ mem[r] \in Memory
      /\ pc[r] \in StepsOf(op[r].kind) /\ op[r].kind \in Kinds
      /\ pc[r] \in {"after", "committed", "reload", "names", "build", "undo"}
  BY RequestTypes, TypeParts DEF StoresInv, SessionInv, IInv, Onward, Operations, Covers, Loads
<1>1. Step(r) /\ ~Ends
  BY <1>0 DEF Acts, Ask
<1>2. Unlock(r) \/ After(r) \/ InstructionsFail(r) \/ Undo(r) \/ Reload(r) \/ ReadNames(r) \/ Build(r)
  <2>1. Change(r) => Unlock(r) \/ After(r)
    BY <1>0 DEF Change, Resolve, LockManifest, LockToolsets, ChangeAdd, ChangeRemove, Disable,
       WriteManifest, Restore, Inspect
  <2>2. ~Access(r) /\ ~Personality(r)
    BY <1>0 DEF Access, Known, Current, Defaults, ReadCatalog, WriteOverride, ClearOverride,
       Personality, Author, AuthorClears, WriteDocument, Unauthor, Delete, DeleteDocument, DeleteOverride
  <2>3. Apply(r) => InstructionsFail(r) \/ Undo(r)
    BY <1>0 DEF Apply, Compare, SetProfile, Applied, ReadVoice, WriteVoice
  <2>4. Loading(r) => Reload(r) \/ ReadNames(r) \/ Build(r)
    BY <1>0 DEF Loading, Load, Initialize, Fallback
  <2> QED
    BY <1>1, <2>1, <2>2, <2>3, <2>4 DEF Step
<1>3. CASE Unlock(r)
  <2>1. pc[r] = "committed" /\ op[r].kind = "remove" /\ p \in mem[r].hit
    BY <1>0, <1>3 DEF Unlock, Covers, Loads
  <2>2. pc'[r] = "after" /\ UNCHANGED <<op, mem>>
    BY <1>0, <1>3, <2>1 DEF Unlock, Goto, ControlOK
  <2> QED
    BY <2>1, <2>2 DEF Covers
<1>4. CASE After(r)
  <2>1. pc[r] = "after" /\ op[r].kind \in {"save", "reset", "remove"} /\ p \in mem[r].hit
    BY <1>4 DEF After, Covers, Loads
  <2>2. CASE active \in mem[r].hit
    <3>1. pc'[r] = "reload" /\ UNCHANGED op
      BY <1>0, <1>4, <2>1, <2>2 DEF After, Goto, ControlOK
    <3> QED
      BY <2>1, <3>1 DEF Covers, Loads
  <2>3. CASE active \notin mem[r].hit /\ Swapping
    BY <1>4, <2>3 DEF After, Doubt
  <2>4. CASE active \notin mem[r].hit /\ ~Swapping
    <3>1. UNCHANGED active
      BY <1>4 DEF After
    <3>2. p = active
      BY <1>1, <2>1, <2>4, <3>1, OnlyActive
    <3> QED
      BY <2>1, <2>4, <3>2
  <2> QED
    BY <2>2, <2>3, <2>4
<1>5. CASE InstructionsFail(r)
  <2>1. pc[r] = "reload" /\ pc'[r] = "undo" /\ op[r].kind = "apply" /\ UNCHANGED <<op, mem>>
    BY <1>0, <1>5 DEF InstructionsFail, Goto, ControlOK
  <2> QED
    BY <2>1 DEF Covers, Loads
<1>6. CASE Undo(r)
  <2>1. /\ pc[r] = "undo" /\ active' = mem[r].previous /\ op[r].kind = "apply" /\ p # mem[r].previous
    BY <1>0, <1>6 DEF Undo, Covers, Loads, StepsOf, Kinds
  <2>2. pc'[r] = "idle"
    BY <1>0, <1>6 DEF Undo, End, ControlOK
  <2>3. PICK q \in Requests : SwapsFrom(q, p)'
    BY <2>1 DEF Watched
  <2>4. q # r
    BY <2>2, <2>3 DEF SwapsFrom, Loads
  <2>5. SwapsFrom(q, p)
    BY <1>0, <2>3, <2>4, SwapsOthers
  <2>6. locks["conversation"] = q
    BY <1>0, <2>5, SwapsHold
  <2>7. locks["conversation"] = r
    BY <1>0, <2>1 DEF RunsAlone, Runs
  <2> QED
    BY <2>4, <2>6, <2>7
<1>7. CASE Reload(r)
  <2>1. pc[r] = "reload" /\ pc'[r] = "names" /\ UNCHANGED op /\ mem'[r] = [mem[r] EXCEPT !.profile = active]
    BY <1>0, <1>7 DEF Reload, GotoWith, ControlOK
  <2>2. mem'[r].previous = mem[r].previous
    BY <1>0, <2>1 DEF Memory
  <2> QED
    BY <2>1, <2>2 DEF Covers, Loads
<1>8. CASE ReadNames(r) /\ ~LoadFails(r)
  <2>1. /\ pc[r] = "names" /\ pc'[r] = "build" /\ UNCHANGED op
        /\ mem'[r] = [mem[r] EXCEPT !.tools = Effective(active)]
    BY <1>0, <1>8 DEF ReadNames, GotoWith, ControlOK
  <2>2. mem'[r].previous = mem[r].previous
    BY <1>0, <2>1 DEF Memory
  <2> QED
    BY <2>1, <2>2 DEF Covers, Loads
<1>9. CASE (ReadNames(r) \/ Build(r)) /\ LoadFails(r)
  BY <1>1, <1>9, LoadFailsCovers
<1>10. Build(r) => LoadFails(r)
  BY DEF Build
<1> QED
  BY <1>2, <1>3, <1>4, <1>5, <1>6, <1>7, <1>8, <1>9, <1>10

\* A Space is looked for in the active profile: in any that matters, or there is doubt.
LEMMA AnnounceSteps ==
  ASSUME StoresInv, NEW r \in Requests, Acts(r), ~Inspect(r), NEW p \in Profiles, Announces(r, p), Watched(p)'
  PROVE  (Announces(r, p)' /\ op'[r] = op[r]) \/ p \in stale'
<1>0. /\ TypeOK /\ ControlOK /\ mem[r] \in Memory
      /\ op[r].kind = "add" /\ pc[r] \in {"committed", "after", "inspect"}
  BY RequestTypes, TypeParts DEF StoresInv, SessionInv, IInv, Announces
<1>1. Step(r) /\ ~Ends
  BY <1>0 DEF Acts, Ask
<1>2. Unlock(r) \/ After(r)
  <2>1. Change(r) => Unlock(r) \/ After(r)
    BY <1>0 DEF Change, Resolve, LockManifest, LockToolsets, ChangeAdd, ChangeRemove, Disable,
       WriteManifest, Restore
  <2>2. ~Access(r) /\ ~Personality(r)
    BY <1>0 DEF Access, Known, Current, Defaults, ReadCatalog, WriteOverride, ClearOverride,
       Personality, Author, AuthorClears, WriteDocument, Unauthor, Delete, DeleteDocument, DeleteOverride
  <2>3. ~Apply(r)
    BY <1>0 DEF Apply, Compare, SetProfile, InstructionsFail, Undo, Applied, ReadVoice, WriteVoice
  <2>4. ~Loading(r)
    BY <1>0 DEF Loading, Load, Initialize, Reload, ReadNames, Build, Fallback
  <2> QED
    BY <1>1, <2>1, <2>2, <2>3, <2>4 DEF Step
<1>3. CASE Unlock(r)
  <2>1. pc[r] = "committed" /\ pc'[r] = "after" /\ UNCHANGED op
    BY <1>0, <1>3 DEF Unlock, Goto, ControlOK
  <2> QED
    BY <1>0, <2>1 DEF Announces
<1>4. CASE After(r)
  <2>1. /\ pc'[r] = "inspect" /\ UNCHANGED <<op, active>> /\ mem'[r] = [mem[r] EXCEPT !.profile = active]
    BY <1>0, <1>4 DEF After, GotoWith, ControlOK
  <2>2. mem'[r].profile = active
    BY <1>0, <2>1 DEF Memory
  <2>3. CASE Swapping
    BY <1>4, <2>3 DEF After, Doubt
  <2>4. CASE ~Swapping
    <3>1. p = active
      BY <1>0, <1>1, <2>1, <2>4, OnlyActive
    <3> QED
      BY <1>0, <2>1, <2>2, <3>1 DEF Announces
  <2> QED
    BY <2>3, <2>4
<1> QED
  BY <1>2, <1>3, <1>4

-----------------------------------------------------------------------------
(* What is loaded agrees with the settings *)

\* Nothing opens up by itself: before the step nothing stood between either.
LEMMA StillOpen ==
  ASSUME StoresInv, NEW r \in Requests, Acts(r), ~Load(r), ~(Build(r) /\ Works), ~Down',
         NEW w \in Requests \cup {Free}, w # r, NEW p \in Profiles, Open(w, p)'
  PROVE  Open(w, p) /\ Goes(p)' = Goes(p)
<1>0. TypeOK /\ ControlOK /\ mem[r] \in Memory
  BY RequestTypes, TypeParts DEF StoresInv, SessionInv, IInv
<1>1. /\ Watched(p)' /\ p \notin stale' /\ Goes(p)' # None /\ ~Covers(r, p)'
      /\ \A q \in Requests \ {w} : ~Covers(q, p)'
  BY DEF Open
<1>2. Watched(p)
  BY <1>1, WatchedSteps
<1>3. Goes(p)' = Goes(p)
  BY <1>1, GoesSteps
<1>4. p \notin stale
  <2> SUFFICES ASSUME p \in stale PROVE FALSE
    OBVIOUS
  <2>1. ReadNames(r) /\ pc'[r] = "build" /\ stale' = stale \ {active} /\ p = active
    BY <1>0, <1>1, StaleSteps
  <2>2. op'[r] = op[r]
    BY <1>0, <2>1, GoesOn
  <2>3. mem[r].profile = active /\ mem'[r] = [mem[r] EXCEPT !.tools = Effective(active)]
    BY <1>0, <1>1, <2>1 DEF ReadNames, LoadFails, Goto, GotoWith, End, ControlOK
  <2>4. mem'[r].profile = active
    BY <1>0, <2>3 DEF Memory
  <2> QED
    BY <1>1, <2>1, <2>2, <2>4 DEF Covers, Loads
<1>5. ASSUME NEW q \in Requests \ {w}
      PROVE  ~Covers(q, p)
  <2>1. CASE q = r
    BY <1>1, <2>1, CoverSteps
  <2>2. CASE q # r
    BY <1>0, <1>1, <2>2, SwapsOthers
  <2> QED
    BY <2>1, <2>2
<1> QED
  BY <1>1, <1>2, <1>3, <1>4, <1>5 DEF Open

\* Where nothing is loaded, and the manifest stays, an agreement stays.
LEMMA SettledAgrees ==
  ASSUME StoresInv, NEW p \in Profiles, ServedAgrees(p), NEW r \in Requests, Acts(r), ~Load(r),
         ~(Build(r) /\ Works), ~Down', ~Inspect(r), UNCHANGED manifest
  PROVE  ServedAgrees(p)'
<1> SUFFICES ASSUME served'.profile = p, Open(Free, p)'
             PROVE  /\ served'.tools \subseteq Goes(p)'
                    /\ \A t \in Goes(p)' :
                         \/ t \in served'.tools <=> t \in Core \cup InstalledTools'
                         \/ \E q \in Requests : Announces(q, p)' /\ t \in ToolsOf(op'[q].space)
  BY DEF ServedAgrees, ToolsOf
<1>0. TypeOK /\ Free # r
  BY StoresAssumption DEF StoresInv, SessionInv, IInv
<1>1. UNCHANGED served
  BY <1>0, ServedSteps
<1>2. Open(Free, p) /\ Goes(p)' = Goes(p)
  BY <1>0, StillOpen
<1>3. InstalledTools' = InstalledTools
  BY DEF InstalledTools, Installed
<1>4. ASSUME NEW q \in Requests, Announces(q, p)
      PROVE  Announces(q, p)' /\ op'[q] = op[q]
  <2>1. CASE q = r
    BY <1>4, <2>1, AnnounceSteps DEF Open
  <2>2. CASE q # r
    BY <1>0, <1>4, <2>2, SwapsOthers, OthersUntouched
  <2> QED
    BY <2>1, <2>2
<1>5. /\ served.tools \subseteq Goes(p)
      /\ \A t \in Goes(p) : \/ t \in served.tools <=> t \in Core \cup InstalledTools
                            \/ \E q \in Requests : Announces(q, p) /\ t \in ToolsOf(op[q].space)
  BY <1>1, <1>2 DEF ServedAgrees
<1>6. ASSUME NEW t \in Goes(p)
      PROVE  \/ t \in served'.tools <=> t \in Core \cup InstalledTools'
             \/ \E q \in Requests : Announces(q, p)' /\ t \in ToolsOf(op'[q].space)
  <2>1. CASE t \in served.tools <=> t \in Core \cup InstalledTools
    BY <1>1, <1>3, <2>1
  <2>2. CASE \E q \in Requests : Announces(q, p) /\ t \in ToolsOf(op[q].space)
    <3>1. PICK q \in Requests : Announces(q, p) /\ t \in ToolsOf(op[q].space)
      BY <2>2
    <3>2. Announces(q, p)' /\ op'[q] = op[q]
      BY <1>4, <3>1
    <3> QED
      BY <3>1, <3>2
  <2> QED
    BY <1>5, <2>1, <2>2
<1> QED
  BY <1>1, <1>2, <1>5, <1>6

\* The manifest is written: of the tools a profile enables, only those of an
\* installed Space come or go, and that Space is announced.
LEMMA WrittenAgrees ==
  ASSUME StoresInv, NEW p \in Profiles, ServedAgrees(p), NEW r \in Requests, WriteManifest(r), Acts(r),
         ~Down', manifest' # manifest
  PROVE  ServedAgrees(p)'
<1> SUFFICES ASSUME served'.profile = p, Open(Free, p)'
             PROVE  /\ served'.tools \subseteq Goes(p)'
                    /\ \A t \in Goes(p)' :
                         \/ t \in served'.tools <=> t \in Core \cup InstalledTools'
                         \/ \E q \in Requests : Announces(q, p)' /\ t \in ToolsOf(op'[q].space)
  BY DEF ServedAgrees, ToolsOf
<1> DEFINE s == op[r].space
           new == IF op[r].kind \in {"add", "cliAdd"} THEN mem[r].tools ELSE None
<1>0. /\ IInv /\ TypeOK /\ FilesOK /\ ControlOK /\ Free # r /\ Agrees(r) /\ Thorough(r) /\ Holds(r) /\ SpacesKeep
      /\ s \in Spaces /\ ~Load(r) /\ ~Build(r) /\ Change(r)
      /\ pc[r] \in StepsOf(op[r].kind) /\ op[r].kind \in Kinds
  BY TypeParts, RequestTypes, StoresAssumption
     DEF StoresInv, SessionInv, IInv, StepsAgree, RemovalIsThorough, HoldsStores, WriteManifest, Load, Build,
         Onward, Operations, Change
<1>1. /\ pc[r] = "write" /\ pc'[r] = "committed" /\ UNCHANGED <<op, mem, toolsets, defined, served, locks>>
      /\ manifest' = [Installed EXCEPT ![s] = new]
  BY <1>0 DEF WriteManifest, Goto, ControlOK, process
<1>2. Open(Free, p) /\ Goes(p)' = Goes(p)
  BY <1>0, StillOpen
<1>3. op[r].kind \in {"add", "remove"}
  <2>1. op[r].kind \notin {"cliAdd", "cliRemove"}
    BY <1>0, CommandLineDown
  <2> QED
    BY <1>0, <1>1, <2>1 DEF StepsOf, Kinds
<1>4. \A q \in Requests : Announces(q, p) => Announces(q, p)'
  <2>1. ~Announces(r, p)
    BY <1>1 DEF Announces
  <2> QED
    BY <1>0, <2>1, SwapsOthers
<1>5. ASSUME NEW t \in Tools, t \notin ToolsOf(s)
      PROVE  t \in InstalledTools' <=> t \in InstalledTools
  <2>1. Installed \in Lists(Spaces, Remote)
    BY <1>0, StoreTypes
  <2>2. op[r].kind = "add" => mem[r].tools \subseteq ToolsOf(s)
    BY <1>0, <1>1 DEF Agrees, Adds
  <2>3. new \in {None} \cup SUBSET Remote
    BY <1>3, <2>2 DEF ToolsOf
  <2>4. manifest' \in Lists(Spaces, Remote)
    BY <1>1, <2>1, <2>3 DEF Lists
  <2>5. Installed' = manifest'
    BY <2>4, NothingAssumption DEF Installed
  <2>6. \A q \in Spaces : Installed'[q] = IF q = s THEN new ELSE Installed[q]
    BY <1>1, <2>1, <2>5 DEF Lists
  <2>7. new # None => t \notin new
    BY <1>3, <1>5, <2>2
  <2>8. Installed[s] # None => t \notin Installed[s]
    BY <1>0, <1>5 DEF SpacesKeep
  <2> QED
    BY <1>0, <2>6, <2>7, <2>8 DEF InstalledTools
<1>6. Goes(p) \in SUBSET Tools
  <2>1. Goes(p)' # None
    BY DEF Open
  <2>2. Base' = toolsets'
    BY <1>0, <1>1, BaseFreeNext DEF Holds, Pending
  <2>3. Goes(p)' = Effective(p)
    BY <1>1, <2>2, GoesEffectiveNext DEF Effective, Overrides
  <2> QED
    BY <1>0, <1>2, <2>1, <2>3, StoreTypes
<1>7. op[r].kind = "remove" => Goes(p) \cap ToolsOf(s) = {}
  <2>1. Base' = toolsets'
    BY <1>0, <1>1, BaseFreeNext DEF Holds, Pending
  <2>2. Goes(p)' = Effective(p)
    BY <1>1, <2>1, GoesEffectiveNext DEF Effective, Overrides
  <2>3. Readable(p)
    BY <2>2 DEF Open, Readable
  <2> QED
    BY <1>0, <1>1, <1>2, <2>2, <2>3 DEF Thorough, Disabled, Removes
<1>8. op[r].kind = "add" => Announces(r, p)'
  BY <1>1 DEF Announces
<1>9. /\ served.tools \subseteq Goes(p)
      /\ \A t \in Goes(p) : \/ t \in served.tools <=> t \in Core \cup InstalledTools
                            \/ \E q \in Requests : Announces(q, p) /\ t \in ToolsOf(op[q].space)
  BY <1>1, <1>2 DEF ServedAgrees
<1>10. ASSUME NEW t \in Goes(p)
       PROVE  \/ t \in served'.tools <=> t \in Core \cup InstalledTools'
              \/ \E q \in Requests : Announces(q, p)' /\ t \in ToolsOf(op'[q].space)
  <2>1. CASE t \in ToolsOf(s)
    BY <1>1, <1>3, <1>7, <1>8, <2>1
  <2>2. CASE t \notin ToolsOf(s) /\ (t \in served.tools <=> t \in Core \cup InstalledTools)
    BY <1>1, <1>5, <1>6, <2>2
  <2>3. CASE \E q \in Requests : Announces(q, p) /\ t \in ToolsOf(op[q].space)
    BY <1>1, <1>4, <2>3
  <2> QED
    BY <1>9, <2>1, <2>2, <2>3
<1> QED
  BY <1>1, <1>2, <1>9, <1>10

\* A profile without tools of the new Space has nothing of it to load.
LEMMA InspectAgrees ==
  ASSUME StoresInv, NEW p \in Profiles, ServedAgrees(p), NEW r \in Requests, Inspect(r), Acts(r), ~Down'
  PROVE  ServedAgrees(p)'
<1> SUFFICES ASSUME served'.profile = p, Open(Free, p)'
             PROVE  /\ served'.tools \subseteq Goes(p)'
                    /\ \A t \in Goes(p)' :
                         \/ t \in served'.tools <=> t \in Core \cup InstalledTools'
                         \/ \E q \in Requests : Announces(q, p)' /\ t \in ToolsOf(op'[q].space)
  BY DEF ServedAgrees, ToolsOf
<1>0. /\ TypeOK /\ ControlOK /\ Free # r /\ ~Load(r) /\ ~Build(r) /\ pc[r] = "inspect"
      /\ pc[r] \in StepsOf(op[r].kind) /\ op[r].kind \in Kinds
      /\ UNCHANGED <<files, served, locks>>
  BY TypeParts, RequestTypes, StoresAssumption
     DEF StoresInv, SessionInv, IInv, Inspect, Load, Build, Onward, Operations
<1>1. op[r].kind = "add"
  BY <1>0 DEF StepsOf, Kinds
<1>2. Open(Free, p) /\ Goes(p)' = Goes(p)
  BY <1>0, StillOpen
<1>3. p \notin stale' /\ ~Covers(r, p)'
  BY <1>0 DEF Open
<1>4. Effective(mem[r].profile) \cap ToolsOf(op[r].space) = {}
  <2>1. CASE stale' = Profiles
    BY <1>3, <2>1
  <2>2. CASE Goto(r, "reload")
    BY <1>0, <1>1, <1>3, <2>2 DEF Goto, ControlOK, Covers, Loads
  <2> QED
    BY <2>1, <2>2 DEF Inspect
<1>5. Goes(p) = Effective(p)
  BY <1>0, BaseFree, GoesEffective DEF Inspect, Available, Pending
<1>6. InstalledTools' = InstalledTools
  BY <1>0 DEF InstalledTools, Installed, files
<1>7. /\ served.tools \subseteq Goes(p)
      /\ \A t \in Goes(p) : \/ t \in served.tools <=> t \in Core \cup InstalledTools
                            \/ \E q \in Requests : Announces(q, p) /\ t \in ToolsOf(op[q].space)
  BY <1>0, <1>2 DEF ServedAgrees
<1>8. ASSUME NEW t \in Goes(p)
      PROVE  \/ t \in served'.tools <=> t \in Core \cup InstalledTools'
             \/ \E q \in Requests : Announces(q, p)' /\ t \in ToolsOf(op'[q].space)
  <2>1. CASE t \in served.tools <=> t \in Core \cup InstalledTools
    BY <1>0, <1>6, <2>1
  <2>2. CASE \E q \in Requests : Announces(q, p) /\ t \in ToolsOf(op[q].space)
    <3>1. PICK q \in Requests : Announces(q, p) /\ t \in ToolsOf(op[q].space)
      BY <2>2
    <3>2. q # r
      BY <1>0, <1>4, <1>5, <3>1 DEF Announces
    <3> QED
      BY <1>0, <3>1, <3>2, SwapsOthers, OthersUntouched
  <2> QED
    BY <1>7, <2>1, <2>2
<1> QED
  BY <1>0, <1>2, <1>7, <1>8

\* What was read for the names is built: it is what the settings say, unless
\* somebody else has still to account for a change.
LEMMA BuildAgrees ==
  ASSUME StoresInv, Agreement, NEW p \in Profiles, NEW r \in Requests, Build(r), Works, Acts(r)
  PROVE  ServedAgrees(p)'
<1> SUFFICES ASSUME served'.profile = p, Open(Free, p)'
             PROVE  /\ served'.tools \subseteq Goes(p)'
                    /\ \A t \in Goes(p)' : t \in served'.tools <=> t \in Core \cup InstalledTools'
  BY DEF ServedAgrees
<1>0. /\ IInv /\ TypeOK /\ ControlOK /\ LocksOK /\ FaultsOK /\ Free # r /\ RunsAlone
  BY TypeParts, StoresAssumption DEF StoresInv, SessionInv, IInv
<1>1. ~Fault
  BY <1>0 DEF FaultsOK, Works, Fault
<1>2. /\ pc[r] = "build" /\ pc'[r] \in {"idle", "applied"} /\ UNCHANGED <<files, active, stale>>
      /\ served' = [profile |-> mem[r].profile, tools |-> Loadable(mem[r].tools)]
  BY <1>0, <1>1 DEF Build, Goto, End, ControlOK
<1>3. mem[r].profile = p /\ served'.tools = Loadable(mem[r].tools)
  BY <1>2
<1>4. Watched(p)
  <2>1. ~SwapsFrom(r, p)'
    BY <1>2 DEF SwapsFrom, Loads
  <2>2. Watched(p)'
    BY DEF Open
  <2> QED
    BY <1>0, <1>2, <2>1, <2>2, SwapsOthers DEF Watched
<1>5. Base' = Base
  <2>1. CASE locks["toolsets"] \notin {Free, r}
    BY <1>0, <2>1, BaseOthers
  <2>2. CASE locks["toolsets"] \in {Free, r}
    <3>1. locks'["toolsets"] \in {Free, r}
      BY <1>0, <2>2, LockTaken
    <3> QED
      BY <1>2, <2>2, <3>1, BaseFree, BaseFreeNext DEF Pending, files
  <2> QED
    BY <2>1, <2>2
<1>6. Goes(p)' = Goes(p)
  BY <1>2, <1>5 DEF Goes, files
<1>7. Open(r, p)
  <2>1. \A q \in Requests \ {r} : ~Covers(q, p)'
    <3>1. \A q \in Requests \ {Free} : ~Covers(q, p)'
      BY DEF Open
    <3> QED
      BY <3>1, StoresAssumption
  <2>2. \A q \in Requests \ {r} : ~Covers(q, p)
    BY <1>0, <2>1, SwapsOthers
  <2>3. Goes(p) # None /\ p \notin stale
    BY <1>2, <1>6 DEF Open
  <2> QED
    BY <1>4, <2>2, <2>3 DEF Open
<1>8. mem[r].tools = Goes(p)
  BY <1>2, <1>3, <1>7 DEF Agreement, LoaderAgrees
<1>9. InstalledTools' = InstalledTools
  BY <1>2 DEF InstalledTools, Installed, files
<1> QED
  BY <1>3, <1>6, <1>8, <1>9 DEF Loadable, InstalledTools

LEMMA KeepsServed ==
  ASSUME StoresInv, StoresInv', Agreement, NEW r \in Requests, Acts(r), NEW p \in Profiles
  PROVE  ServedAgrees(p)'
<1>0. ServedAgrees(p) /\ TypeOK /\ Onward /\ Session /\ p # None
  BY NothingAssumption DEF Agreement, StoresInv, SessionInv, IInv
<1>1. CASE Down'
  BY <1>0, <1>1 DEF StoresInv, UnloadedDown, ServedAgrees
<1>2. CASE Load(r)
  <2>1. pc[r] = "load" /\ op[r].kind = "start"
    BY <1>0, <1>2, RequestTypes, TypeParts DEF Load, Onward, StepsOf, Operations, Kinds
  <2>2. Down
    BY <2>1, <1>0 DEF Session, Attends, Alone
  <2>3. served'.profile = None
    BY <1>2, <2>2 DEF Load, StoresInv, UnloadedDown
  <2> QED
    BY <1>0, <2>3 DEF ServedAgrees
<1>3. CASE Build(r) /\ Works
  BY <1>3, BuildAgrees
<1>4. CASE Inspect(r) /\ ~Down'
  BY <1>0, <1>4, InspectAgrees
<1>5. CASE manifest' # manifest /\ ~Down'
  <2>1. WriteManifest(r)
    <3>1. CASE \E o \in Asked : Ask(r, o)
      BY <1>5, <3>1 DEF Ask, files
    <3>2. CASE Change(r)
      BY <1>5, <3>2 DEF Change, Resolve, LockManifest, LockToolsets, ChangeAdd, ChangeRemove, Disable, Restore,
         Unlock, After, Inspect, files
    <3>3. CASE Access(r) \/ Apply(r) \/ (Loading(r) /\ ~Ends)
      BY <1>0, <1>5, <3>3, OutsideSteps
    <3>4. CASE Personality(r)
      BY <1>0, <1>5, <3>4, PersonalitySteps DEF StoresInv, SessionInv, IInv
    <3> QED
      BY <3>1, <3>2, <3>3, <3>4 DEF Acts, Step
  <2> QED
    BY <1>0, <1>5, <2>1, WrittenAgrees
<1>6. CASE ~Down' /\ ~Load(r) /\ ~(Build(r) /\ Works) /\ ~Inspect(r) /\ UNCHANGED manifest
  BY <1>0, <1>6, SettledAgrees
<1> QED
  BY <1>1, <1>2, <1>3, <1>4, <1>5, <1>6

LEMMA KeepsLoader ==
  ASSUME StoresInv, StoresInv', Agreement, NEW r \in Requests, Acts(r), NEW p \in Profiles, NEW w \in Requests
  PROVE  LoaderAgrees(w, p)'
<1> SUFFICES ASSUME pc'[w] = "build", mem'[w].profile = p, Open(w, p)'
             PROVE  mem'[w].tools = Goes(p)'
  BY DEF LoaderAgrees
<1>0. /\ IInv /\ TypeOK /\ ControlOK /\ Onward /\ Session /\ RunsAlone /\ mem[r] \in Memory
      /\ Free # r /\ LoaderAgrees(w, p)
  BY TypeParts, RequestTypes, StoresAssumption DEF StoresInv, SessionInv, IInv, Agreement
<1>1. ~Down'
  <2>1. op'[w].kind \in Kinds /\ pc'[w] \in StepsOf(op'[w].kind) /\ Attends(w)'
    <3>1. TypeOK' /\ Onward' /\ Session'
      BY DEF StoresInv, SessionInv, IInv
    <3> QED
      BY <3>1 DEF TypeOK, Onward, Session, Operations
  <2> QED
    BY <2>1 DEF Attends, Alone, StepsOf, Kinds
<1>2. CASE w = r
  <2>1. Step(r) /\ ~Ends /\ op'[r] = op[r]
    BY <1>0, <1>2, GoesOn
  <2>2. ReadNames(r)
    <3>1. ~Change(r)
      BY <1>0, <1>2 DEF Change, Resolve, LockManifest, LockToolsets, ChangeAdd, ChangeRemove, Disable,
         WriteManifest, Restore, Unlock, After, Inspect, Goto, GotoWith, End, ControlOK
    <3>2. ~Access(r) /\ ~Personality(r)
      BY <1>0, <1>2 DEF Access, Known, Current, Defaults, ReadCatalog, WriteOverride, ClearOverride,
         Personality, Author, AuthorClears, WriteDocument, Unauthor, Delete, DeleteDocument, DeleteOverride,
         Goto, GotoWith, End, ControlOK
    <3>3. ~Apply(r)
      BY <1>0, <1>2 DEF Apply, Compare, SetProfile, InstructionsFail, Undo, Applied, ReadVoice, WriteVoice,
         Goto, GotoWith, End, ControlOK
    <3>4. ~Load(r) /\ ~Initialize(r) /\ ~Reload(r) /\ ~Build(r) /\ ~Fallback(r)
      BY <1>0, <1>2, <2>1 DEF Load, Initialize, Reload, Build, Fallback, LoadFails, Goto, GotoWith, End, ControlOK
    <3> QED
      BY <2>1, <3>1, <3>2, <3>3, <3>4 DEF Step, Loading
  <2>3. /\ locks["toolsets"] \in {Free, r} /\ UNCHANGED <<files, locks, active>>
        /\ mem'[r] = [mem[r] EXCEPT !.tools = Effective(active)]
        /\ stale' = Profiles \/ mem[r].profile = active \/ stale' = stale \cup {mem[r].profile}
    BY <1>0, <1>2, <2>2 DEF ReadNames, LoadFails, Available, Goto, GotoWith, End, ControlOK
  <2>4. mem'[r].tools = Effective(active) /\ mem'[r].profile = mem[r].profile
    BY <1>0, <2>3 DEF Memory
  <2>5. p \notin stale'
    BY DEF Open
  <2>6. p = active
    BY <1>2, <2>3, <2>4, <2>5
  <2>7. Base' = toolsets'
    BY <1>2, <2>3, BaseFreeNext DEF Pending
  <2>8. Goes(p)' = Effective(p)
    BY <2>3, <2>7, GoesEffectiveNext DEF Effective, Overrides, files
  <2> QED
    BY <1>2, <2>4, <2>6, <2>8
<1>3. CASE w # r
  <2>1. pc[w] = "build" /\ mem[w].profile = p /\ mem'[w] = mem[w]
    BY <1>0, <1>3, OthersUntouched
  <2>2. locks["registry"] = w
    BY <1>0, <2>1 DEF RunsAlone, Runs
  <2>3. ~Build(r)
    BY <1>0, <1>3, <2>2 DEF Build, RunsAlone, Runs
  <2>4. ~Load(r)
    <3>1. Load(r) => pc[r] = "load" /\ op[r].kind = "start"
      BY <1>0, RequestTypes, TypeParts DEF Load, Onward, StepsOf, Operations, Kinds
    <3>2. Load(r) => Down
      BY <1>0, <3>1 DEF Session, Attends, Alone
    <3>3. op[w].kind \in Kinds /\ pc[w] \in StepsOf(op[w].kind) /\ Attends(w)
      BY <1>0, RequestTypes DEF Onward, Session, Operations
    <3>4. ~Down
      BY <2>1, <3>3 DEF Attends, Alone, StepsOf, Kinds
    <3> QED
      BY <3>2, <3>4
  <2>5. Open(w, p) /\ Goes(p)' = Goes(p)
    BY <1>1, <1>3, <2>3, <2>4, StillOpen
  <2> QED
    BY <1>0, <2>1, <2>5 DEF LoaderAgrees
<1> QED
  BY <1>2, <1>3

LEMMA InitServed == Init => ServedInv
<1> SUFFICES ASSUME Init PROVE ServedInv
  OBVIOUS
<1>1. StoresInv
  BY InitStores
<1>2. served.profile = None /\ \A r \in Requests : pc[r] = "idle"
  BY DEF Init, Unloaded
<1> QED
  BY <1>1, <1>2, NothingAssumption DEF ServedInv, Agreement, ServedAgrees, LoaderAgrees

LEMMA StepServed == ServedInv /\ [Next]_vars => ServedInv'
<1> SUFFICES ASSUME ServedInv, [Next]_vars PROVE ServedInv'
  OBVIOUS
<1>0. StoresInv /\ Agreement /\ StoresInv'
  BY StepStores DEF ServedInv
<1>1. ASSUME NEW r \in Requests, Acts(r)
      PROVE  ServedInv'
  BY <1>0, <1>1, KeepsServed, KeepsLoader DEF ServedInv, Agreement
<1>2. CASE Ends
  <2>1. served'.profile = None /\ \A r \in Requests : pc'[r] = "idle"
    BY <1>2 DEF Ends, Unloaded
  <2> QED
    BY <1>0, <2>1, NothingAssumption DEF ServedInv, Agreement, ServedAgrees, LoaderAgrees
<1>3. CASE UNCHANGED vars
  <2>1. Base' = Base /\ InstalledTools' = InstalledTools
    BY <1>3 DEF vars, files, process, Base, InstalledTools, Installed
  <2>2. UNCHANGED <<defined, active, served, stale, pc, op, mem>>
    BY <1>3 DEF vars, files, process, requests
  <2>3. \A p \in Profiles : Goes(p)' = Goes(p) /\ (Watched(p) <=> Watched(p)')
    BY <2>1, <2>2 DEF Goes, Watched, SwapsFrom
  <2>4. \A p \in Profiles, r \in Requests : (Covers(r, p) <=> Covers(r, p)') /\ (Announces(r, p) <=> Announces(r, p)')
    BY <2>2 DEF Covers, Announces
  <2>5. \A p \in Profiles, w \in Requests \cup {Free} : Open(w, p)' => Open(w, p)
    BY <2>2, <2>3, <2>4 DEF Open
  <2>6. ASSUME NEW p \in Profiles
        PROVE  ServedAgrees(p)'
    BY <1>0, <2>1, <2>2, <2>3, <2>4, <2>5, <2>6 DEF Agreement, ServedAgrees, ToolsOf
  <2>7. ASSUME NEW p \in Profiles, NEW w \in Requests
        PROVE  LoaderAgrees(w, p)'
    BY <1>0, <2>2, <2>3, <2>5, <2>7 DEF Agreement, LoaderAgrees
  <2> QED
    BY <1>0, <2>6, <2>7 DEF ServedInv, Agreement
<1> QED
  BY <1>1, <1>2, <1>3 DEF Next, Acts, Step, Crash

\* At rest, the tools loaded for the active profile are those its settings and the
\* manifest say, unless the code left them on purpose (apply_tool_change,
\* apply_personality, initialize_tools): whatever requests ran beside each other,
\* failed or were cut off.
THEOREM LoadedFollowsTheStores == Spec => []ServedFollowsStores
<1>1. ServedInv => ServedFollowsStores
  <2> SUFFICES ASSUME ServedInv, Resting, served.profile = active, active \notin stale, Readable(active)
               PROVE  served.tools = Loadable(Effective(active))
    BY DEF ServedFollowsStores
  <2>0. TypeOK /\ HoldsStores /\ active \in Profiles /\ ServedAgrees(active)
    BY DEF ServedInv, Agreement, StoresInv, SessionInv, IInv, TypeOK
  <2>1. \A r \in Requests : pc[r] = "idle"
    BY DEF Resting
  <2>2. Base = toolsets
    <3>1. locks["toolsets"] \in Requests \cup {Free}
      BY <2>0 DEF TypeOK, LockNames
    <3> QED
      BY <2>1, <3>1 DEF Base, Pending
  <2>3. Goes(active) = Effective(active)
    BY <2>0, <2>2, GoesEffective
  <2>4. \A r \in Requests : ~Covers(r, active) /\ ~Announces(r, active)
    BY <2>1 DEF Covers, Announces, Loads
  <2>5. Open(Free, active)
    BY <2>3, <2>4 DEF Open, Watched, Readable
  <2>6. /\ served.tools \subseteq Effective(active)
        /\ \A t \in Effective(active) : t \in served.tools <=> t \in Core \cup InstalledTools
    BY <2>0, <2>3, <2>4, <2>5 DEF ServedAgrees
  <2> QED
    BY <2>6 DEF Loadable
<1> QED
  BY <1>1, InitServed, StepServed, PTL DEF Spec
===============================================================================
