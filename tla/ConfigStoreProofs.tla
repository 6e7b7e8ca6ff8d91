-------------------------- MODULE ConfigStoreProofs --------------------------
(***************************************************************************)
(* ConfigStore implements DurableSettings, and a save changes nothing but  *)
(* the settings: for any set of snapshots, any number of queued saves,     *)
(* failing calls, crashes and edits by other programs.                     *)
(*                                                                         *)
(* The calls of writeSnapshot() go to a path, so what they reach depends   *)
(* on what was found there before.  The invariant says what a save knows   *)
(* when it makes the next call: from the inspection on the staged file is  *)
(* its own and no link, from the chmod on it has the mode of the settings, *)
(* and before the rename it holds the oldest snapshot that waits.          *)
(***************************************************************************)
EXTENDS ConfigStore, SequenceTheorems, TLAPS

Steps == {"idle", "inspect", "open", "chmod", "write", "written", "rename"}
\* The staged file has been inspected, opened, given its mode, or written.
Inspected == {"open", "chmod", "write", "written", "rename"}
Opened    == {"chmod", "write", "written", "rename"}
HasMode   == {"write", "written", "rename"}

Contents == Snapshots \cup {Unusable}
Entries == [kind : {"missing", "file", "directory"}, content : Contents, mode : Modes,
            link : {"none", "config", "foreign"}]
Files == {file \in Entries : file.kind = "missing" => file.link = "none"}

Types ==
    /\ state \in Snapshots /\ persistQueue \in Seq(Snapshots)
    /\ step \in Steps /\ mode \in Modes
    /\ config \in Files /\ staged \in Files /\ foreign \in Files /\ foreign.kind = "file"
    /\ edits \in Nat

\* Other programs keep away during a save, so the mode read is still right.
SaveInProgress ==
    step # "idle" =>
        /\ persistQueue # <<>>
        /\ mode = IF config.kind = "missing" THEN Private ELSE config.mode

StagedIsOurs ==
    /\ step \in Inspected => staged.link = "none" /\ staged.kind # "directory"
    /\ step \in Opened => staged.kind = "file"
    /\ step \in HasMode => staged.mode = mode
    /\ step = "rename" => staged.content = Head(persistQueue)

Inv == Types /\ SaveInProgress /\ StagedIsOurs

-----------------------------------------------------------------------------
(* Files *)

LEMMA MissingFile ==
    /\ Missing \in Files /\ Missing.kind = "missing" /\ Missing.link = "none"
    /\ Missing.content = Unusable
    /\ \A c \in Contents, m \in Modes :
        /\ File(c, m) \in Files /\ File(c, m).link = "none" /\ File(c, m).kind = "file"
        /\ File(c, m).content = c /\ File(c, m).mode = m
  BY DEF Missing, File, Files, Entries, Contents, Modes, Private

\* A file that is no link is written alone.
LEMMA ThroughOwnFile ==
    ASSUME NEW file \in Files, file.link = "none", Through(file)
    PROVE  staged' = file /\ UNCHANGED <<config, foreign>>
  BY DEF Through

LEMMA SaveEndsSafely ==
    ASSUME Inv, persistQueue # <<>>, NEW outcome, SaveEnds(outcome), state' = state, edits' = edits,
           mode' \in Modes, config' \in Files, staged' \in Files, foreign' = foreign
    PROVE  Inv' /\ persistQueue' = Tail(persistQueue)
  <1>1. persistQueue' = Tail(persistQueue) /\ step' = "idle" /\ persistQueue' \in Seq(Snapshots)
    BY HeadTailProperties DEF SaveEnds, Inv, Types
  <1>2. Types'
    BY <1>1 DEF Inv, Types, Steps
  <1> QED
    BY <1>1, <1>2 DEF Inv, SaveInProgress, StagedIsOurs, Inspected, Opened, HasMode

-----------------------------------------------------------------------------
(* What every step keeps: the invariant, the abstract store, the files *)

Refines == [Durable!Next]_(Durable!vars)
OnlySettings ==
    /\ foreign' = foreign
    /\ config' # config =>
        \/ edits' # edits
        \/ config'.mode = IF config.kind = "missing" THEN Private ELSE config.mode
Good == Inv' /\ Refines /\ OnlySettings

\* A save that fails at any call leaves the settings file as it was.
LEMMA FailedSave ==
    ASSUME Inv, step # "idle" \/ persistQueue # <<>>, NEW outcome, SaveEnds(outcome),
           UNCHANGED <<state, edits, config, foreign>>, mode' \in Modes, staged' \in Files
    PROVE  Good
  <1>1. persistQueue # <<>>
    BY DEF Inv, SaveInProgress
  <1>2. Inv' /\ persistQueue' = Tail(persistQueue)
    BY <1>1, SaveEndsSafely DEF Inv, Types
  <1>3. Refines
    BY <1>1, <1>2 DEF Refines, Durable!Next, Durable!Refuse, Durable!vars
  <1> QED
    BY <1>2, <1>3 DEF Good, OnlySettings

\* Between its first call and the rename a save only touches the staged file.
LEMMA QuietStep ==
    ASSUME Inv', UNCHANGED <<state, persistQueue, config, foreign>>
    PROVE  Good
  BY DEF Good, Refines, OnlySettings, Durable!vars

LEMMA PersistStateGood ==
    ASSUME Inv, NEW v \in Snapshots, PersistState(v)
    PROVE  Good
  <1> USE DEF PersistState
  <1>1. /\ persistQueue' \in Seq(Snapshots) /\ persistQueue' # <<>>
        /\ persistQueue # <<>> => Head(persistQueue') = Head(persistQueue)
    BY AppendProperties, HeadTailAppend DEF Inv, Types
  <1>2. Types'
    BY <1>1 DEF Inv, Types
  <1>3. SaveInProgress' /\ StagedIsOurs'
    BY <1>1 DEF Inv, SaveInProgress, StagedIsOurs, Inspected, Opened, HasMode
  <1>4. Refines
    BY DEF Refines, Durable!Next, Durable!Save
  <1> QED
    BY <1>2, <1>3, <1>4 DEF Good, Inv, OnlySettings

LEMMA ReadModeGood ==
    ASSUME Inv, ReadMode
    PROVE  Good
  <1>1. /\ step = "idle" /\ persistQueue # <<>>
        /\ UNCHANGED <<state, config, staged, foreign, edits>>
    BY DEF ReadMode
  <1>2. CASE SaveEnds("failed") /\ UNCHANGED mode
    BY <1>1, <1>2, FailedSave DEF Inv, Types
  <1>3. CASE /\ mode' = IF config.kind = "missing" THEN Private ELSE config.mode
             /\ step' = "inspect" /\ UNCHANGED persistQueue
    <2>1. mode' \in Modes
      BY <1>3 DEF Inv, Types, Files, Entries, Modes, Private
    <2>2. Types'
      BY <1>1, <1>3, <2>1 DEF Inv, Types, Steps
    <2>3. SaveInProgress' /\ StagedIsOurs'
      BY <1>1, <1>3 DEF SaveInProgress, StagedIsOurs, Inspected, Opened, HasMode
    <2> QED
      BY <1>1, <1>3, <2>2, <2>3, QuietStep DEF Inv
  <1> QED
    BY <1>2, <1>3 DEF ReadMode

LEMMA InspectGood ==
    ASSUME Inv, InspectStaged
    PROVE  Good
  <1>1. step = "inspect" /\ UNCHANGED <<state, mode, edits>>
    BY DEF InspectStaged
  <1>2. CASE /\ SaveEnds("refused") \/ SaveEnds("failed")
             /\ UNCHANGED <<config, staged, foreign>>
    BY <1>1, <1>2, FailedSave DEF Inv, Types
  <1>3. CASE /\ Continues("open") /\ UNCHANGED <<config, foreign>>
             /\ staged' \in Files /\ staged'.link = "none" /\ staged'.kind # "directory"
    <2>1. Types'
      BY <1>1, <1>3 DEF Continues, Inv, Types, Steps
    <2>2. SaveInProgress' /\ StagedIsOurs'
      BY <1>1, <1>3 DEF Continues, Inv, SaveInProgress, StagedIsOurs, Inspected, Opened, HasMode
    <2> QED
      BY <1>1, <1>3, <2>1, <2>2, QuietStep DEF Inv, Continues
  <1>4. CASE staged.kind = "missing" /\ Continues("open") /\ UNCHANGED <<config, staged, foreign>>
    <2>1. staged.link = "none"
      BY <1>1, <1>4 DEF Inv, Types, Files
    <2> QED
      BY <1>3, <1>4, <2>1 DEF Inv, Types
  <1>5. CASE Stageable(staged) /\ Continues("open") /\ Through([staged EXCEPT !.mode = Private])
    <2> DEFINE file == [staged EXCEPT !.mode = Private]
    <2>1. file \in Files /\ file.link = "none" /\ file.kind = "file"
      BY <1>5 DEF Inv, Types, Files, Entries, Modes, Private, Stageable
    <2>2. staged' = file /\ UNCHANGED <<config, foreign>>
      BY <1>5, <2>1, ThroughOwnFile
    <2> QED
      BY <1>3, <1>5, <2>1, <2>2
  <1>6. \/ staged.kind = "missing" /\ Continues("open") /\ UNCHANGED <<config, staged, foreign>>
        \/ SaveEnds("refused") /\ UNCHANGED <<config, staged, foreign>>
        \/ Stageable(staged) /\ Continues("open") /\ Through([staged EXCEPT !.mode = Private])
        \/ SaveEnds("failed") /\ UNCHANGED <<config, staged, foreign>>
    BY DEF InspectStaged
  <1> QED
    BY <1>2, <1>4, <1>5, <1>6

LEMMA OpenGood ==
    ASSUME Inv, OpenStaged
    PROVE  Good
  <1>1. step = "open" /\ UNCHANGED <<state, mode, edits>> /\ staged.link = "none"
    BY DEF OpenStaged, Inv, StagedIsOurs, Inspected
  <1>2. CASE /\ SaveEnds("blocked") \/ SaveEnds("failed")
             /\ UNCHANGED <<config, staged, foreign>>
    BY <1>1, <1>2, FailedSave DEF Inv, Types
  <1> DEFINE file == [(IF staged.kind = "missing" THEN File(Unusable, Private) ELSE staged)
                      EXCEPT !.content = Unusable]
  <1>3. CASE Continues("chmod") /\ Through(file) /\ staged.kind \in {"missing", "file"}
    <2>1. file \in Files /\ file.link = "none" /\ file.kind = "file"
      BY <1>1, <1>3 DEF Inv, Types, File, Missing, Files, Entries, Contents, Modes, Private
    <2>2. staged' = file /\ UNCHANGED <<config, foreign>>
      BY <1>3, <2>1, ThroughOwnFile
    <2>3. Types'
      BY <1>1, <1>3, <2>1, <2>2 DEF Continues, Inv, Types, Steps
    <2>4. SaveInProgress' /\ StagedIsOurs'
      BY <1>1, <1>3, <2>1, <2>2
         DEF Continues, Inv, SaveInProgress, StagedIsOurs, Inspected, Opened, HasMode
    <2> QED
      BY <1>1, <1>3, <2>2, <2>3, <2>4, QuietStep DEF Inv, Continues
  <1>4. staged.kind \in {"missing", "file"}
    BY <1>1 DEF Inv, StagedIsOurs, Inspected, Types, Files, Entries
  <1> QED
    BY <1>2, <1>3, <1>4 DEF OpenStaged

\* From the chmod to the end of the write only the staged file's own contents
\* and mode change.
LEMMA OwnFileStep ==
    ASSUME Inv, step \in Opened, NEW next \in HasMode, Continues(next),
           NEW file \in Files, file.kind = "file", file.link = "none", file.mode = mode,
           next = "rename" => file.content = Head(persistQueue),
           Through(file), UNCHANGED <<state, mode, edits>>
    PROVE  Good
  <1>1. staged' = file /\ UNCHANGED <<config, foreign>>
    BY ThroughOwnFile
  <1>2. Types'
    BY <1>1 DEF Continues, Inv, Types, Steps, HasMode
  <1>3. SaveInProgress' /\ StagedIsOurs'
    BY <1>1 DEF Continues, Inv, SaveInProgress, StagedIsOurs, Inspected, Opened, HasMode
  <1> QED
    BY <1>1, <1>2, <1>3, QuietStep DEF Inv, Continues

LEMMA OwnFile ==
    ASSUME Inv, step \in Opened
    PROVE  /\ staged \in Entries /\ staged.kind = "file" /\ staged.link = "none"
           /\ step \in HasMode => staged.mode = mode
           /\ mode \in Modes /\ Unusable \in Contents
           /\ persistQueue # <<>> /\ Head(persistQueue) \in Snapshots
  <1>1. persistQueue # <<>>
    BY DEF Inv, SaveInProgress, Opened
  <1>2. Head(persistQueue) \in Snapshots
    BY <1>1, HeadTailProperties DEF Inv, Types
  <1> QED
    BY <1>1, <1>2 DEF Inv, Types, StagedIsOurs, Inspected, Opened, HasMode, Files, Contents

LEMMA SetModeGood ==
    ASSUME Inv, SetMode
    PROVE  Good
  <1>1. step = "chmod" /\ UNCHANGED <<state, mode, edits>> /\ step \in Opened
    BY DEF SetMode, Opened
  <1>2. CASE SaveEnds("failed") /\ UNCHANGED <<config, staged, foreign>>
    BY <1>1, <1>2, FailedSave DEF Inv, Types
  <1> DEFINE file == [staged EXCEPT !.mode = mode]
  <1>3. CASE Through(file) /\ Continues("write")
    <2>1. file \in Files /\ file.kind = "file" /\ file.link = "none" /\ file.mode = mode
      BY <1>1, OwnFile DEF Files, Entries
    <2> QED
      BY <1>1, <1>3, <2>1, OwnFileStep DEF HasMode
  <1> QED
    BY <1>2, <1>3 DEF SetMode

LEMMA WriteBeginsGood ==
    ASSUME Inv, WriteBegins
    PROVE  Good
  <1> DEFINE file == [staged EXCEPT !.content = Unusable]
  <1>1. /\ step = "write" /\ step \in Opened /\ step \in HasMode
        /\ Through(file) /\ Continues("written") /\ UNCHANGED <<state, mode, edits>>
    BY DEF WriteBegins, Opened, HasMode
  <1>2. file \in Files /\ file.kind = "file" /\ file.link = "none" /\ file.mode = mode
    BY <1>1, OwnFile DEF Files, Entries
  <1> QED
    BY <1>1, <1>2, OwnFileStep DEF HasMode

LEMMA WriteEndsGood ==
    ASSUME Inv, WriteEnds
    PROVE  Good
  <1>1. /\ step = "written" /\ step \in Opened /\ step \in HasMode
        /\ UNCHANGED <<state, mode, edits>>
    BY DEF WriteEnds, Opened, HasMode
  <1>2. CASE SaveEnds("failed") /\ UNCHANGED <<config, staged, foreign>>
    BY <1>1, <1>2, FailedSave DEF Inv, Types
  <1> DEFINE file == [staged EXCEPT !.content = Head(persistQueue)]
  <1>3. CASE Through(file) /\ Continues("rename")
    <2>1. /\ file \in Files /\ file.kind = "file" /\ file.link = "none" /\ file.mode = mode
          /\ file.content = Head(persistQueue)
      BY <1>1, OwnFile DEF Files, Entries, Contents
    <2> QED
      BY <1>1, <1>3, <2>1, OwnFileStep DEF HasMode
  <1> QED
    BY <1>2, <1>3 DEF WriteEnds, WrittenContent

\* The rename is the commit: the settings file becomes the oldest snapshot, in
\* the mode the settings had.
LEMMA RenameGood ==
    ASSUME Inv, RenameStaged
    PROVE  Good
  <1>1. /\ step = "rename" /\ step \in Opened /\ step \in HasMode
        /\ UNCHANGED <<state, mode, foreign, edits>>
    BY DEF RenameStaged, Opened, HasMode
  <1>2. CASE /\ SaveEnds("blocked") \/ SaveEnds("failed")
             /\ UNCHANGED <<config, staged>>
    BY <1>1, <1>2, FailedSave DEF Inv, Types
  <1>3. CASE SaveEnds("ok") /\ config' = staged /\ staged' = Missing
    <2>1. persistQueue # <<>>
      BY <1>1, OwnFile
    <2>2. Inv' /\ persistQueue' = Tail(persistQueue)
      BY <1>1, <1>3, <2>1, SaveEndsSafely, MissingFile DEF Inv, Types
    <2>3. config'.content = Head(persistQueue)
      BY <1>1, <1>3 DEF Inv, StagedIsOurs
    <2>4. Refines
      BY <1>1, <2>1, <2>2, <2>3 DEF Refines, Durable!Next, Durable!Commit
    <2>5. config'.mode = IF config.kind = "missing" THEN Private ELSE config.mode
      BY <1>1, <1>3, OwnFile DEF Inv, SaveInProgress
    <2> QED
      BY <1>1, <2>2, <2>4, <2>5 DEF Good, OnlySettings
  <1> QED
    BY <1>2, <1>3 DEF RenameStaged

-----------------------------------------------------------------------------
(* Crashes and other programs *)

LEMMA LoadedIsASnapshot ==
    ASSUME NEW file \in Files
    PROVE  Load(file) \in Snapshots /\ Load(file) = Durable!Loaded(file.content)
  BY SnapshotsAssumption DEF Load, Durable!Loaded

LEMMA CrashGood ==
    ASSUME Inv, Crash
    PROVE  Good
  <1> USE DEF Crash
  <1>1. state' \in Snapshots /\ state' = Durable!Loaded(config.content)
    BY LoadedIsASnapshot DEF Inv, Types
  <1>2. Types'
    BY <1>1 DEF Inv, Types, Steps, Modes, Private
  <1>3. SaveInProgress' /\ StagedIsOurs'
    BY DEF SaveInProgress, StagedIsOurs, Inspected, Opened, HasMode
  <1>4. Refines
    BY <1>1 DEF Refines, Durable!Next, Durable!Restart
  <1> QED
    BY <1>2, <1>3, <1>4 DEF Good, Inv, OnlySettings

LEMMA EditGood ==
    ASSUME Inv, Edit
    PROVE  Good
  <1>1. /\ step = "idle" /\ persistQueue = <<>> /\ edits' = edits + 1
        /\ UNCHANGED <<state, persistQueue, step, mode, foreign>>
    BY DEF Edit
  <1>2. config' \in Files /\ staged' \in Files
    <2>1. \/ UNCHANGED staged
          \/ UNCHANGED config
      BY DEF Edit
    <2>2. CASE UNCHANGED staged
      <3>1. \/ UNCHANGED config
            \/ \E m \in Modes : config' = [config EXCEPT !.mode = m] /\ config.kind = "file"
            \/ config' = Missing
            \/ \E c \in Contents : config' = File(c, "shared")
        BY <2>2 DEF Edit, Contents
      <3> QED
        BY <2>2, <3>1, MissingFile DEF Inv, Types, Files, Entries, Modes
    <2>3. CASE UNCHANGED config
      <3>1. \/ UNCHANGED staged
            \/ \E m \in Modes : staged' = File(Unusable, m)
            \/ staged' = Missing
            \/ staged' = [Missing EXCEPT !.kind = "directory", !.link = "foreign"]
            \/ config.kind = "file" /\ staged' = [config EXCEPT !.link = "config"]
            \/ staged' = [foreign EXCEPT !.link = "foreign"]
        BY <2>3 DEF Edit
      <3>2. ASSUME staged' = [Missing EXCEPT !.kind = "directory", !.link = "foreign"]
            PROVE  staged' \in Files
        BY <3>2 DEF Files, Entries, Contents, Missing, Modes, Private
      <3>3. ASSUME config.kind = "file", staged' = [config EXCEPT !.link = "config"]
            PROVE  staged' \in Files
        BY <3>3 DEF Inv, Types, Files, Entries
      <3>4. ASSUME staged' = [foreign EXCEPT !.link = "foreign"]
            PROVE  staged' \in Files
        BY <3>4 DEF Inv, Types, Files, Entries
      <3>5. ASSUME NEW m \in Modes, staged' = File(Unusable, m) PROVE staged' \in Files
        BY <3>5, MissingFile DEF Contents
      <3> QED
        BY <2>3, <3>1, <3>2, <3>3, <3>4, <3>5, MissingFile DEF Inv, Types
    <2> QED
      BY <2>1, <2>2, <2>3
  <1>3. Types'
    BY <1>1, <1>2 DEF Inv, Types
  <1>4. SaveInProgress' /\ StagedIsOurs'
    BY <1>1 DEF SaveInProgress, StagedIsOurs, Inspected, Opened, HasMode
  <1>5. Refines
    <2>1. config'.content \in Snapshots \cup {Unusable}
      BY <1>2 DEF Files, Entries, Contents
    <2> QED
      BY <1>1, <2>1 DEF Refines, Durable!Next, Durable!Edit
  <1>6. edits' # edits
    BY <1>1 DEF Inv, Types
  <1> QED
    BY <1>1, <1>3, <1>4, <1>5, <1>6 DEF Good, Inv, OnlySettings

-----------------------------------------------------------------------------
LEMMA InitInv == Init => Inv /\ Durable!Init
  <1> SUFFICES ASSUME Init PROVE Inv /\ Durable!Init
    OBVIOUS
  <1>1. config \in Files /\ staged \in Files
    BY MissingFile DEF Init, Contents
  <1>2. foreign \in Files /\ foreign.kind = "file"
    BY MissingFile, SnapshotsAssumption DEF Init, Contents, Modes
  <1>3. Types
    BY <1>1, <1>2, LoadedIsASnapshot DEF Init, Types, Steps, Modes, Private
  <1>4. SaveInProgress /\ StagedIsOurs
    BY DEF Init, SaveInProgress, StagedIsOurs, Inspected, Opened, HasMode
  <1>5. Durable!Init
    <2>1. config.content \in Snapshots \cup {Unusable}
      BY <1>1 DEF Files, Entries, Contents
    <2> QED
      BY <1>1, <2>1, LoadedIsASnapshot DEF Init, Durable!Init
  <1> QED
    BY <1>3, <1>4, <1>5 DEF Inv

LEMMA NextGood == Inv /\ [Next]_vars => Good
  <1> SUFFICES ASSUME Inv, [Next]_vars PROVE Good
    OBVIOUS
  <1>1. ASSUME NEW v \in Snapshots, PersistState(v) PROVE Good
    BY <1>1, PersistStateGood
  <1>2. CASE Saving
    BY <1>2, ReadModeGood, InspectGood, OpenGood, SetModeGood, WriteBeginsGood, WriteEndsGood,
       RenameGood DEF Saving
  <1>3. CASE Crash
    BY <1>3, CrashGood
  <1>4. CASE Edit
    BY <1>4, EditGood
  <1>5. CASE UNCHANGED vars
    <2>1. Inv'
      BY <1>5 DEF vars, Inv, Types, SaveInProgress, StagedIsOurs
    <2> QED
      BY <1>5, <2>1, QuietStep DEF vars
  <1> QED
    BY <1>1, <1>2, <1>3, <1>4, <1>5 DEF Next

\* What a save knows of the files when it makes its next call.
THEOREM InvHolds == Spec => []Inv
  <1>1. Inv /\ [Next]_vars => Inv'
    BY NextGood DEF Good
  <1> QED
    BY InitInv, <1>1, PTL DEF Spec

\* The file calls of writeSnapshot(), with every failure, crash and edit,
\* behave as the abstract store: whole snapshots, in the order of the changes.
THEOREM StoreIsDurable == Spec => DurableImplemented
  <1>1. Inv /\ [Next]_vars => [Durable!Next]_(Durable!vars)
    BY NextGood DEF Good, Refines
  <1> QED
    BY InitInv, <1>1, InvHolds, PTL DEF Spec, DurableImplemented, Durable!Spec

\* No save touches a file that is not its own or changes who may read the
\* settings, whatever was put at the two paths before it.
THEOREM SettingsOnly == Spec => OnlySettingsChange
  <1>1. Inv /\ [Next]_vars =>
            [/\ foreign' = foreign
             /\ config' # config =>
                  \/ edits' # edits
                  \/ config'.mode = IF config.kind = "missing" THEN Private ELSE config.mode]_vars
    BY NextGood DEF Good, OnlySettings
  <1> QED
    BY <1>1, InvHolds, PTL DEF Spec, OnlySettingsChange

=============================================================================
