---------------------------- MODULE ConfigStore ----------------------------
(***************************************************************************)
(* loadPersistedState() and persistState() of server/state/index.ts, one   *)
(* action per file system call of writeSnapshot(), with failing calls, a   *)
(* process that dies between two of them, and other programs that change   *)
(* the files between two saves.                                            *)
(*                                                                         *)
(* Not modelled: development mode, which saves nothing, and the loss of    *)
(* power, which the protocol excludes.                                     *)
(***************************************************************************)
EXTENDS Naturals, Sequences

CONSTANTS
    Snapshots,   \* everything the settings can be
    Default,     \* the built-in settings
    Unusable,    \* a missing file, or contents that do not validate
    MaxQueue,    \* bound on the saves queued at once
    MaxFaults,   \* bound on failing calls and crashes
    MaxEdits     \* bound on what other programs do

ASSUME SnapshotsAssumption == Default \in Snapshots /\ Unusable \notin Snapshots
ASSUME BoundsAssumption == MaxQueue \in Nat /\ MaxFaults \in Nat /\ MaxEdits \in Nat

Modes == {"private", "shared", "readonly"}
Private == "private"

VARIABLES
    state,          \* the exported state object, settings only
    persistQueue,   \* snapshots whose writeSnapshot has not ended
    step,           \* the next call of the running writeSnapshot
    mode,           \* its local "mode"
    config,         \* CONFIG_FILE
    staged,         \* TMP_CONFIG_FILE
    foreign,        \* an unrelated file the staging path may lead to
    saved,          \* how the last save ended, "none" during one
    faults, edits

vars == <<state, persistQueue, step, mode, config, staged, foreign, saved, faults, edits>>

\* A file: its contents and mode, and the file it is a hard or symbolic link of.
Missing == [kind |-> "missing", content |-> Unusable, mode |-> Private, link |-> "none"]
File(content, m) == [Missing EXCEPT !.kind = "file", !.content = content, !.mode = m]

Load(file) == IF file.content \in Snapshots THEN file.content ELSE Default

Init ==
    /\ config \in {Missing} \cup {File(c, m) : c \in Snapshots \cup {Unusable}, m \in Modes}
    /\ staged = Missing
    /\ foreign = File(Default, "shared")   \* contents that would be missed
    /\ state = Load(config)
    /\ persistQueue = <<>> /\ step = "idle" /\ mode = Private /\ saved = "none"
    /\ faults = 0 /\ edits = 0

Fault == faults < MaxFaults /\ faults' = faults + 1

\* What is done to the staged file reaches the file it is a link of.
Through(file) ==
    /\ staged' = file
    /\ config' = IF file.link = "config" THEN [config EXCEPT !.content = file.content, !.mode = file.mode]
                 ELSE config
    /\ foreign' = IF file.link = "foreign" THEN [foreign EXCEPT !.content = file.content, !.mode = file.mode]
                  ELSE foreign

SaveEnds(outcome) ==
    /\ persistQueue' = Tail(persistQueue) /\ step' = "idle" /\ saved' = outcome

Continues(next) == step' = next /\ UNCHANGED <<persistQueue, saved>>

-----------------------------------------------------------------------------
\* A mutation of the settings and the call of persistState() that follows it
\* without an await.
PersistState(v) ==
    /\ Len(persistQueue) < MaxQueue
    /\ state' = v
    /\ persistQueue' = Append(persistQueue, v)
    /\ UNCHANGED <<step, mode, config, staged, foreign, saved, faults, edits>>

ReadMode ==
    /\ step = "idle" /\ persistQueue # <<>>
    /\ \/ /\ mode' = IF config.kind = "missing" THEN Private ELSE config.mode
          /\ step' = "inspect" /\ saved' = "none" /\ UNCHANGED <<persistQueue, faults>>
       \/ Fault /\ SaveEnds("failed") /\ UNCHANGED mode
    /\ UNCHANGED <<state, config, staged, foreign, edits>>

AnyRegularFile(file) == file.kind = "file"
Stageable(file) == file.kind = "file" /\ file.link = "none"

InspectWithoutRepair ==
    /\ step = "inspect"
    /\ \/ staged.kind = "missing" /\ Continues("open") /\ UNCHANGED faults
       \/ staged.kind # "missing" /\ ~Stageable(staged) /\ SaveEnds("refused") /\ UNCHANGED faults
       \/ Stageable(staged) /\ Continues("open") /\ UNCHANGED faults
       \/ Fault /\ SaveEnds("failed")
    /\ UNCHANGED <<state, mode, config, staged, foreign, edits>>

\* lstat, and the chmod that makes a leftover private and writable.
InspectStaged ==
    /\ step = "inspect"
    /\ \/ /\ staged.kind = "missing" /\ Continues("open")
          /\ UNCHANGED <<config, staged, foreign, faults>>
       \/ /\ staged.kind # "missing" /\ ~Stageable(staged) /\ SaveEnds("refused")
          /\ UNCHANGED <<config, staged, foreign, faults>>
       \/ /\ Stageable(staged) /\ Continues("open")
          /\ Through([staged EXCEPT !.mode = Private]) /\ UNCHANGED faults
       \/ Fault /\ SaveEnds("failed") /\ UNCHANGED <<config, staged, foreign>>
    /\ UNCHANGED <<state, mode, edits>>

\* open(TMP_CONFIG_FILE, "w", 0o600): creates or truncates.  Windows, and any
\* user but root, refuse to open a read-only file.
OpenStaged ==
    /\ step = "open"
    /\ IF staged.mode = "readonly"
       THEN SaveEnds("blocked") /\ UNCHANGED <<config, staged, foreign, faults>>
       ELSE \/ /\ Continues("chmod") /\ UNCHANGED faults
               /\ Through([(IF staged.kind = "missing" THEN File(Unusable, Private) ELSE staged)
                          EXCEPT !.content = Unusable])
            \/ Fault /\ SaveEnds("failed") /\ UNCHANGED <<config, staged, foreign>>
    /\ UNCHANGED <<state, mode, edits>>

SetMode ==
    /\ step = "chmod"
    /\ \/ Through([staged EXCEPT !.mode = mode]) /\ Continues("write") /\ UNCHANGED faults
       \/ Fault /\ SaveEnds("failed") /\ UNCHANGED <<config, staged, foreign>>
    /\ UNCHANGED <<state, mode, edits>>

\* writeFile begins; until it ends the contents are a part of the snapshot.
WriteBegins ==
    /\ step = "write"
    /\ Through([staged EXCEPT !.content = Unusable])
    /\ Continues("written")
    /\ UNCHANGED <<state, mode, faults, edits>>

NewestContent == persistQueue[Len(persistQueue)]
WrittenContent == Head(persistQueue)

WriteEnds ==
    /\ step = "written"
    /\ \/ /\ Through([staged EXCEPT !.content = WrittenContent])
          /\ Continues("rename") /\ UNCHANGED faults
       \/ Fault /\ SaveEnds("failed") /\ UNCHANGED <<config, staged, foreign>>
    /\ UNCHANGED <<state, mode, edits>>

\* Windows refuses to replace a read-only file.
RenameStaged ==
    /\ step = "rename"
    /\ \/ /\ SaveEnds("ok") /\ config' = staged /\ staged' = Missing /\ UNCHANGED faults
       \/ config.mode = "readonly" /\ SaveEnds("blocked") /\ UNCHANGED <<config, staged, faults>>
       \/ Fault /\ SaveEnds("failed") /\ UNCHANGED <<config, staged>>
    /\ UNCHANGED <<state, mode, foreign, edits>>

-----------------------------------------------------------------------------
\* The process dies and another one starts.
Crash ==
    /\ Fault
    /\ state' = Load(config)
    /\ persistQueue' = <<>> /\ step' = "idle" /\ mode' = Private /\ saved' = "none"
    /\ UNCHANGED <<config, staged, foreign, edits>>

\* An administrator, a backup program or an older release, between saves.
Edit ==
    /\ step = "idle" /\ persistQueue = <<>>
    /\ edits < MaxEdits /\ edits' = edits + 1
    /\ \/ /\ staged.link # "config" /\ UNCHANGED staged
          /\ \/ \E m \in Modes : config.kind = "file" /\ config' = [config EXCEPT !.mode = m]
             \/ config' = Missing
             \/ \E c \in Snapshots \cup {Unusable} : config' = File(c, "shared")
       \/ \E m \in Modes : staged' = File(Unusable, m) /\ UNCHANGED config
       \/ staged' = Missing /\ UNCHANGED config
       \/ staged' = [Missing EXCEPT !.kind = "directory", !.link = "foreign"] /\ UNCHANGED config
       \/ config.kind = "file" /\ staged' = [config EXCEPT !.link = "config"] /\ UNCHANGED config
       \/ staged' = [foreign EXCEPT !.link = "foreign"] /\ UNCHANGED config
    /\ UNCHANGED <<state, persistQueue, step, mode, foreign, saved, faults>>

Saving ==
    \/ ReadMode \/ InspectStaged \/ OpenStaged \/ SetMode
    \/ WriteBegins \/ WriteEnds \/ RenameStaged

Next == (\E v \in Snapshots : PersistState(v)) \/ Saving \/ Crash \/ Edit

Spec == Init /\ [][Next]_vars

\* A file system call ends.
FairSpec == Spec /\ WF_vars(Saving)

-----------------------------------------------------------------------------
\* A save changes nothing but the settings.  A file that only shares the staging
\* path or its inode is left alone; who may read the settings stays the same:
\* a save keeps the mode of the file it replaces, and a first file is private.
OnlySettingsChange ==
    [][/\ foreign' = foreign
       /\ config' # config =>
            \/ edits' # edits
            \/ config'.mode = IF config.kind = "missing" THEN Private ELSE config.mode]_vars

\* What an earlier save left behind never makes a later one fail: once other
\* programs and faults are done and nothing of theirs is in the way, a save
\* that is asked for succeeds.
Unobstructed ==
    /\ faults = MaxFaults /\ edits = MaxEdits
    /\ staged.kind = "missing" \/ Stageable(staged)
    /\ config.mode # "readonly"
SavesRecover == (Unobstructed /\ step # "idle") ~> (saved = "ok")

\* Saves commit whole snapshots in the order of the mutations.
Durable == INSTANCE DurableSettings WITH
    active <- state, pending <- persistQueue, durable <- config.content
DurableImplemented == Durable!Spec
=============================================================================
