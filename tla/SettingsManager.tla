----------------------------- MODULE SettingsManager -----------------------------
(***************************************************************************)
(* packages/coding-agent/src/core/settings-manager.ts: settings in a file  *)
(* of the user's and one of the project, read and written by several       *)
(* instances of the agent and by the user's editor, without locks.  A save *)
(* reads the user's file again and changes only what was set in this       *)
(* session.                                                                *)
(*                                                                         *)
(* Fields are the keys that are merged one by one: those of the nested     *)
(* objects too.  A write first empties the file.                           *)
(***************************************************************************)
EXTENDS Naturals, Functions

CONSTANTS
    Session,         \* instances
    Field, Value,
    MaxChanges       \* bound: settings made, edits of the files, restarts

Unset == "unset"

ASSUME SettingsAssumption == MaxChanges \in Nat /\ Unset \notin Value

Settings == [Field -> Value \cup {Unset}]
NoSettings == [f \in Field |-> Unset]
FileContents == [values : Settings, state : {"ok", "broken", "empty"}]
EmptyFile == [values |-> NoSettings, state |-> "empty"]
Contents(settings) == [values |-> settings, state |-> "ok"]

VARIABLES
    onDisk,            \* the files, "user" and "project"
    globalSettings, modifiedFields, loadError, settings,
    saving,          \* a save in progress: the file, what it read, what it will write
    chosen,          \* history: what was set in each session and holds there
    wanted,          \* history: each field as last edited in the user's file, or saved by
                     \* a session that had set it
    overridden,      \* history: fields ever set in the project's file
    raced,           \* history: a save of the user's file overlapped another write,
                     \* or was killed
    changes

settingsVars == <<onDisk, globalSettings, modifiedFields, loadError, settings, saving,
                  chosen, wanted, overridden, raced, changes>>

Places == {"user", "project"}
NotSaving == [place |-> "none", read |-> EmptyFile, emptied |-> FALSE, values |-> NoSettings]

-------------------------------------------------------------------------------

\* deepMergeSettings
DeepMerge(base, overrides) ==
    [f \in Field |-> IF overrides[f] = Unset THEN base[f] ELSE overrides[f]]

\* loadProjectSettings: a file that cannot be read counts as an empty one.
ProjectSettings == IF onDisk["project"].state = "ok" THEN onDisk["project"].values ELSE NoSettings

Merged(global) == DeepMerge(global, ProjectSettings)

Change == changes < MaxChanges /\ changes' = changes + 1

\* A session does nothing else while it saves.
Ready(s) == saving[s] = NotSaving
Saving(p) == \E s \in Session : saving[s].place = p

SettingsInit ==
    /\ onDisk = [p \in Places |-> Contents(NoSettings)]
    /\ globalSettings = [s \in Session |-> NoSettings]
    /\ modifiedFields = [s \in Session |-> {}]
    /\ loadError = [s \in Session |-> FALSE]
    /\ settings = [s \in Session |-> NoSettings]
    /\ saving = [s \in Session |-> NotSaving]
    /\ chosen = [s \in Session |-> NoSettings]
    /\ wanted = NoSettings /\ overridden = {} /\ raced = FALSE /\ changes = 0

MarkModified(s, f) == modifiedFields[s] \cup {f}

ToSaveAll(file, memory, modified) == memory
ToSaveNothing(file, memory, modified) == file
\* The file as it is now, with what was set in this session.
ToSave(file, memory, modified) ==
    [f \in Field |-> IF f \in modified THEN memory[f] ELSE file[f]]

\* A file that is not there counts as an empty object, an empty one is not JSON.
Readable(file) == file.state = "ok"

\* A setter and the save() it ends with, as far as the write.
Set(s, f, v) ==
    LET memory == [globalSettings[s] EXCEPT ![f] = v]
        merged == ToSave(onDisk["user"].values, memory, MarkModified(s, f))
    IN  /\ Ready(s) /\ Change
        /\ modifiedFields' = [modifiedFields EXCEPT ![s] = MarkModified(s, f)]
        /\ chosen' = [chosen EXCEPT ![s][f] = v]
        /\ IF ~loadError[s] /\ Readable(onDisk["user"])
           THEN /\ globalSettings' = [globalSettings EXCEPT ![s] = merged]
                /\ saving' = [saving EXCEPT ![s] = [place |-> "user", read |-> onDisk["user"],
                                                    emptied |-> FALSE, values |-> merged]]
                /\ wanted' = DeepMerge(wanted, chosen'[s])
                /\ raced' = (raced \/ Saving("user"))
                /\ UNCHANGED settings
           ELSE /\ globalSettings' = [globalSettings EXCEPT ![s] = memory]
                /\ settings' = [settings EXCEPT ![s] = Merged(memory)]
                /\ UNCHANGED <<saving, wanted, raced>>
        /\ UNCHANGED <<onDisk, loadError, overridden>>

\* setProjectPackages and its like
SetProject(s, f, v) ==
    /\ Ready(s) /\ Change
    /\ saving' = [saving EXCEPT ![s] =
                     [place |-> "project", read |-> onDisk["project"], emptied |-> FALSE,
                      values |-> [ProjectSettings EXCEPT ![f] = v]]]
    /\ overridden' = overridden \cup {f}
    /\ UNCHANGED <<onDisk, globalSettings, modifiedFields, loadError, settings, chosen, wanted, raced>>

\* writeFileSync
Truncate(s) ==
    LET p == saving[s].place
    IN  /\ ~Ready(s) /\ ~saving[s].emptied
        /\ saving' = [saving EXCEPT ![s].emptied = TRUE]
        /\ onDisk' = [onDisk EXCEPT ![p] = EmptyFile]
        /\ UNCHANGED <<globalSettings, modifiedFields, loadError, settings, chosen, wanted, overridden,
                       raced, changes>>

WriteFile(s) ==
    LET p == saving[s].place
        project == IF p = "project" THEN saving[s].values ELSE ProjectSettings
    IN  /\ ~Ready(s) /\ saving[s].emptied
        /\ onDisk' = [onDisk EXCEPT ![p] = Contents(saving[s].values)]
        /\ settings' = [settings EXCEPT ![s] = DeepMerge(globalSettings[s], project)]
        /\ saving' = [saving EXCEPT ![s] = NotSaving]
        /\ UNCHANGED <<globalSettings, modifiedFields, loadError, chosen, wanted, overridden, raced,
                       changes>>

Forget(s) == {}

\* reload(): what is in memory stays if the file cannot be read.
ReloadSettings(s) ==
    LET readable == Readable(onDisk["user"])
        memory == IF readable THEN onDisk["user"].values ELSE globalSettings[s]
    IN  /\ Ready(s) /\ Change
        /\ globalSettings' = [globalSettings EXCEPT ![s] = memory]
        /\ loadError' = [loadError EXCEPT ![s] = ~readable]
        /\ modifiedFields' = [modifiedFields EXCEPT ![s] = Forget(s)]
        /\ settings' = [settings EXCEPT ![s] = Merged(memory)]
        /\ chosen' = [chosen EXCEPT ![s] = NoSettings]
        /\ UNCHANGED <<onDisk, saving, wanted, overridden, raced>>

\* The process ends, perhaps in the middle of a save, and another calls create().
RestartSession(s) ==
    LET readable == Readable(onDisk["user"])
        memory == IF readable THEN onDisk["user"].values ELSE NoSettings
    IN  /\ Change
        /\ globalSettings' = [globalSettings EXCEPT ![s] = memory]
        /\ loadError' = [loadError EXCEPT ![s] = ~readable]
        /\ modifiedFields' = [modifiedFields EXCEPT ![s] = {}]
        /\ settings' = [settings EXCEPT ![s] = Merged(memory)]
        /\ saving' = [saving EXCEPT ![s] = NotSaving]
        /\ chosen' = [chosen EXCEPT ![s] = NoSettings]
        /\ raced' = (raced \/ ~Ready(s))
        /\ UNCHANGED <<onDisk, wanted, overridden>>

\* The user changes a setting in a file, and may leave it with a syntax error.
EditFile(p, f, v, state) ==
    /\ Change
    /\ onDisk' = [onDisk EXCEPT ![p].values[f] = v, ![p].state = state]
    /\ wanted' = IF p = "user" THEN [wanted EXCEPT ![f] = v] ELSE wanted
    /\ overridden' = IF p = "project" THEN overridden \cup {f} ELSE overridden
    /\ raced' = (raced \/ Saving(p))
    /\ UNCHANGED <<globalSettings, modifiedFields, loadError, settings, saving, chosen>>

Edits == \E p \in Places, f \in Field, v \in Value, state \in {"ok", "broken"} : EditFile(p, f, v, state)

SettingsNext ==
    \/ \E s \in Session, f \in Field, v \in Value : Set(s, f, v) \/ SetProject(s, f, v)
    \/ \E s \in Session : Truncate(s) \/ WriteFile(s) \/ ReloadSettings(s) \/ RestartSession(s)
    \/ Edits

SettingsSpec == SettingsInit /\ [][SettingsNext]_settingsVars

-------------------------------------------------------------------------------

SettingsTypeOK ==
    /\ onDisk \in [Places -> FileContents]
    /\ globalSettings \in [Session -> Settings] /\ settings \in [Session -> Settings]
    /\ modifiedFields \in [Session -> SUBSET Field] /\ loadError \in [Session -> BOOLEAN]
    /\ saving \in [Session -> [place : Places, read : FileContents, emptied : BOOLEAN, values : Settings]
                              \cup {NotSaving}]
    /\ chosen \in [Session -> Settings] /\ wanted \in Settings
    /\ \A s \in Session : modifiedFields[s] = {f \in Field : chosen[s][f] # Unset}
    /\ overridden \subseteq Field /\ raced \in BOOLEAN /\ changes \in 0..MaxChanges

\* What is set in a session holds in it until it reloads, whatever is in the
\* files by then: saving takes over other settings but none of these, and only
\* the project's settings go before them.
ChoiceHolds ==
    /\ SettingsTypeOK
    /\ \A s \in Session : \A f \in modifiedFields[s] :
           /\ globalSettings[s][f] = chosen[s][f]
           /\ Ready(s) => settings[s][f] = chosen[s][f] \/ f \in overridden

\* A save changes no setting that was not made in its session: the user's file
\* has each field as it was last edited, or saved by a session that had set it,
\* unless two wrote at once.
KeptUp(f) ==
    \/ raced \/ onDisk["user"].state # "ok" \/ Saving("user")
    \/ onDisk["user"].values[f] = wanted[f]

\* A user's file with a syntax error is not written over, unless the error came
\* when the save had read it.
BrokenKept ==
    [][onDisk["user"].state = "broken" /\ onDisk'["user"] # onDisk["user"] =>
          \/ Edits
          \/ \E s \in Session : saving[s].place = "user" /\ saving[s].read.state = "ok"]_settingsVars

\* The user's file keeps what others wrote into it, right or wrong.
FileKept == [](\A f \in Field : KeptUp(f)) /\ BrokenKept

================================================================================
