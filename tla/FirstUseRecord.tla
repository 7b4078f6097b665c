-------------------------- MODULE FirstUseRecord --------------------------
(***************************************************************************)
(* The first-use record of FirstUseDialog (first_use_dialog.cpp): which    *)
(* tokens have already confirmed the dialog of a save button.  It lives in *)
(* firstUseMap_ and is written to first_use_record.json by a task of the   *)
(* event handler; a service that starts reads the file.  Only the save bit *)
(* is ever set: SetFirstUseMap records nothing for a location button.      *)
(*                                                                         *)
(* The file is the set of tokens a start that reads it would load: a file  *)
(* that is absent, cut off or not JSON is the empty set.                   *)
(***************************************************************************)
EXTENDS Naturals

CONSTANT Token

VARIABLES
    firstUseMap,    \* tokens whose SAVE_BUTTON_FIRST_USE bit is set
    recordTasks,    \* SaveFirstUseRecord tasks waiting in the event handler
    saving,         \* the copy of firstUseMap_ a running task writes, if any
    cfgRecord       \* what first_use_record.json holds

recordVars == <<firstUseMap, recordTasks, saving, cfgRecord>>

\* The file may be there from an earlier run.
RecordInit ==
    /\ cfgRecord \in SUBSET Token
    /\ firstUseMap = cfgRecord
    /\ recordTasks = 0
    /\ saving = {}

RecordTypeOK ==
    /\ firstUseMap \in SUBSET Token
    /\ recordTasks \in Nat
    /\ saving \in SUBSET SUBSET Token
    /\ cfgRecord \in SUBSET Token

\* Faulty variant: the records read are not put into the map.
LoadNothing(readable) ==
    /\ firstUseMap' = {}
    /\ UNCHANGED <<recordTasks, saving, cfgRecord>>

\* A file that is too large or cannot be opened is passed over.
LoadFirstUseRecord(readable) ==
    /\ firstUseMap' = IF readable THEN cfgRecord ELSE {}
    /\ UNCHANGED <<recordTasks, saving, cfgRecord>>

\* No dialog is needed, a toast tells the user.
NoNeedNotify(t) == t \in firstUseMap

\* Faulty variant: the bit is set in a copy of the map.
SetInCopy(t) ==
    /\ recordTasks' = recordTasks + 1
    /\ UNCHANGED <<firstUseMap, saving, cfgRecord>>

\* Under useMapMutex_; the task is posted with no delay.
SetFirstUseMap(t) ==
    /\ firstUseMap' = firstUseMap \cup {t}
    /\ recordTasks' = recordTasks + 1
    /\ UNCHANGED <<saving, cfgRecord>>

\* Faulty variant: the copy is made of what the file holds already.
SaveOldRecord(installed) ==
    /\ saving = {}
    /\ recordTasks > 0
    /\ recordTasks' = recordTasks - 1
    /\ saving' = {cfgRecord}
    /\ UNCHANGED <<firstUseMap, cfgRecord>>

\* The task copies the map under useMapMutex_, without the tokens the access
\* token service does not know any more ...
SaveFirstUseRecord(installed) ==
    /\ saving = {}
    /\ recordTasks > 0
    /\ recordTasks' = recordTasks - 1
    /\ saving' = {firstUseMap \cap installed}
    /\ UNCHANGED <<firstUseMap, cfgRecord>>

\* ... or gives up: the directory is missing, the file cannot be created.
SaveGivesUp ==
    /\ saving = {}
    /\ recordTasks > 0
    /\ recordTasks' = recordTasks - 1
    /\ UNCHANGED <<firstUseMap, saving, cfgRecord>>

\* The copy is written after the lock was given back: the file is emptied
\* when it is opened ...
TruncateCfg ==
    /\ saving # {}
    /\ cfgRecord' = {}
    /\ UNCHANGED <<firstUseMap, recordTasks, saving>>

\* ... and holds the copy at the end.
WriteCfgContent ==
    /\ \E record \in saving : cfgRecord' = record
    /\ saving' = {}
    /\ UNCHANGED <<firstUseMap, recordTasks>>

\* The file cannot be opened or, opened, not be written: a part of the text
\* is no JSON.
WriteRefused ==
    /\ saving # {}
    /\ saving' = {}
    /\ UNCHANGED <<firstUseMap, recordTasks, cfgRecord>>
-----------------------------------------------------------------------------
\* What the user confirmed is in the file or on its way there: while the
\* file is behind the map a task that will copy the map waits, or the copy
\* being written is the map.
RecordReachesFile ==
    firstUseMap # cfgRecord => recordTasks > 0 \/ saving = {firstUseMap}
=============================================================================
