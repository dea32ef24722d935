------------------------------ MODULE DriveChoice ------------------------------
(* The drive to write to, as app.rs keeps it: picked from a scan's list, kept  *)
(* current by later scans, checked by one more scan when Start is clicked,    *)
(* shown in the dialog that asks, and handed to the job. Scans run in threads *)
(* of their own; drives come, go and get mounted whenever they like.          *)
(*                                                                            *)
(* One path (/dev/sdb) is looked at, with the sticks that are plugged in there *)
(* one after another. A drive's name and size are its stick here; sticks that *)
(* look the same can't be told apart, and aren't.                             *)
EXTENDS Naturals

CONSTANTS
  Sticks,      \* the drives that may be plugged in at this path
  None,        \* no drive
  MaxChanges   \* bound: how often drives get plugged, unplugged or mounted

ASSUME ChoiceAssumption == None \notin Sticks /\ MaxChanges \in Nat

VARIABLES
  plugged, mounted,  \* the stick in place, and whether it has a mounted partition
  changes,           \* how often that has changed
  drives,            \* State::drives: the last list's entry for the path
  chosen,            \* State::target_drive
  picked,            \* what the user picked
  load,              \* the thread of load_drives, and State::loading
  check,             \* the thread of start, and State::rechecking
  asked,             \* the drive that was chosen when Start was clicked
  dialog,            \* the drive the dialog names, or None while it's closed
  job                \* what the job was told, once it runs

world == <<plugged, mounted, changes>>
vars == <<world, drives, chosen, picked, load, check, asked, dialog, job>>

\* A drive in a list: its name and size, and what has to be unmounted.
Entries == [stick : Sticks, mounted : BOOLEAN]
Listed == Entries \cup {None}

\* drives::list, at the moment it asks the system.
List == IF plugged = None THEN None ELSE [stick |-> plugged, mounted |-> mounted]

\* A thread that lists the drives: not there, asking, or with a result on its way.
Idle == [step |-> "idle"]
Asking == [step |-> "asking"]
Got(list) == [step |-> "done", ok |-> TRUE, list |-> list]
Failed == [step |-> "done", ok |-> FALSE]

Init ==
  /\ plugged \in Sticks \cup {None} /\ mounted = FALSE /\ changes = 0
  /\ drives = None /\ chosen = None /\ picked = None
  /\ load = Asking /\ check = Idle
  /\ asked = None /\ dialog = None /\ job = None

-------------------------------------------------------------------------------
(* The world *)

Change ==
  /\ changes < MaxChanges
  /\ changes' = changes + 1
  /\ plugged' \in Sticks \cup {None}
  /\ mounted' \in (IF plugged' = None THEN {FALSE} ELSE BOOLEAN)
  /\ <<plugged, mounted>>' # <<plugged, mounted>>
  /\ UNCHANGED <<drives, chosen, picked, load, check, asked, dialog, job>>

\* lsblk answers, or fails, or is given up on (drives::run's time limit).
LoadScans == /\ load = Asking
             /\ load' \in {Got(List), Failed}
             /\ UNCHANGED <<world, drives, chosen, picked, check, asked, dialog, job>>

CheckScans == /\ check = Asking
              /\ check' \in {Got(List), Failed}
              /\ UNCHANGED <<world, drives, chosen, picked, load, asked, dialog, job>>

-------------------------------------------------------------------------------
(* The UI thread *)

Busy == job # None \/ check # Idle

\* load_drives: when the picker opens, every two seconds while it's open, when the
\* user asks for it, after a job, and (Init) at the start.
LoadDrives ==
  /\ load = Idle
  /\ load' = Asking
  /\ UNCHANGED <<world, drives, chosen, picked, check, asked, dialog, job>>

\* drives_loaded: "Keep the chosen drives current, and let go of unplugged ones."
\* (Faulty: only the latter.)
FaultyKept(list) == IF list = None THEN None ELSE chosen
Kept(list) == CASE chosen = None -> None
                [] chosen # None /\ list # None -> list
                [] chosen # None /\ list = None -> IF job # None THEN chosen ELSE None

DrivesLoaded ==
  /\ load.step = "done"
  /\ load' = Idle
  /\ IF load.ok THEN chosen' = Kept(load.list) /\ drives' = load.list
                ELSE UNCHANGED <<chosen, drives>>
  /\ UNCHANGED <<world, picked, check, asked, dialog, job>>

\* pick_drive, also while Start checks the drive picked before.
PickDrive ==
  /\ dialog = None /\ job = None /\ drives # None
  /\ chosen' = drives /\ picked' = drives
  /\ UNCHANGED <<world, drives, load, check, asked, dialog, job>>

Start ==
  /\ dialog = None /\ ~Busy /\ chosen # None
  /\ check' = Asking
  /\ asked' = chosen
  /\ UNCHANGED <<world, drives, chosen, picked, load, dialog, job>>

\* recheck: the same size and the same name.
Same(a, b) == a.stick = b.stick

\* `rechecking` goes first of all. (Faulty: it stays when there's nothing to start.)
FaultyChecked == check' = IF chosen = None THEN check ELSE Idle
Checked == check' = Idle

\* rechecked, then start_checked, which opens the dialog.
Rechecked ==
  /\ check.step = "done"
  /\ Checked
  /\ \/ /\ chosen = None \/ ~check.ok
        /\ UNCHANGED <<drives, chosen, dialog>>
     \/ /\ chosen # None /\ check.ok
        /\ drives' = check.list
        /\ IF check.list # None /\ Same(check.list, asked)
           THEN /\ chosen' = check.list
                /\ dialog' = check.list
           ELSE chosen' = None /\ UNCHANGED dialog
  /\ UNCHANGED <<world, picked, load, asked, job>>

Dismiss ==
  /\ dialog # None
  /\ dialog' = None
  /\ UNCHANGED <<world, drives, chosen, picked, load, check, asked, job>>

\* The dialog closes, and launch starts the job with what's chosen by then.
Confirm ==
  /\ dialog # None
  /\ dialog' = None
  /\ job' = IF Busy THEN job ELSE chosen
  /\ UNCHANGED <<world, drives, chosen, picked, load, check, asked>>

Next == Change \/ LoadScans \/ CheckScans \/ LoadDrives \/ DrivesLoaded \/ PickDrive
        \/ Start \/ Rechecked \/ Dismiss \/ Confirm

\* Scans come to an end, and the UI thread handles what's posted to it.
Fairness == WF_vars(LoadScans) /\ WF_vars(CheckScans) /\ WF_vars(DrivesLoaded) /\ WF_vars(Rechecked)

Spec == Init /\ [][Next]_vars /\ Fairness

-------------------------------------------------------------------------------
(* Properties *)

\* The variables hold what State's fields and the threads' results can be.
Scans == {Idle, Asking, Failed} \cup {Got(l) : l \in Listed}
TypeOK ==
  /\ plugged \in Sticks \cup {None} /\ mounted \in BOOLEAN /\ changes \in 0..MaxChanges
  /\ {drives, chosen, picked, asked, dialog, job} \subseteq Listed
  /\ load \in Scans /\ check \in Scans

\* A chosen drive is the one the current list shows for its path, so what the user
\* sees, what `problem` judges and what gets unmounted are the same thing, however the
\* results of the two scans cross (drives_loaded, rechecked, pick_drive).
ChosenIsListed == TypeOK /\ (job = None /\ chosen # None => chosen = drives)

\* "Starting..." goes away: whatever the scan says and whatever was picked meanwhile,
\* Start can be clicked again.
CheckEnds == (check # Idle) ~> (check = Idle)

(* What comments say, and the code doesn't do *)

\* app.rs:459: "Makes sure a chosen drive is still the same one: sticks get swapped,
\* and /dev/sdb may be a different drive now than when it was picked."
StillThePickedOne == dialog # None => dialog.stick = picked.stick
================================================================================
