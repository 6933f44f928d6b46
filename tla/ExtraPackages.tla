--------------------------- MODULE ExtraPackages ---------------------------
(***************************************************************************)
(* installExtraPackages (src/extra_packages.cpp): the list of packages of  *)
(* the configuration, the record of those checked before, and the lock     *)
(* file by which a restart skips the check once.  main() returns when a    *)
(* package was installed and is started again by its supervisor; the       *)
(* process may die between any two steps, and the operator may edit the    *)
(* list between two starts.  Files survive all of that.                     *)
(***************************************************************************)
EXTENDS Naturals, Sequences

CONSTANTS Packages,
          Forced,       \* packages marked :FORCE_CHECK
          Lists,        \* the lists the configuration may hold
          MaxDeaths,    \* how often the process dies in the check
          MaxEdits      \* how often the operator edits the list

ASSUME PackagesAssumption ==
    /\ Forced \subseteq Packages
    /\ Lists \subseteq Seq(Packages)
    /\ MaxDeaths \in Nat /\ MaxEdits \in Nat

VARIABLES
    boot,     \* the process: see NoBoot
    disk,     \* list, lock file, record of checked packages
    tale      \* history, see NoTale

pkgVars == <<boot, disk, tale>>

\* at: where the check is; i: the item in hand; changed: packages_changed;
\* record: checked_packages_log in memory; skipped: the lock was found.
NoBoot == [at |-> "down", i |-> 1, changed |-> FALSE, record |-> {}, skipped |-> FALSE]

PkgTypeOK ==
    /\ boot \in [at: {"down", "start", "check", "record", "lock", "run"}, i: Nat,
                 changed: BOOLEAN, record: SUBSET Packages, skipped: BOOLEAN]
    /\ disk.list \in Lists /\ disk.lock \in BOOLEAN /\ disk.record \subseteq Packages

\* tried: packages whose check ended; fresh: installed by no process that has
\* ended since; deaths, edits: how many there were.
NoTale == [tried |-> {}, fresh |-> {}, deaths |-> 0, edits |-> 0]

PkgInit ==
    /\ boot = [NoBoot EXCEPT !.at = "start"]
    /\ disk \in [list: Lists, lock: {FALSE}, record: {{}}]
    /\ tale = NoTale

Listed == {disk.list[k] : k \in 1..Len(disk.list)}

\* The lock file is removed and the check skipped.
SkipCheck ==
    /\ boot.at = "start" /\ disk.lock
    /\ disk' = [disk EXCEPT !.lock = FALSE]
    /\ boot' = [boot EXCEPT !.at = "run", !.skipped = TRUE]
    /\ UNCHANGED tale

\* The record is loaded; without a list in the configuration nothing is done.
LoadRecord ==
    /\ boot.at = "start" /\ ~disk.lock
    /\ boot' = IF disk.list = <<>> THEN [boot EXCEPT !.at = "run"]
               ELSE [boot EXCEPT !.at = "check", !.record = disk.record]
    /\ UNCHANGED <<disk, tale>>

Due(pkg) == pkg \notin boot.record \/ pkg \in Forced

Pass ==
    /\ boot.at = "check" /\ boot.i <= Len(disk.list)
    /\ ~Due(disk.list[boot.i])
    /\ boot' = [boot EXCEPT !.i = @ + 1]
    /\ UNCHANGED <<disk, tale>>

\* Mutant: only the last package decides.
CheckLast(ok) ==
    LET pkg == disk.list[boot.i]
    IN /\ boot.at = "check" /\ boot.i <= Len(disk.list)
       /\ Due(pkg)
       /\ boot' = [boot EXCEPT !.i = @ + 1, !.record = @ \cup {pkg}, !.changed = ok]
       /\ tale' = [tale EXCEPT !.tried = @ \cup {pkg},
                               !.fresh = IF ok THEN @ \cup {pkg} ELSE @]
       /\ UNCHANGED disk

\* checkPackage: rosdep and colcon, or apt-get; each may fail.  The package is
\* remembered as checked in either case.
Check(ok) ==
    LET pkg == disk.list[boot.i]
    IN /\ boot.at = "check" /\ boot.i <= Len(disk.list)
       /\ Due(pkg)
       /\ boot' = [boot EXCEPT !.i = @ + 1, !.record = @ \cup {pkg},
                               !.changed = ok \/ @]
       /\ tale' = [tale EXCEPT !.tried = @ \cup {pkg},
                               !.fresh = IF ok THEN @ \cup {pkg} ELSE @]
       /\ UNCHANGED disk

\* After the last package: opening the stream truncates the file, so a process
\* that dies before the text is flushed leaves an empty record.
OpenRecord ==
    /\ boot.at = "check" /\ boot.i > Len(disk.list)
    /\ disk' = [disk EXCEPT !.record = {}]
    /\ boot' = [boot EXCEPT !.at = "record"]
    /\ UNCHANGED tale

\* Mutant: the record is left empty.
WriteNoRecord ==
    /\ boot.at = "record"
    /\ boot' = [boot EXCEPT !.at = "lock"]
    /\ UNCHANGED <<disk, tale>>

WriteRecord ==
    /\ boot.at = "record"
    /\ disk' = [disk EXCEPT !.record = boot.record]
    /\ boot' = [boot EXCEPT !.at = "lock"]
    /\ UNCHANGED tale

\* Mutant: no lock file is written.
ReturnUnlocked ==
    /\ boot.at = "lock"
    /\ boot' = IF boot.changed THEN NoBoot ELSE [boot EXCEPT !.at = "run"]
    /\ tale' = IF boot.changed THEN [tale EXCEPT !.fresh = {}] ELSE tale
    /\ UNCHANGED disk

\* The lock file if something was installed; then main() returns, and what was
\* installed is there for the next process.
Return ==
    /\ boot.at = "lock"
    /\ disk' = [disk EXCEPT !.lock = @ \/ boot.changed]
    /\ boot' = IF boot.changed THEN NoBoot ELSE [boot EXCEPT !.at = "run"]
    /\ tale' = IF boot.changed THEN [tale EXCEPT !.fresh = {}] ELSE tale

Die ==
    /\ boot.at \in {"check", "record", "lock"} /\ tale.deaths < MaxDeaths
    /\ boot' = NoBoot
    /\ tale' = [tale EXCEPT !.fresh = {}, !.deaths = @ + 1]
    /\ UNCHANGED disk

Edit ==
    /\ boot.at = "down" /\ tale.edits < MaxEdits
    /\ \E list \in Lists \ {disk.list} : disk' = [disk EXCEPT !.list = list]
    /\ tale' = [tale EXCEPT !.edits = @ + 1]
    /\ UNCHANGED boot

\* The supervisor starts the process again.
Boot ==
    /\ boot.at = "down"
    /\ boot' = [boot EXCEPT !.at = "start"]
    /\ UNCHANGED <<disk, tale>>

PkgStep == SkipCheck \/ LoadRecord \/ Pass \/ (\E ok \in BOOLEAN : Check(ok))
           \/ OpenRecord \/ WriteRecord \/ Return \/ Boot

PkgNext == PkgStep \/ Die \/ Edit

-----------------------------------------------------------------------------
\* The bridge never runs in a process that has itself installed a package: its
\* environment was set up before the package was there.
RunsWithPackages == boot.at = "run" => tale.fresh = {}

\* The record names only packages whose check has ended.  When the bridge runs
\* it names all that are listed, unless the lock made this start skip the
\* check (the list was edited, or the lock outlived another start) .
RecordTells ==
    /\ disk.record \cup boot.record \subseteq tale.tried
    /\ boot.at = "run" /\ ~boot.skipped => Listed \subseteq disk.record

=============================================================================
