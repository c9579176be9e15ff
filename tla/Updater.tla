------------------------------- MODULE Updater --------------------------------
(***************************************************************************)
(* DiscordCloneUpdater and the client that starts it: the updater ends the *)
(* client, asks for the latest release, and when its version differs from  *)
(* the one it was given downloads it, unpacks it, copies its files over    *)
(* the installed ones one by one, cleans up, and starts the client again.  *)
(* Every step may fail, and the updater may be killed between any two.     *)
(*                                                                         *)
(* The version the updater is given is the one the installed library       *)
(* answers with, whatever the versions of the other files.                 *)
(***************************************************************************)
EXTENDS Naturals, Sequences

CONSTANTS
  Files,         \* updateFiles
  Library,       \* the one of them that knows its version
  InUse,         \* those that cannot be overwritten while a client runs
  Versions,      \* of releases
  None,          \* nothing there
  Damaged,       \* a file that is not what it should be
  MaxFailures,   \* bound on the steps that fail, and on clients started beside another
  MaxReleases    \* bound on the changes of the latest release

ASSUME ReleasesAssumption ==
  /\ Library \in Files /\ InUse \subseteq Files
  /\ {None, Damaged} \cap Versions = {} /\ None # Damaged
  /\ MaxFailures \in Nat /\ MaxReleases \in Nat

VARIABLES
  latest,          \* version of the latest release on GitHub
  installed,       \* file -> its version
  asking, open,    \* is the client that started the updater alive; does another one run
  pc,              \* where the updater is
  reported, found, \* the version it was given, the one it read
  zip, unpacked,   \* the version of what is in temp_directory_path under its names
  cleanFiles,      \* what it is to remove there
  cleaned,         \* how far `clean` is in it
  todo,            \* files of the archive still to be copied
  failures, releases,
  unwritten,       \* history: this run could not open its archive for writing
  killed           \* history: some run was killed

past == <<unwritten, killed>>
updater == <<pc, reported, found, zip, unpacked, cleanFiles, cleaned, todo>>
updaterVars == <<latest, installed, asking, open, updater, failures, releases,
                past>>

UpdaterTypeOK ==
  /\ latest \in Versions
  /\ installed \in [Files -> Versions \cup {Damaged}]
  /\ asking \in BOOLEAN /\ open \in BOOLEAN
  /\ pc \in {"off", "kill", "check", "get", "unpack", "replace", "clean", "start", "catch", "key"}
  /\ reported \in Versions /\ found \in Versions
  /\ zip \in Versions \cup {None, Damaged} /\ unpacked \in Versions \cup {None, Damaged}
  /\ cleanFiles \in {<<>>, <<"zip">>, <<"zip", "unpacked">>}
  /\ cleaned \in 0 .. Len(cleanFiles)
  /\ todo \subseteq Files
  /\ failures \in 0 .. MaxFailures /\ releases \in 0 .. MaxReleases
  /\ unwritten \in BOOLEAN /\ killed \in BOOLEAN

UpdaterInit ==
  /\ latest \in Versions
  /\ \E v \in Versions : installed = [f \in Files |-> v]
  /\ asking = FALSE /\ open = FALSE
  /\ pc = "off" /\ reported = latest /\ found = latest
  /\ zip = None /\ unpacked = None /\ cleanFiles = <<>> /\ cleaned = 0 /\ todo = {}
  /\ failures = 0 /\ releases = 0 /\ unwritten = FALSE /\ killed = FALSE

Whole == \A f \in Files : installed[f] = installed[Library]
Runnable == \A f \in Files : installed[f] # Damaged

-----------------------------------------------------------------------------
(* The world around the updater.                                           *)

\* A release is published, or the last one is withdrawn.
Release(v) ==
  /\ releases < MaxReleases /\ v # latest
  /\ latest' = v /\ releases' = releases + 1
  /\ UNCHANGED <<installed, asking, open, updater, failures, past>>

\* The client's main without --skip_check_updates.  (Bound: one updater works at a
\* time, and clients are started beside a running one MaxFailures times.)
StartClient ==
  /\ pc = "off" /\ ~asking /\ Runnable
  /\ open => failures < MaxFailures
  /\ failures' = failures + (IF open THEN 1 ELSE 0)
  /\ asking' = TRUE /\ pc' = "kill" /\ reported' = installed[Library]
  /\ cleanFiles' = <<>> /\ cleaned' = 0 /\ unpacked' = None /\ unwritten' = FALSE
  /\ UNCHANGED <<latest, installed, open, found, zip, todo, releases, killed>>

\* The termination asked for takes place.
ClientDies ==
  /\ asking /\ pc # "kill"
  /\ asking' = FALSE
  /\ UNCHANGED <<latest, installed, open, updater, failures, releases, past>>

ClientCloses ==
  /\ open /\ open' = FALSE
  /\ UNCHANGED <<latest, installed, asking, updater, failures, releases, past>>

-----------------------------------------------------------------------------
(* main of the updater, a step at a time.                                  *)

\* A step of `at` throws: main's handler starts to clean.
Throw(at) ==
  /\ pc = at /\ failures < MaxFailures
  /\ failures' = failures + 1
  /\ pc' = "catch" /\ cleaned' = 0

\* kill, or TerminateProcess: nobody waits for the process to end.
Kill ==
  /\ pc = "kill" /\ pc' = "check"
  /\ UNCHANGED <<latest, installed, asking, open, reported, found, zip, unpacked,
                 cleanFiles, cleaned, todo, failures, releases, past>>

\* Mutant: only a higher version is taken.
Higher(v, w) == v > w

Differs(v, w) == v # w

\* getLatestVersion, and the comparison.
Check ==
  /\ pc = "check"
  /\ found' = latest
  /\ pc' = IF Differs(latest, reported) THEN "get" ELSE "start"
  /\ UNCHANGED <<latest, installed, asking, open, reported, zip, unpacked,
                 cleanFiles, cleaned, todo, failures, releases, past>>

\* Mutant: a download that is there already is used.
KeptOr(v) == IF zip = None THEN v ELSE zip

\* What std::ofstream leaves under the archive's name.
Downloaded(v) == v

\* releases::get of the release that was found.  Neither the code of the second response
\* is looked at, nor whether the file was opened and written: what is stored may be no
\* archive, or, when std::ofstream could not open it, whatever was there before.
Get ==
  /\ pc = "get" /\ pc' = "unpack"
  /\ \/ zip' = Downloaded(found) /\ UNCHANGED <<failures, unwritten>>
     \/ /\ failures < MaxFailures /\ failures' = failures + 1
        /\ \/ zip' = Damaged /\ UNCHANGED unwritten
           \/ unwritten' = TRUE /\ UNCHANGED zip
  /\ cleanFiles' = <<"zip">>
  /\ UNCHANGED <<latest, installed, asking, open, reported, found, unpacked, cleaned,
                 todo, releases, killed>>

\* Mutant: the archive's path is noted twice, the directory's never.
ZipTwice == <<"zip", "zip">>

ZipAndDirectory == <<"zip", "unpacked">>

\* releases::unpack, into a directory of a new name.
Unpack ==
  /\ pc = "unpack" /\ zip \in Versions
  /\ unpacked' = zip /\ cleanFiles' = ZipAndDirectory
  /\ todo' = Files /\ pc' = "replace"
  /\ UNCHANGED <<latest, installed, asking, open, reported, found, zip, cleaned,
                 failures, releases, past>>

\* It throws: the directory was made, and main has not heard of it.
UnpackFails ==
  /\ pc = "unpack" /\ pc' = "catch" /\ cleaned' = 0
  /\ zip \in Versions => failures < MaxFailures
  /\ failures' = failures + (IF zip \in Versions THEN 1 ELSE 0)
  /\ unpacked' = Damaged
  /\ UNCHANGED <<latest, installed, asking, open, reported, found, zip, cleanFiles,
                 todo, releases, past>>

Busy(f) == f \in InUse /\ (asking \/ open)

\* releases::replace: one file, in the order of the directory.
Copy(f) ==
  /\ pc = "replace" /\ f \in todo /\ ~Busy(f)
  /\ installed' = [installed EXCEPT ![f] = unpacked]
  /\ todo' = todo \ {f}
  /\ UNCHANGED <<latest, asking, open, pc, reported, found, zip, unpacked,
                 cleanFiles, cleaned, failures, releases, past>>

\* copy_file throws: before it wrote, or in the middle.
CopyFails(f) ==
  /\ f \in todo /\ Throw("replace")
  /\ \/ UNCHANGED installed
     \/ ~Busy(f) /\ installed' = [installed EXCEPT ![f] = Damaged]
  /\ UNCHANGED <<latest, asking, open, reported, found, zip, unpacked,
                 cleanFiles, todo, releases, past>>

\* Mutant: replace is left after its first file.
SomeReplaced == todo # Files

AllReplaced == todo = {}

Replaced ==
  /\ pc = "replace" /\ AllReplaced
  /\ pc' = "clean" /\ cleaned' = 0
  /\ UNCHANGED <<latest, installed, asking, open, reported, found, zip, unpacked,
                 cleanFiles, todo, failures, releases, past>>

\* getLatestVersion or releases::get throws, or no asset has the name.
RequestFails ==
  /\ Throw("check") \/ Throw("get")
  /\ UNCHANGED <<latest, installed, asking, open, reported, found, zip, unpacked,
                 cleanFiles, todo, releases, past>>

Following(n) == n + 1

\* releases::clean, in main and in its handler: one path.
RemoveNext ==
  /\ pc \in {"clean", "catch"} /\ cleaned < Len(cleanFiles)
  /\ zip' = IF cleanFiles[cleaned + 1] = "zip" THEN None ELSE zip
  /\ unpacked' = IF cleanFiles[cleaned + 1] = "unpacked" THEN None ELSE unpacked
  /\ cleaned' = Following(cleaned)
  /\ UNCHANGED <<latest, installed, asking, open, pc, reported, found, cleanFiles, todo,
                 failures, releases, past>>

RemoveFails ==
  /\ Throw("clean") /\ cleaned < Len(cleanFiles)
  /\ UNCHANGED <<latest, installed, asking, open, reported, found, zip, unpacked,
                 cleanFiles, todo, releases, past>>

Cleaned ==
  /\ pc \in {"clean", "catch"} /\ cleaned = Len(cleanFiles)
  /\ pc' = IF pc = "clean" THEN "start" ELSE "key"
  /\ UNCHANGED <<latest, installed, asking, open, reported, found, zip, unpacked,
                 cleanFiles, cleaned, todo, failures, releases, past>>

\* std::system with --skip_check_updates; the updater ends with that client.
Restart ==
  /\ pc = "start" /\ pc' = "off"
  /\ open' = TRUE
  /\ UNCHANGED <<latest, installed, asking, reported, found, zip, unpacked,
                 cleanFiles, cleaned, todo, failures, releases, past>>

\* std::cin.get: the user reads what went wrong, and no client is started.
PressKey ==
  /\ pc = "key" /\ pc' = "off"
  /\ UNCHANGED <<latest, installed, asking, open, reported, found, zip, unpacked,
                 cleanFiles, cleaned, todo, failures, releases, past>>

\* The updater is killed between two steps, in the middle of a copy, or by an
\* exception of clean in the handler.  The client that waits for it ends, too.
Killed ==
  /\ pc # "off" /\ failures < MaxFailures
  /\ pc' = "off" /\ failures' = failures + 1
  /\ \/ UNCHANGED installed
     \/ /\ pc = "replace"
        /\ \E f \in todo : ~Busy(f) /\ installed' = [installed EXCEPT ![f] = Damaged]
  /\ asking' = FALSE /\ killed' = TRUE
  /\ UNCHANGED <<latest, open, reported, found, zip, unpacked, cleanFiles, cleaned, todo,
                 releases, unwritten>>

-----------------------------------------------------------------------------
Step ==
  \/ Kill \/ Check \/ Get \/ Unpack \/ UnpackFails \/ Replaced \/ RequestFails
  \/ RemoveNext \/ RemoveFails \/ Cleaned \/ Restart
  \/ \E f \in Files : Copy(f) \/ CopyFails(f)

UpdaterNext ==
  \/ Step \/ StartClient \/ ClientDies \/ ClientCloses \/ PressKey \/ Killed
  \/ \E v \in Versions : Release(v)

UpdaterSpec == UpdaterInit /\ [][UpdaterNext]_updaterVars

\* The updater's process runs, and what it asked the system to end ends.
UpdaterFairSpec == UpdaterSpec /\ WF_updaterVars(Step) /\ WF_updaterVars(ClientDies)

\* The user starts the client whenever it does not run, and answers.
Persistent ==
  /\ UpdaterFairSpec
  /\ WF_updaterVars(StartClient) /\ WF_updaterVars(ClientCloses) /\ WF_updaterVars(PressKey)

-----------------------------------------------------------------------------
(* Properties.                                                             *)

\* What is copied is the release that was found, and no archive or directory another run
\* left in the temporary directory; but for one case: a run was killed over its archive,
\* and this one could not open that file for writing, which nobody notices.
CopiesFound == pc = "replace" => unpacked = found \/ (unwritten /\ killed)

\* A run that comes to its end leaves neither its archive nor its directory in the
\* temporary directory, except one in which unpacking failed.
NothingLeft ==
  /\ pc \in {"start", "key"} => unpacked \in {None, Damaged}
  /\ pc = "start" /\ found # reported => zip = None /\ unpacked = None

\* What holds at every step of a run, and between runs.
UpdaterInv == UpdaterTypeOK /\ CopiesFound /\ NothingLeft

\* The library says the latest version, so that no check will see that another file
\* is an older one: the installation stays as it is until the next release.
Unnoticed == pc # "replace" /\ installed[Library] = latest /\ ~Whole

\* Only a copy that failed or was interrupted after the library's, or the return of
\* GitHub to a release such a copy left behind, makes an installation that way.
UnnoticedByInterruption ==
  [][~Unnoticed /\ Unnoticed' =>
       \/ pc = "replace" /\ pc' \in {"catch", "off"}
       \/ latest' # latest]_updaterVars

\* A user who goes on starting the client comes to have the latest release, unless a
\* file was damaged or the installation is one whose age goes unnoticed.
EventuallyLatest ==
  <>[](~Runnable \/ installed[Library] = latest)
=============================================================================
