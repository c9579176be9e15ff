------------------------------- MODULE Settings -------------------------------
(***************************************************************************)
(* The settings file and the instances of the client that read it when     *)
(* they start and write it whole whenever one of them changes a setting.   *)
(*                                                                         *)
(* Writing is opening, which truncates, and then one write of the buffer;  *)
(* neither is looked at for failure, and an instance may end in between:   *)
(* its window may be closed at any time.  Nothing keeps two instances      *)
(* apart.                                                                  *)
(*                                                                         *)
(* A record keeps the two kinds of setting that are changed at different   *)
(* times: the connection (address, port, room, names) and the volumes.     *)
(* The parser is external: a file that was cut is refused or, as every     *)
(* field is optional, read in part.                                        *)
(***************************************************************************)
CONSTANTS
  Instances,      \* of the client, with one user's settings
  Connections, NoConnection,
  Volumes, FullVolume,
  NoFile, Empty, Torn     \* the file is not there, truncated, or part of a record or of two

ASSUME SettingsAssumption ==
  NoConnection \notin Connections /\ FullVolume \in Volumes

Records == [connection : Connections \cup {NoConnection}, volume : Volumes]
Defaults == [connection |-> NoConnection, volume |-> FullVolume]

ASSUME FilesAssumption ==
  /\ NoFile \notin Records /\ Empty \notin Records /\ Torn \notin Records
  /\ NoFile # Empty /\ NoFile # Torn /\ Empty # Torn

VARIABLES
  file,
  on,             \* instances that have read it and run
  memory,         \* instance -> its global `settings`
  save,           \* instance -> "none", or a save about to "open", or to "write"
  latest,         \* history: what an instance changed last, with what it knew of the rest
  disturbed       \* history: a save was cut, failed, met another one, or began from a
                  \* record that was not the latest

settings == <<file, on, memory, save, latest, disturbed>>

SettingsTypeOK ==
  /\ file \in Records \cup {NoFile, Empty, Torn}
  /\ on \subseteq Instances
  /\ memory \in [Instances -> Records]
  /\ save \in [Instances -> {"none", "open", "write"}]
  /\ latest \in Records
  /\ disturbed \in BOOLEAN

Saving(p) == save[p] # "none"

Whole == file \notin {Empty, Torn}

\* As instances before these left it.
SettingsInit ==
  /\ file \in Records \cup {NoFile, Empty, Torn} /\ on = {}
  /\ memory = [p \in Instances |-> Defaults]
  /\ save = [p \in Instances |-> "none"]
  /\ latest = IF file \in Records THEN file ELSE Defaults
  /\ disturbed = ~Whole

-----------------------------------------------------------------------------
(* Reading.                                                                *)

\* What the parser may make of the file.
Parsed ==
  {r \in Records : /\ file \in Records => r = file
                   /\ file \in {NoFile, Empty} => r = Defaults}

Load(p) ==
  /\ on' = on \cup {p}
  /\ memory' \in {[memory EXCEPT ![p] = r] : r \in Parsed}
  /\ latest' = memory'[p]
  /\ disturbed' = (~Whole \/ \E q \in Instances : Saving(q))
  /\ UNCHANGED <<file, save>>

LoadThrows == ~Whole /\ UNCHANGED settings

-----------------------------------------------------------------------------
(* Changing, which is modifySettings: in memory, then in the file.         *)

\* Mutant: the file is written before the record is changed.
Before(p, r) == memory[p]

Changed(p, r) == r

Modify(p, r) ==
  /\ memory' = [memory EXCEPT ![p] = Changed(p, r)]
  /\ save' = [save EXCEPT ![p] = "open"]
  /\ latest' = r
  /\ disturbed' = (disturbed \/ memory[p] # latest \/ \E q \in Instances : Saving(q))
  /\ UNCHANGED <<file, on>>

SetVolume(p, v) == Modify(p, [memory[p] EXCEPT !.volume = v])

Connected(p, c) == Modify(p, [memory[p] EXCEPT !.connection = c])

\* The connection at start failed.
Forget(p) == Modify(p, [memory[p] EXCEPT !.connection = NoConnection])

Open(p) ==
  /\ save[p] = "open"
  /\ \/ file' = Empty /\ save' = [save EXCEPT ![p] = "write"] /\ UNCHANGED disturbed
     \/ UNCHANGED file /\ save' = [save EXCEPT ![p] = "none"] /\ disturbed' = TRUE
  /\ UNCHANGED <<on, memory, latest>>

\* If another instance has written since, its record is written over from the start.
Write(p) ==
  /\ save[p] = "write"
  /\ save' = [save EXCEPT ![p] = "none"]
  /\ \/ file' = memory[p] /\ UNCHANGED disturbed
     \/ file \notin {Empty, memory[p]} /\ file' = Torn /\ disturbed' = TRUE
     \/ file' \in {file, Torn} /\ disturbed' = TRUE
  /\ UNCHANGED <<on, memory, latest>>

\* The instance ends, whatever it was doing.
Ends(p) ==
  /\ on' = on \ {p}
  /\ memory' = [memory EXCEPT ![p] = Defaults]
  /\ save' = [save EXCEPT ![p] = "none"]
  /\ disturbed' = (disturbed \/ Saving(p))
  /\ UNCHANGED <<file, latest>>

-----------------------------------------------------------------------------
(* Properties.                                                             *)

\* Modify, Open and Write of every instance and its Ends in between: what an instance
\* reads at its start is what was changed last, unless a save was cut or failed, two of
\* them met, or one began from a record that was not the latest.
StartsFromLatest ==
  [][\A p \in on' \ on :
       disturbed \/ (\E q \in Instances : Saving(q)) \/ memory'[p] = latest]_settings
=============================================================================
