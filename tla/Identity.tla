------------------------------ MODULE Identity ------------------------------
(***************************************************************************)
(* The device identity of -mode ws (loadWSIdentity): read from a file at   *)
(* every start, created when there is none, printed for the owner to paste *)
(* into the panel.  The panel routes commands to the identity it was given *)
(* and encrypts them with its key, so a gateway that comes back with       *)
(* another one is unpaired.                                                *)
(*                                                                         *)
(* The process may be killed at any step and is restarted by a supervisor. *)
(* The file system is external: os.WriteFile truncates the file, then      *)
(* writes it; os.ReadFile may fail although the file is there; a power     *)
(* failure loses what the kernel has not flushed, and the program never    *)
(* asks it to flush.                                                       *)
(***************************************************************************)
EXTENDS Integers

CONSTANTS
  MaxIds,      \* bound: identities generated in one behaviour
  ReadErrors,  \* can os.ReadFile fail on a file that exists?
  PowerLoss    \* can the power fail?

\* Identities are numbered in the order they are drawn; randRead never
\* repeats one.  The file may also be missing, or broken off.
Ids == Nat \ {0}
Absent == 0
Broken == -1
NoId == 0

VARIABLES
  file,    \* the identity file
  synced,  \* has the kernel flushed it?
  stage,   \* where the process is
  id,      \* the identity it holds
  drawn,   \* identities drawn so far
  paired,  \* the identity the owner has entered in the panel
  undone   \* history: did a power failure undo the file of a paired gateway?

idVars == <<file, synced, stage, id, drawn, paired, undone>>

IdTypeOK ==
  /\ file \in Ids \cup {Absent, Broken}
  /\ synced \in BOOLEAN
  /\ stage \in {"start", "create", "write", "run", "exited"}
  /\ id \in Ids \cup {NoId}
  /\ drawn \in Nat
  /\ paired \in Ids \cup {NoId}
  /\ undone \in BOOLEAN

IdInit ==
  /\ file = Absent
  /\ synced = TRUE
  /\ stage = "start"
  /\ id = NoId
  /\ drawn = 0
  /\ paired = NoId
  /\ undone = FALSE

-----------------------------------------------------------------------------
(* loadWSIdentity.                                                         *)

\* The file is read: a complete one gives the identity, a broken one makes
\* runWS exit.
LoadExisting ==
  /\ stage = "start"
  /\ file # Absent
  /\ \/ /\ file # Broken
        /\ id' = file
        /\ stage' = "run"
     \/ /\ file = Broken
        /\ stage' = "exited"
        /\ UNCHANGED id
  /\ UNCHANGED <<file, synced, drawn, paired, undone>>

\* os.ReadFile reports an error, of whatever kind: a fresh identity is drawn.
Generate ==
  /\ stage = "start"
  /\ file = Absent \/ ReadErrors
  /\ drawn < MaxIds
  /\ drawn' = drawn + 1
  /\ id' = drawn + 1
  /\ stage' = "create"
  /\ UNCHANGED <<file, synced, paired, undone>>

\* os.WriteFile opens the file with O_TRUNC ...
Truncate ==
  /\ stage = "create"
  /\ file' = Broken
  /\ synced' = FALSE
  /\ stage' = "write"
  /\ UNCHANGED <<id, drawn, paired, undone>>

\* ... and writes it.
Write ==
  /\ stage = "write"
  /\ file' = id
  /\ synced' = FALSE
  /\ stage' = "run"
  /\ UNCHANGED <<id, drawn, paired, undone>>

\* Drawing randomness, creating or writing the file fails: exit.
WriteFails ==
  /\ stage \in {"create", "write"}
  /\ stage' = "exited"
  /\ id' = NoId
  /\ UNCHANGED <<file, synced, drawn, paired, undone>>

-----------------------------------------------------------------------------
(* The owner, the supervisor and the power supply (external).              *)

\* The owner pastes the identity runWS prints into the panel, once, at any
\* time: the file may not have been flushed yet.
Pair ==
  /\ stage = "run"
  /\ paired = NoId
  /\ paired' = id
  /\ UNCHANGED <<file, synced, stage, id, drawn, undone>>

\* The process dies, or has exited, and is started again.
Restart ==
  /\ stage' = "start"
  /\ id' = NoId
  /\ UNCHANGED <<file, synced, drawn, paired, undone>>

Flush ==
  /\ ~synced
  /\ synced' = TRUE
  /\ UNCHANGED <<file, stage, id, drawn, paired, undone>>

\* The power fails.  What was not flushed may be cut short or undone.
LosePower ==
  /\ PowerLoss
  /\ file' \in IF synced THEN {file} ELSE {file, Broken, Absent}
  /\ synced' = TRUE
  /\ stage' = "start"
  /\ id' = NoId
  /\ undone' = (undone \/ (paired # NoId /\ file' # file))
  /\ UNCHANGED <<drawn, paired>>

IdNext ==
  \/ LoadExisting \/ Generate \/ Truncate \/ Write \/ WriteFails
  \/ Pair \/ Restart \/ Flush \/ LosePower

IdSpec == IdInit /\ [][IdNext]_idVars

-----------------------------------------------------------------------------

\* What loadWSIdentity does keep: a paired gateway runs under another identity
\* only if a read of the existing file failed, or a power failure undid the
\* file after the owner had copied the identity.  Kills at any step, failed
\* writes and all other power failures leave the pairing as it is.
KeepsPairing ==
  ~ReadErrors /\ ~undone => (stage = "run" /\ paired # NoId => id = paired)

\* Claimed by the comment on wsIdentity ("persisted next to the logs so a
\* restart keeps the same pairing").
RestartKeepsPairing == stage = "run" /\ paired # NoId => id = paired
=============================================================================
