----------------------------- MODULE BootSequence -----------------------------
(***************************************************************************)
(* What init runs once per boot, in the order of init.hardware.rc:         *)
(* wait_for_strongbox, and init.radio.sh, which copies the data base and   *)
(* the configuration of the modem from the vendor and the firmware         *)
(* partition to /data.                                                     *)
(*                                                                         *)
(* A file on /data is absent ("none"), half written ("part") or the copy   *)
(* of a version; "empty" is the directory of the configuration just made.  *)
(* Nothing is synced: a loss of power may leave of a file anything that it *)
(* held since the last boot.                                               *)
(***************************************************************************)
EXTENDS Integers, FiniteSets

CONSTANTS
    Versions,      \* versions of the modem firmware
    MaxBoots,      \* bound of the model: how often the device boots
    MaxSpoilt      \* bound of the model: files whose last command failed, at a time

ASSUME BootAssumption ==
    /\ Versions # {} /\ Versions \cap {"none", "part", "empty"} = {}
    /\ MaxBoots \in Nat /\ MaxSpoilt \in Nat

Keymasters == {"strongbox", "tee"}
Copies == {"none", "part"} \cup Versions

VARIABLES
    bootPc,      \* what runs
    boots,       \* boots begun
    available,   \* keymasters (version 4) that are registered
    firmware,    \* the version on the firmware partition
    qcril,       \* qcril.db: absent, part or whole
    config,      \* modem_config: what it holds
    mbn,         \* mbn_ota.txt in it
    ver,         \* ver_info.txt
    found,       \* of each of them, what a loss of power may leave
    dbCheckDone, copyComplete,   \* the flags for the RIL
    begun,       \* history: the version whose configuration was last begun to be copied
    failed,      \* history: files whose last command failed
    lost         \* history: copies that a loss of power took since they were made

data     == <<qcril, config, mbn, ver, found, dbCheckDone, copyComplete>>
bootHistory  == <<begun, failed, lost>>
bootVars == <<bootPc, boots, available, firmware, data, bootHistory>>

BootInit ==
    /\ bootPc = "off" /\ boots = 0
    /\ available = {}
    /\ firmware = CHOOSE v \in Versions : TRUE
    /\ qcril = "none" /\ config = "none" /\ mbn = "none" /\ ver = "none"
    /\ found = [qcril |-> {"none"}, config |-> {"none"}, mbn |-> {"none"}, ver |-> {"none"}]
    /\ dbCheckDone = FALSE /\ copyComplete = FALSE
    /\ begun = "none" /\ failed = {} /\ lost = {}

\* Bug: the test is the wrong way round.
MissingNegated == qcril # "none"
Missing == qcril = "none"

\* What the command that runs leaves of a file when it fails or is cut short.
HalfDone(file) ==
    {c \in {"none", "part"} :
        \/ file = "qcril"  /\ bootPc = "db" /\ Missing /\ c = "part"
        \/ file = "config" /\ (bootPc = "rm" \/ (bootPc = "configs" /\ c = "part"))
        \/ file = "ver"    /\ bootPc = "verinfo" /\ c = "part"
        \/ file = "mbn"    /\ bootPc = (IF c = "none" THEN "rm" ELSE "mbn")}

\* mbn_ota.txt lies in the directory of the configuration.
Inside(dir, contents) == IF dir = "none" THEN {"none"} ELSE contents

\* A boot, after an update of the firmware or not, in order or as the power is
\* lost: half way through a command, and before what was written since the last
\* boot is on the disk (if all of it is, each file is what it was).  init clears
\* both flags before it starts the script.
Boot ==
    /\ boots < MaxBoots
    /\ boots' = boots + 1
    /\ bootPc' = "keymasters"
    /\ available' = {}
    /\ firmware' \in Versions
    /\ qcril' \in found.qcril \cup HalfDone("qcril")
    /\ config' \in found.config \cup HalfDone("config")
    /\ mbn' \in Inside(config', found.mbn \cup HalfDone("mbn"))
    /\ ver' \in found.ver \cup HalfDone("ver")
    /\ found' = [qcril |-> {qcril'}, config |-> {config'}, mbn |-> {mbn'}, ver |-> {ver'}]
    /\ dbCheckDone' = FALSE /\ copyComplete' = FALSE
    /\ lost' = lost \cup (IF qcril' # qcril THEN {"qcril"} ELSE {})
                    \cup (IF config' # config /\ bootPc \notin {"rm", "configs"}
                          THEN {"config"} ELSE {})
    /\ UNCHANGED <<begun, failed>>

-----------------------------------------------------------------------------
(* wait_for_strongbox: init waits for it.                                   *)

\* Keymasters come and go (external).
Registration ==
    /\ bootPc = "keymasters"
    /\ \E m \in Keymasters : available' \in {available \cup {m}, available \ {m}}
    /\ UNCHANGED <<bootPc, boots, firmware, data, bootHistory>>

FoundBoth == available = Keymasters
WaitForStrongbox ==
    /\ bootPc = "keymasters"
    /\ FoundBoth
    /\ bootPc' = "db"
    /\ UNCHANGED <<boots, available, firmware, data, bootHistory>>

-----------------------------------------------------------------------------
(* init.radio.sh.  A command that fails does not end the script.            *)

Runs(from, to) ==
    /\ bootPc = from
    /\ bootPc' = to
    /\ UNCHANGED <<boots, available, firmware>>

\* What a loss of power may leave of a file that a command changes.
Traces(file, content) == found[file] \cup HalfDone(file) \cup {content}

Succeeds(file) == failed' = failed \ {file} /\ lost' = lost \ {file}
Fails(file) ==
    /\ Cardinality(failed \cup {file}) <= MaxSpoilt
    /\ failed' = failed \cup {file}
    /\ UNCHANGED lost

CopyDatabase ==
    /\ Runs("db", "dbflag")
    /\ IF Missing
       THEN /\ \/ qcril' = "whole" /\ Succeeds("qcril")
               \/ qcril' \in {"none", "part"} /\ Fails("qcril")
            /\ found' = [found EXCEPT !.qcril = Traces("qcril", qcril')]
       ELSE UNCHANGED <<qcril, found, failed, lost>>
    /\ UNCHANGED <<config, mbn, ver, dbCheckDone, copyComplete, begun>>

DbCheckDone ==
    /\ Runs("dbflag", "version")
    /\ dbCheckDone' = TRUE
    /\ UNCHANGED <<qcril, config, mbn, ver, found, copyComplete, bootHistory>>

\* Bug: a copy is made only if there is none.
IfNoVersion == ver = "none"
NeedsCopy == ver # firmware
CompareVersions ==
    /\ Runs("version", IF NeedsCopy THEN "rm" ELSE "mbn")
    /\ begun' = IF NeedsCopy THEN firmware ELSE begun
    /\ UNCHANGED <<data, failed, lost>>

\* The order of the commands.
\* Bug: the version is written before what it vouches for.
VersionFirst == [rm |-> "verinfo", verinfo |-> "configs", configs |-> "mbn"]
Then == [rm |-> "configs", configs |-> "verinfo", verinfo |-> "mbn"]

\* rm -rf and mkdir.
RemoveConfig ==
    /\ Runs("rm", Then.rm)
    /\ \/ config' = "empty" /\ mbn' = "none" /\ UNCHANGED <<failed, lost>>
       \/ /\ config' \in {config} \cup HalfDone("config")
          /\ mbn' \in Inside(config', {mbn} \cup HalfDone("mbn"))
          /\ Fails("config")
    /\ found' = [found EXCEPT !.config = Traces("config", config'),
                              !.mbn = Traces("mbn", mbn')]
    /\ UNCHANGED <<qcril, ver, dbCheckDone, copyComplete, begun>>

\* What is left of another version stays beside the copy.
CopyConfigs ==
    /\ Runs("configs", Then.configs)
    /\ \/ config \in {"empty", firmware} /\ config' = firmware /\ Succeeds("config")
       \/ config' \in {config} \cup HalfDone("config") /\ Fails("config")
    /\ found' = [found EXCEPT !.config = Traces("config", config')]
    /\ UNCHANGED <<qcril, mbn, ver, dbCheckDone, copyComplete, begun>>

CopyVersion ==
    /\ Runs("verinfo", Then.verinfo)
    /\ ver' \in {firmware, ver} \cup HalfDone("ver")
    /\ found' = [found EXCEPT !.ver = Traces("ver", ver')]
    /\ UNCHANGED <<qcril, config, mbn, dbCheckDone, copyComplete, bootHistory>>

\* Without the directory the copy becomes a file of its name.
CopyMbn ==
    /\ Runs("mbn", "flag")
    /\ \/ mbn' \in Inside(config, {firmware}) /\ Succeeds("mbn")
       \/ mbn' \in Inside(config, {mbn} \cup HalfDone("mbn")) /\ Fails("mbn")
    /\ found' = [found EXCEPT !.mbn = Traces("mbn", mbn')]
    /\ UNCHANGED <<qcril, config, ver, dbCheckDone, copyComplete, begun>>

CopyComplete ==
    /\ Runs("flag", "done")
    /\ copyComplete' = TRUE
    /\ UNCHANGED <<qcril, config, mbn, ver, found, dbCheckDone, bootHistory>>

BootStep ==
    \/ WaitForStrongbox
    \/ CopyDatabase \/ DbCheckDone \/ CompareVersions \/ RemoveConfig \/ CopyConfigs
    \/ CopyVersion \/ CopyMbn \/ CopyComplete

BootNext == Boot \/ Registration \/ BootStep

BootSpec == BootInit /\ [][BootNext]_bootVars

-----------------------------------------------------------------------------
(* Properties.                                                              *)

\* Every variable has its type.
BootTypeOK ==
    /\ bootPc \in {"off", "keymasters", "db", "dbflag", "version", "rm", "configs",
                   "verinfo", "mbn", "flag", "done"}
    /\ boots \in 0 .. MaxBoots
    /\ available \subseteq Keymasters /\ firmware \in Versions
    /\ qcril \in {"none", "part", "whole"}
    /\ config \in Copies \cup {"empty"} /\ mbn \in Copies /\ ver \in Copies
    /\ found \in [qcril : SUBSET {"none", "part", "whole"},
                  config : SUBSET (Copies \cup {"empty"}),
                  mbn : SUBSET Copies, ver : SUBSET Copies]
    /\ dbCheckDone \in BOOLEAN /\ copyComplete \in BOOLEAN
    /\ begun \in {"none"} \cup Versions
    /\ failed \subseteq {"qcril", "config", "mbn"} /\ lost \subseteq {"qcril", "config", "mbn"}

\* The firmware went back to the version that ver_info.txt names while the copy
\* of another one was begun: the script does not copy again.
WentBack == ver = firmware /\ begun # firmware

\* When the RIL is told that the copy is complete, the configuration is that of
\* the firmware, whole, after any number of boots and updates and wherever they
\* cut the script short.  The script cannot assure it after three events: the
\* commands for the configuration failed (nobody looks), a loss of power took
\* the finished copy back but not the version that names it (nothing is synced),
\* or the firmware went back.
CompleteMeansCurrent ==
    copyComplete =>
        /\ config = firmware \/ WentBack \/ "config" \in failed \cup lost
        /\ config = firmware => mbn = firmware \/ "mbn" \in failed

\* When the RIL is told that the data base was checked, it is there, and whole
\* unless its copy failed, or a boot cut it short or lost it: nothing ever
\* repairs a half copy.
CheckedMeansWhole ==
    dbCheckDone => \/ qcril = "whole"
                   \/ qcril = "part" /\ "qcril" \in lost
                   \/ "qcril" \in failed

=============================================================================
