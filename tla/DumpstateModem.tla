---------------------------- MODULE DumpstateModem ----------------------------
(***************************************************************************)
(* dumpstate/DumpstateDevice.cpp: the dump of the board on the binder      *)
(* thread and, beside it, dumpModemThread, which stops the modem log       *)
(* daemon, collects its logs, starts it again, and packs what it has       *)
(* collected into an archive that it sends.                                *)
(*                                                                         *)
(* Of a file or directory that this code writes, all that is kept is which *)
(* dumps it has contents of: this one ("new") or one before ("old").       *)
(***************************************************************************)
EXTENDS Integers, Sequences, FiniteSets

CONSTANTS
    LogDirs,      \* what scandir may find: names, sorted, as the prefix of each
    MaxFileNums   \* values of the property mdlog_br_num

Prefix == "diag_log_"

ASSUME DumpAssumption ==
    /\ LogDirs \subseteq Seq(STRING)
    /\ MaxFileNums \subseteq Nat \cup {-1}

VARIABLES
    dumpPc,      \* the binder thread
    modemPc,     \* dumpModemThread
    verbose,     \* persist.vendor.verbose_logging_enabled
    enabled,     \* persist.vendor.sys.modem.diag.mdlog
    request,     \* vendor.sys.modem.diag.mdlog: what the daemon is asked to do
    daemon,      \* vendor.sys.modem.diag.mdlog_on: whether it runs
    started,     \* diagLogStarted
    names, logAt, copiedFiles, maxFileNum, copied,   \* dumpLogs
    efsdump,     \* vendor.sys.modem.diag.efsdump
    apOwnsBus,   \* who owns the bus of the touch controller
    dir,         \* the directory modem_log, or NoDir
    tar,         \* the archive all.tar
    sent,        \* what this dump has sent to fdModem
    history      \* what the properties ask of the past, see Forget

logVars  == <<names, logAt, copiedFiles, maxFileNum, copied>>
props    == <<verbose, enabled, request, daemon, efsdump>>
files    == <<dir, tar, sent>>
dumpVars == <<dumpPc, modemPc, props, started, logVars, apOwnsBus, files, history>>

NoDir == {"none"}
Aged(f) == IF f = NoDir THEN f ELSE {"old" : x \in f}

\* killed: the service was killed during this dump; toggled: somebody else set
\* request; timedOut: the daemon did not stop in time; refused: the command that
\* gives the bus back failed; wasOn, efsWas, busWas: how it found things;
\* unclean: this dump or one before could not remove its files.
Forget(h) == [killed |-> FALSE, toggled |-> FALSE, timedOut |-> FALSE,
              refused |-> FALSE, wasOn |-> FALSE, efsWas |-> efsdump,
              busWas |-> apOwnsBus, unclean |-> h.unclean]

DumpInit ==
    /\ dumpPc = "none" /\ modemPc = "none"
    /\ verbose = FALSE /\ enabled = FALSE
    /\ request = FALSE /\ daemon = FALSE
    /\ started = FALSE
    /\ names = <<>> /\ logAt = 0 /\ copiedFiles = 0 /\ maxFileNum = 0 /\ copied = {}
    /\ efsdump = FALSE /\ apOwnsBus = FALSE
    /\ dir = NoDir /\ tar = {} /\ sent = {}
    /\ history = [killed |-> FALSE, toggled |-> FALSE, timedOut |-> FALSE,
                  refused |-> FALSE, wasOn |-> FALSE, efsWas |-> FALSE,
                  busWas |-> FALSE, unclean |-> FALSE]

\* dumpLogs begins with the last name, and forgets all when it returns.
\* Bug: the index of the last one is taken for their number.
BehindLast(n) == n + 1
LastOf(n) == n
ScanLogs ==
    /\ names' \in LogDirs
    /\ logAt' = LastOf(Len(names'))
    /\ maxFileNum' \in MaxFileNums
    /\ copiedFiles' = 0 /\ copied' = {}
NoLogs == names' = <<>> /\ logAt' = 0 /\ maxFileNum' = 0 /\ copiedFiles' = 0 /\ copied' = {}

-----------------------------------------------------------------------------
(* The binder thread.                                                       *)

\* setVerboseLoggingEnabled, and the settings of the modem log (external).
Configure ==
    /\ dumpPc = "none"
    /\ verbose' \in BOOLEAN
    /\ enabled' \in BOOLEAN
    /\ UNCHANGED <<dumpPc, modemPc, request, daemon, efsdump, started, logVars,
                   apOwnsBus, files, history>>

\* The arguments are refused, or the dump begins.
DumpstateBoard ==
    /\ dumpPc = "none"
    /\ dumpPc' \in {"answer", "notify"}
    /\ history' = Forget(history)
    /\ UNCHANGED <<modemPc, props, started, logVars, apOwnsBus, files>>

\* The thread is created if verbose logging is on, there is a second file and
\* pthread_create succeeds.
CreateThread ==
    /\ dumpPc = "notify"
    /\ dumpPc' = "touch"
    /\ modemPc' \in {"none"} \cup (IF verbose THEN {"begin"} ELSE {})
    /\ UNCHANGED <<props, started, logVars, apOwnsBus, files, history>>

\* DumpTouch begins, and then ends, with a command about the bus owner.
ForceBusOwner ==
    /\ dumpPc = "touch"
    /\ dumpPc' = "raw"
    /\ apOwnsBus' \in {apOwnsBus, TRUE}
    /\ UNCHANGED <<modemPc, props, started, logVars, files, history>>
RestoreBusOwner ==
    /\ dumpPc = "raw"
    /\ dumpPc' = "board"
    /\ \/ apOwnsBus' = FALSE /\ UNCHANGED history
       \/ history' = [history EXCEPT !.refused = TRUE] /\ UNCHANGED apOwnsBus
    /\ UNCHANGED <<modemPc, props, started, logVars, files>>

\* Bug: the dump does not wait for the thread.
NoJoin == TRUE
Joined == modemPc = "none"
JoinThread ==
    /\ dumpPc = "board"
    /\ Joined
    /\ dumpPc' = "answer"
    /\ UNCHANGED <<modemPc, props, started, logVars, apOwnsBus, files, history>>

\* After the answer the process exits.
Exit ==
    /\ dumpPc = "answer"
    /\ dumpPc' = "none" /\ modemPc' = "none"
    /\ started' = FALSE /\ NoLogs /\ sent' = {}
    /\ UNCHANGED <<props, apOwnsBus, dir, tar, history>>

-----------------------------------------------------------------------------
(* dumpModemThread.                                                         *)

ModemStep(from, to) ==
    /\ modemPc = from
    /\ modemPc' = to
    /\ UNCHANGED dumpPc

\* No place or prefix of the logs may be set.  What earlier dumps left is old.
ReadProperties ==
    /\ \/ ModemStep("begin", "none") /\ UNCHANGED <<started, history, files>>
       \/ /\ ModemStep("begin", IF enabled /\ daemon THEN "stop" ELSE "mkdir")
          /\ started' = (enabled /\ daemon)
          /\ history' = [history EXCEPT !.wasOn = started']
          /\ dir' = Aged(dir) /\ tar' = Aged(tar) /\ sent' = {}
    /\ UNCHANGED <<props, logVars, apOwnsBus>>

StopDaemon ==
    /\ ModemStep("stop", "await")
    /\ request' = FALSE
    /\ UNCHANGED <<verbose, enabled, daemon, efsdump, started, logVars, apOwnsBus,
                   files, history>>

\* Bug: the daemon is waited for without a limit.
WaitsForEver == FALSE
MayTimeOut == daemon
\* Bug: it is not waited for.
StoppedUnchecked == TRUE
Stopped == ~ daemon
AwaitDaemon ==
    /\ ModemStep("await", "mkdir")
    /\ \/ Stopped /\ UNCHANGED history
       \/ MayTimeOut /\ history' = [history EXCEPT !.timedOut = TRUE]
    /\ UNCHANGED <<props, started, logVars, apOwnsBus, files>>

\* The command mkdir succeeds, or fails or is killed after 2 seconds.
MakeDir ==
    /\ ModemStep("mkdir", IF enabled THEN "collect" ELSE "poweron")
    /\ dir' \in {dir, dir \ NoDir}
    /\ IF enabled THEN ScanLogs ELSE UNCHANGED logVars
    /\ UNCHANGED <<props, started, apOwnsBus, tar, sent, history>>

\* A copy into the directory; there is none if the directory is not there.
CopyFile == dir' = IF dir = NoDir THEN dir ELSE dir \cup {"new"}

\* One name, from the last one to the first.
\* Bug: names of other files count as well.
WantedAny == copiedFiles < maxFileNum \/ maxFileNum = -1
Wanted == names[logAt] = Prefix /\ (copiedFiles < maxFileNum \/ maxFileNum = -1)
CountCopies == IF Wanted THEN copiedFiles + 1 ELSE copiedFiles
DumpLog ==
    /\ ModemStep("collect", "collect")
    /\ logAt > 0
    /\ logAt' = logAt - 1
    /\ copiedFiles' = CountCopies
    /\ IF Wanted THEN CopyFile /\ copied' = copied \cup {logAt}
                 ELSE UNCHANGED <<dir, copied>>
    /\ UNCHANGED <<props, started, names, maxFileNum, apOwnsBus, tar, sent, history>>

\* Bug: the daemon is never started again.
RestartsNever == request
Restarts == IF started THEN TRUE ELSE request
RestartDaemon ==
    /\ ModemStep("collect", "poweron")
    /\ logAt = 0
    /\ request' = Restarts
    /\ started' = FALSE /\ NoLogs
    /\ history' = [history EXCEPT !.timedOut = FALSE]
    /\ UNCHANGED <<verbose, enabled, daemon, efsdump, apOwnsBus, files>>

\* The log of the power-on; all else only where it is not a user build.
CopyPowerOnLog ==
    /\ ModemStep("poweron", "tar") \/ ModemStep("poweron", "efs")
    /\ CopyFile
    /\ UNCHANGED <<props, started, logVars, apOwnsBus, tar, sent, history>>

EfsDump(from, to, on) ==
    /\ ModemStep(from, to)
    /\ efsdump' = on
    /\ CopyFile
    /\ UNCHANGED <<verbose, enabled, request, daemon, started, logVars, apOwnsBus,
                   tar, sent, history>>

\* The archive is opened without being truncated: behind a shorter new one, the
\* rest of an old one stays.  Without the directory there is no new one.
CreateTarFile ==
    /\ ModemStep("tar", "send")
    /\ tar' \in {tar} \cup (IF dir = NoDir THEN {} ELSE {dir, dir \cup tar})
    /\ UNCHANGED <<props, started, logVars, apOwnsBus, dir, sent, history>>

\* All of the archive, or what could be written of it.
Send ==
    /\ ModemStep("send", "rmdir")
    /\ sent' \in SUBSET tar
    /\ UNCHANGED <<props, started, logVars, apOwnsBus, dir, tar, history>>

\* The commands rm, which can fail or be killed after 2 seconds.
Unclean == history' = [history EXCEPT !.unclean = TRUE]
\* Bug: the directory is left behind.
KeptDir == dir
EmptiedDir == NoDir
RemoveDir ==
    /\ ModemStep("rmdir", "rmtar")
    /\ \/ dir' = EmptiedDir /\ UNCHANGED history
       \/ UNCHANGED dir /\ Unclean
    /\ sent' = {}
    /\ UNCHANGED <<props, started, logVars, apOwnsBus, tar>>
RemoveTar ==
    /\ ModemStep("rmtar", "none")
    /\ \/ tar' = {} /\ UNCHANGED history
       \/ UNCHANGED tar /\ Unclean
    /\ UNCHANGED <<props, started, logVars, apOwnsBus, dir, sent>>

-----------------------------------------------------------------------------
(* The surroundings (external).                                             *)

\* init stops and starts the daemon as it is asked to.
DaemonStops ==
    /\ daemon /\ ~ request
    /\ daemon' = FALSE
    /\ UNCHANGED <<dumpPc, modemPc, verbose, enabled, request, efsdump, started,
                   logVars, apOwnsBus, files, history>>
DaemonStarts ==
    /\ ~ daemon /\ request
    /\ daemon' = TRUE
    /\ UNCHANGED <<dumpPc, modemPc, verbose, enabled, request, efsdump, started,
                   logVars, apOwnsBus, files, history>>

\* Somebody else turns the modem log on or off.
Toggle ==
    /\ request' = ~ request
    /\ history' = [history EXCEPT !.toggled = TRUE]
    /\ UNCHANGED <<dumpPc, modemPc, verbose, enabled, daemon, efsdump, started,
                   logVars, apOwnsBus, files>>

\* The service is killed, as by a framework that has waited long enough.
Kill ==
    /\ dumpPc # "none"
    /\ dumpPc' = "none" /\ modemPc' = "none"
    /\ started' = FALSE /\ NoLogs /\ sent' = {}
    /\ history' = [history EXCEPT !.killed = TRUE, !.unclean = TRUE]
    /\ UNCHANGED <<props, apOwnsBus, dir, tar>>

BoardStep == CreateThread \/ ForceBusOwner \/ RestoreBusOwner \/ JoinThread \/ Exit

ModemThread ==
    \/ ReadProperties \/ StopDaemon \/ AwaitDaemon \/ MakeDir \/ DumpLog
    \/ RestartDaemon \/ CopyPowerOnLog
    \/ EfsDump("efs", "ril", TRUE) \/ EfsDump("ril", "tar", FALSE)
    \/ CreateTarFile \/ Send \/ RemoveDir \/ RemoveTar

DumpNext ==
    \/ Configure \/ DumpstateBoard \/ BoardStep \/ ModemThread
    \/ DaemonStops \/ DaemonStarts \/ Toggle \/ Kill

DumpSpec == DumpInit /\ [][DumpNext]_dumpVars

\* Both threads run on: the commands they run have time limits.  init starts
\* what it is asked to start; nobody promises that a daemon stops.
DumpFairness ==
    /\ WF_dumpVars(BoardStep)
    /\ WF_dumpVars(ModemThread)
    /\ WF_dumpVars(DaemonStarts)

-----------------------------------------------------------------------------
(* Properties.                                                              *)

\* Every variable has its type.
DumpTypeOK ==
    /\ dumpPc \in {"none", "notify", "touch", "raw", "board", "answer"}
    /\ modemPc \in {"none", "begin", "stop", "await", "mkdir", "collect", "poweron",
                    "efs", "ril", "tar", "send", "rmdir", "rmtar"}
    /\ verbose \in BOOLEAN /\ enabled \in BOOLEAN
    /\ request \in BOOLEAN /\ daemon \in BOOLEAN /\ started \in BOOLEAN
    /\ efsdump \in BOOLEAN /\ apOwnsBus \in BOOLEAN
    /\ names \in Seq(STRING) /\ logAt \in 0 .. Len(names)
    /\ copiedFiles \in Nat /\ maxFileNum \in Nat \cup {-1}
    /\ copied \subseteq 1 .. Len(names)
    /\ dir \in {NoDir} \cup SUBSET {"old", "new"}
    /\ tar \subseteq {"old", "new"} /\ sent \subseteq {"old", "new"}
    /\ history \in [killed : BOOLEAN, toggled : BOOLEAN, timedOut : BOOLEAN,
                    refused : BOOLEAN, wasOn : BOOLEAN, efsWas : BOOLEAN,
                    busWas : BOOLEAN, unclean : BOOLEAN]

\* A dump that was not killed leaves the device as it found it: the log daemon
\* it stopped is asked to run again, no EFS dump goes on, and the touch
\* controller has its bus back.
LeavesAsFound ==
    dumpPc = "none" /\ ~ history.killed =>
        /\ history.wasOn => request \/ history.toggled
        /\ efsdump => history.efsWas
        /\ apOwnsBus => history.busWas \/ history.refused

\* The logs that are collected are closed: a daemon that was stopped for it
\* stays stopped meanwhile, if it stopped at all and is left alone.
CollectsClosedLogs ==
    modemPc = "collect" /\ started /\ daemon => history.timedOut \/ history.toggled

\* What is collected are the newest logs, as many as the property says.
CollectsNewest ==
    modemPc = "collect" /\ logAt = 0 =>
        copied = {k \in DOMAIN names :
                    /\ names[k] = Prefix
                    /\ \/ maxFileNum = -1
                       \/ Cardinality({m \in k + 1 .. Len(names) : names[m] = Prefix})
                             < maxFileNum}

\* Nothing of an earlier dump is sent, unless one could not remove its files.
SendsThisDump == "old" \in sent => history.unclean

\* A dump ends, whatever the daemon does.
DumpEnds == dumpPc = "notify" ~> dumpPc = "none"

\* A daemon that was stopped for the logs is asked to run, and runs, again.
DaemonRunsAgain ==
    modemPc = "await" ~> (daemon /\ request) \/ history.killed \/ history.toggled

\* What is sent are the logs the property asks for, of this dump, and closed.
SendsItsLogs == CollectsClosedLogs /\ CollectsNewest /\ SendsThisDump

\* A dump ends, and so does the pause in logging it caused.
DumpCompletes == DumpEnds /\ DaemonRunsAgain
-----------------------------------------------------------------------------
(* The inductive invariant, whose proof is in ServicesProofs.               *)

\* The modem thread runs only during a dump, and not after it was joined.
ThreadInv == modemPc # "none" => dumpPc \in {"touch", "raw", "board"}

\* A daemon that is stopped is still to be started again, and no longer asked
\* to run, nor running once it was waited for.
Pausing == {"stop", "await", "mkdir", "collect"}
DaemonInv ==
    /\ started => modemPc \in Pausing /\ enabled
    /\ modemPc \in {"stop", "await"} => started
    /\ history.wasOn /\ ~ history.killed => started \/ request \/ history.toggled
    /\ started /\ modemPc \in Pausing \ {"stop"} => ~ request \/ history.toggled
    /\ started /\ modemPc \in {"mkdir", "collect"} =>
          ~ daemon \/ history.timedOut \/ history.toggled

\* What is turned on is turned off by a later step of the same dump.
RestoredInv == ~ history.killed =>
    /\ efsdump => history.efsWas \/ modemPc = "ril"
    /\ apOwnsBus => history.busWas \/ history.refused \/ dumpPc = "raw"

\* The names that were looked at are the last ones, and of these the newest
\* logs were copied.
Logs(k) == {m \in k + 1 .. Len(names) : names[m] = Prefix}
InLimit(n) == maxFileNum = -1 \/ n < maxFileNum
CollectInv == modemPc = "collect" =>
    /\ copied = {k \in Logs(logAt) : InLimit(Cardinality(Logs(k)))}
    /\ copiedFiles = IF InLimit(Cardinality(Logs(logAt)))
                     THEN Cardinality(Logs(logAt)) ELSE maxFileNum

\* Every dump that removes its files leaves nothing for the next one to send.
FilesInv == ~ history.unclean =>
    /\ "old" \notin dir \cup tar \cup sent
    /\ modemPc \in {"none", "begin"} => dir = NoDir /\ tar = {}
    /\ modemPc = "rmtar" => dir = NoDir

DumpIInv == DumpTypeOK /\ ThreadInv /\ DaemonInv /\ RestoredInv /\ CollectInv /\ FilesInv
=============================================================================
