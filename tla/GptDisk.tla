------------------------------- MODULE GptDisk -------------------------------
(***************************************************************************)
(* The gpt_disk handles of gpt-utils/gpt-utils.cpp: a caller reads the GPT *)
(* of one LUN into a handle, edits entries through the pointers that       *)
(* gpt_disk_get_pentry gives it, recomputes the CRCs and writes the        *)
(* primary GPT back, header first.  prepare_boot_update, see GptUpdate, is *)
(* called by somebody else at any time, and appears here as the effect of  *)
(* its completed stages on this LUN.                                       *)
(*                                                                         *)
(* A partition entries array is which copies it lists first and how often  *)
(* an entry of it was edited; its CRC stands for it.                       *)
(***************************************************************************)
EXTENDS Integers

CONSTANT MaxEdits   \* bound of the model: edits of entries

ASSUME DiskAssumption == MaxEdits \in Nat

Torn == [chain |-> "torn", edit |-> 0]
WholeArrays == [chain : {"main", "bak"}, edit : 0 .. MaxEdits]
PentryArrays == WholeArrays \cup {Torn}
GptHeaders == [sig : {"ok", "bad"}, crc : BOOLEAN, ecrc : PentryArrays]
LostHeader == [sig |-> "bad", crc |-> FALSE, ecrc |-> Torn]
Places == {"prim", "sec"}

VARIABLES
    header,     \* on flash: header[g] of the GPT g
    entriesOf,  \* on flash: entriesOf[g], its entries array
    disk,       \* the handle: its state and its two headers and arrays
    diskPc,     \* what its owner is doing
    rc,         \* what gpt_disk_commit returned, until the next step
    edits,      \* edits made
    past        \* history, see below

gptFlash == <<header, entriesOf>>
diskVars == <<gptFlash, disk, diskPc, rc, edits, past>>

\* stale: a stage was completed since the handle was first read from; damaged:
\* what it was read from was no intact GPT; crcs: its CRCs are those of its
\* arrays; harmed: a commit began of a damaged handle, of one that was read
\* during an update, or while an update was under way, or a stage was completed
\* during a commit.
NoPast == [stale |-> FALSE, damaged |-> FALSE, crcs |-> TRUE, harmed |-> FALSE]

StateOf(g) == IF ~ header[g].crc            THEN "BAD_CRC"
              ELSE IF header[g].sig = "bad" THEN "BAD_SIGNATURE"
              ELSE "OK"
ArrayCrcGood(g) == header[g].ecrc = entriesOf[g]

\* What the boot loader accepts, and what it should accept.
Accepted(g) == StateOf(g) = "OK" /\ ArrayCrcGood(g)
Intact(g)   == Accepted(g) /\ entriesOf[g] # Torn

DiskInit ==
    /\ entriesOf = [g \in Places |-> [chain |-> "main", edit |-> 0]]
    /\ header = [g \in Places |-> [sig |-> "ok", crc |-> TRUE, ecrc |-> entriesOf[g]]]
    /\ disk = [st |-> "none"]
    /\ diskPc = "idle" /\ rc = "none" /\ edits = 0
    /\ past = NoPast

-----------------------------------------------------------------------------
(* gpt_disk_alloc, gpt_disk_get_disk_info and gpt_disk_free.                *)

DiskAlloc ==
    /\ diskPc = "idle" /\ disk.st = "none"
    /\ disk' = [st |-> "alloc"]
    /\ past' = [NoPast EXCEPT !.harmed = past.harmed]
    /\ rc' = "none"
    /\ UNCHANGED <<gptFlash, diskPc, edits>>

DiskFree ==
    /\ diskPc = "idle" /\ disk.st # "none"
    /\ disk' = [st |-> "none"]
    /\ rc' = "none"
    /\ UNCHANGED <<gptFlash, diskPc, edits, past>>

\* Both headers are read with gpt_get_header(dev, PRIMARY_GPT), so that both
\* arrays come from the place the primary header names.
\* Bug: the header is that of the secondary GPT.
HeaderOfSecondary == header["sec"]
HeaderRead == header["prim"]

ReadHeader ==
    /\ diskPc = "idle" /\ disk.st = "alloc"
    /\ disk' = [st |-> "alloc", hdr |-> HeaderRead]
    /\ diskPc' = "hdr_bak"
    /\ past' = [past EXCEPT !.stale = FALSE, !.damaged = header["prim"] = LostHeader]
    /\ rc' = "none"
    /\ UNCHANGED <<gptFlash, edits>>

ReadsOn(from, to) ==
    /\ diskPc = from
    /\ diskPc' = to
    /\ UNCHANGED <<gptFlash, rc, edits>>
ReadBackupHeader ==
    /\ ReadsOn("hdr_bak", "arr")
    /\ disk' = [st |-> "alloc", hdr |-> disk.hdr, hdrBak |-> header["prim"]]
    /\ UNCHANGED past
ReadPentries ==
    /\ ReadsOn("arr", "arr_bak")
    /\ disk' = [st |-> "alloc", hdr |-> disk.hdr, hdrBak |-> disk.hdrBak,
                arr |-> entriesOf["prim"]]
    /\ past' = [past EXCEPT !.damaged = @ \/ disk.hdr.ecrc # entriesOf["prim"]]
ReadBackupPentries ==
    /\ ReadsOn("arr_bak", "idle")
    /\ disk' = [st |-> "init", hdr |-> disk.hdr, hdrBak |-> disk.hdrBak,
                arr |-> disk.arr, arrBak |-> entriesOf["prim"]]
    /\ UNCHANGED past

\* A read fails: is_initialized is not set, and what was read is of no use.
\* Bug: it is set before the reads.
MarkedInitialized == [disk EXCEPT !.st = "init"]
Uninitialized == [st |-> "alloc"]
InfoFails ==
    /\ diskPc \in {"hdr_bak", "arr", "arr_bak"}
    /\ disk' = Uninitialized
    /\ diskPc' = "idle"
    /\ UNCHANGED <<gptFlash, rc, edits, past>>

-----------------------------------------------------------------------------
(* gpt_disk_get_pentry, gpt_disk_update_crc and gpt_disk_commit.            *)

Usable == diskPc = "idle" /\ disk.st = "init"

Edited(a) == IF a = Torn THEN Torn ELSE [a EXCEPT !.edit = edits + 1]
EditPentry(instance) ==
    /\ Usable
    /\ edits < MaxEdits /\ edits' = edits + 1
    /\ disk' = IF instance = "prim" THEN [disk EXCEPT !.arr = Edited(@)]
                                    ELSE [disk EXCEPT !.arrBak = Edited(@)]
    /\ past' = [past EXCEPT !.crcs = FALSE]
    /\ rc' = "none"
    /\ UNCHANGED <<gptFlash, diskPc>>

\* Bug: the CRC of the array is not put into the header.
HeaderCrcOnly(h, a) == [h EXCEPT !.crc = TRUE]
WithCrcs(h, a) == [sig |-> h.sig, crc |-> TRUE, ecrc |-> a]
UpdateCrc ==
    /\ Usable
    /\ disk' = [disk EXCEPT !.hdr = WithCrcs(@, disk.arr),
                            !.hdrBak = WithCrcs(@, disk.arrBak)]
    /\ past' = [past EXCEPT !.crcs = TRUE]
    /\ rc' = "none"
    /\ UNCHANGED <<gptFlash, diskPc, edits>>

UnderWay == \E g \in Places : StateOf(g) = "BAD_SIGNATURE"
DiskCommit ==
    /\ Usable
    /\ diskPc' = "header"
    /\ past' = [past EXCEPT !.harmed = @ \/ past.damaged \/ UnderWay
                                     \/ disk.hdr.sig = "bad"]
    /\ rc' = "none"
    /\ UNCHANGED <<gptFlash, disk, edits>>

\* gpt_set_header, and then gpt_set_pentry_arr, which finds the place in the
\* primary header of the handle.  blk_rw syncs what it wrote.
\* Bug: the header goes to the end of the disk.
HeaderToSecondary == "sec"
HeaderPlace == "prim"
SetHeader(h) == header' = [header EXCEPT ![HeaderPlace] = h] /\ UNCHANGED entriesOf
SetPentries(a) == entriesOf' = [entriesOf EXCEPT !["prim"] = a] /\ UNCHANGED header

WriteDiskHeader ==
    /\ diskPc = "header"
    /\ SetHeader(disk.hdr)
    /\ diskPc' = "array"
    /\ UNCHANGED <<disk, rc, edits, past>>
WriteDiskPentries ==
    /\ diskPc = "array"
    /\ SetPentries(disk.arr)
    /\ diskPc' = "idle" /\ rc' = "ok"
    /\ UNCHANGED <<disk, edits, past>>

\* What a write that does not come to its end leaves.
InterruptedCommit ==
    \/ UNCHANGED gptFlash
    \/ diskPc = "header" /\ SetHeader(LostHeader)
    \/ diskPc = "array" /\ SetPentries(Torn)
CommitFails ==
    /\ diskPc \in {"header", "array"}
    /\ InterruptedCommit
    /\ diskPc' = "idle" /\ rc' = "failed"
    /\ UNCHANGED <<disk, edits, past>>
DiskPowerLoss ==
    /\ InterruptedCommit
    /\ disk' = [st |-> "none"]
    /\ diskPc' = "idle" /\ rc' = "none"
    /\ UNCHANGED <<edits, past>>

-----------------------------------------------------------------------------
(* prepare_partitions, as GptUpdate has it, from a stage it accepts to its  *)
(* end.                                                                     *)

Other(a) == CASE a.chain = "main" -> [a EXCEPT !.chain = "bak"]
              [] a.chain = "bak"  -> [a EXCEPT !.chain = "main"]
              [] a = Torn         -> Torn

Stage ==
    /\ UNCHANGED <<disk, diskPc, edits>>
    /\ rc' = "none"
    /\ past' = [past EXCEPT !.stale = TRUE,
                            !.harmed = @ \/ diskPc \in {"header", "array"}]

StageMain ==
    /\ StateOf("prim") = "OK" /\ StateOf("sec") = "OK"
    /\ ArrayCrcGood("prim")
    /\ LET bak == Other(entriesOf["prim"])
       IN  /\ header' = [prim |-> [header["prim"] EXCEPT !.sig = "bad"],
                         sec  |-> [header["sec"] EXCEPT !.ecrc = bak]]
           /\ entriesOf' = [entriesOf EXCEPT !["sec"] = bak]
    /\ Stage

StageBackup ==
    /\ StateOf("prim") = "BAD_SIGNATURE" /\ StateOf("sec") = "OK"
    /\ header' = [prim |-> [header["prim"] EXCEPT !.sig = "ok"],
                  sec  |-> [header["sec"] EXCEPT !.sig = "bad"]]
    /\ UNCHANGED entriesOf
    /\ Stage

StageFinalize ==
    /\ StateOf("prim") = "OK" /\ StateOf("sec") = "BAD_SIGNATURE"
    /\ ArrayCrcGood("prim")
    /\ header' = [header EXCEPT !["sec"].sig = "ok", !["sec"].ecrc = entriesOf["prim"]]
    /\ entriesOf' = [entriesOf EXCEPT !["sec"] = entriesOf["prim"]]
    /\ Stage

GetDiskInfo == \/ ReadHeader \/ ReadBackupHeader \/ ReadPentries \/ ReadBackupPentries
               \/ InfoFails
CommitStep  == WriteDiskHeader \/ WriteDiskPentries \/ CommitFails

DiskNext ==
    \/ DiskAlloc \/ DiskFree \/ GetDiskInfo
    \/ \E instance \in Places : EditPentry(instance)
    \/ UpdateCrc \/ DiskCommit \/ CommitStep \/ DiskPowerLoss
    \/ StageMain \/ StageBackup \/ StageFinalize

DiskSpec == DiskInit /\ [][DiskNext]_diskVars

-----------------------------------------------------------------------------
(* Properties.                                                              *)

Handles ==
    [st : {"none", "alloc"}] \cup [st : {"alloc"}, hdr : GptHeaders]
    \cup [st : {"alloc"}, hdr : GptHeaders, hdrBak : GptHeaders]
    \cup [st : {"alloc"}, hdr : GptHeaders, hdrBak : GptHeaders, arr : PentryArrays]
    \cup [st : {"init"}, hdr : GptHeaders, hdrBak : GptHeaders, arr : PentryArrays,
          arrBak : PentryArrays]

\* Every variable has its type.
DiskTypeOK ==
    /\ header \in [Places -> GptHeaders]
    /\ entriesOf \in [Places -> PentryArrays]
    /\ disk \in Handles
    /\ diskPc \in {"idle", "hdr_bak", "arr", "arr_bak", "header", "array"}
    /\ diskPc \in {"header", "array"} => disk.st = "init"
    /\ rc \in {"none", "ok", "failed"}
    /\ edits \in 0 .. MaxEdits
    /\ past \in [stale : BOOLEAN, damaged : BOOLEAN, crcs : BOOLEAN, harmed : BOOLEAN]

\* Wherever a commit is cut short, with or without new CRCs, and whatever
\* updates come before and after it, the LUN has an intact GPT: the secondary
\* one until the primary one is intact again.  Only a commit during an update,
\* or of what was read during one or from a damaged GPT, can take both away: not
\* one of what was read before an update that has come to its end.
DiskBootable == ~ past.harmed => \E g \in Places : Intact(g)

\* When gpt_disk_commit returns 0 for a sound handle whose CRCs were updated
\* after its last edit, the boot loader accepts the primary GPT and finds the
\* edited entries in it.
CommitTakesEffect ==
    rc = "ok" /\ past.crcs /\ ~ past.harmed /\ ~ past.damaged =>
        Accepted("prim") /\ entriesOf["prim"] = disk.arr

\* A commit never costs the boot, and one that succeeds is one that counts.
CommitSafe == DiskBootable /\ CommitTakesEffect

\* The stage that prepare_partitions reads off the signatures is none of the
\* business of a commit: it stays, or cannot be read any more, also where stages
\* were completed since the handle was read, unless the handle was damaged, or is
\* as old as that and did harm (see NoPast).
Unreadable == \E g \in Places : StateOf(g) = "BAD_CRC"
CommitKeepsStage ==
    [][CommitStep /\ ~ Unreadable /\ ~ past.damaged /\ (past.stale => ~ past.harmed) =>
          Unreadable' \/ \A g \in Places : StateOf(g)' = StateOf(g)]_diskVars
-----------------------------------------------------------------------------
(* The inductive invariant, whose proof is in SequentialProofs.             *)

Reading   == {"hdr_bak", "arr", "arr_bak"}
Writing   == {"header", "array"}
HasHeader == diskPc \in Reading \/ disk.st = "init"
HasArray  == diskPc = "arr_bak" \/ disk.st = "init"

\* What gpt_disk_get_disk_info has read at each of its steps.
ShapeInv ==
    /\ diskPc \in Reading => /\ disk.st = "alloc" /\ rc = "none"
                             /\ disk.hdr \in GptHeaders
    /\ diskPc \in {"arr", "arr_bak"} => disk.hdrBak \in GptHeaders
    /\ diskPc = "arr_bak" => disk.arr \in PentryArrays
    /\ diskPc \in Writing => rc = "none"

\* The secondary GPT is the work of the stages alone, which always end.
SecondaryInv ==
    /\ \A g \in Places : header[g].crc \/ header[g] = LostHeader
    /\ header["sec"].crc /\ ArrayCrcGood("sec")

\* No CRC vouches for a torn array; the GPT that an update has spoiled is in
\* order but for its signature.
FlashInv == ~ past.harmed =>
    /\ \A g \in Places : header[g].crc => header[g].ecrc # Torn
    /\ header["sec"].sig = "bad" => Accepted("prim")
    /\ header["prim"].sig = "bad" /\ header["prim"].crc => ArrayCrcGood("prim")

\* A handle that is neither stale nor damaged shows the stage of the LUN, and
\* its CRCs are those of its arrays if they were updated since the last edit.
HandleInv ==
    /\ HasHeader => disk.hdr.crc \/ disk.hdr = LostHeader
    /\ HasHeader /\ ~ past.stale /\ ~ past.damaged =>
          /\ disk.hdr.crc
          /\ header["prim"].crc => header["prim"].sig = disk.hdr.sig
          /\ ~ past.harmed /\ disk.hdr.sig = "bad" => header["prim"].crc
    /\ ~ past.harmed /\ ~ past.damaged =>
          /\ HasHeader => disk.hdr.ecrc # Torn
          /\ HasArray => disk.arr # Torn /\ (past.crcs => disk.hdr.ecrc = disk.arr)

\* A commit that does no harm finds no update under way and spoils none, however
\* old its handle is.
CommitInv == ~ past.harmed =>
    /\ diskPc \in Writing => /\ ~ past.damaged
                             /\ disk.hdr.sig = "ok" /\ header["sec"].sig = "ok"
                             /\ header["prim"].crc => header["prim"].sig = "ok"
    /\ diskPc = "array" => header["prim"] = disk.hdr
    /\ rc = "ok" =>
          /\ disk.st = "init" /\ disk.hdr.sig = "ok" /\ disk.hdr.crc
          /\ header["prim"] = disk.hdr /\ entriesOf["prim"] = disk.arr

DiskIInv == DiskTypeOK /\ ShapeInv /\ SecondaryInv /\ FlashInv /\ HandleInv /\ CommitInv
=============================================================================
