------------------------------ MODULE GptUpdate ------------------------------
(***************************************************************************)
(* The failsafe boot update of gpt-utils/gpt-utils.cpp.                    *)
(*                                                                         *)
(* Every boot-critical image has two copies, X and Xbak.  A LUN carries    *)
(* two GPTs (a header and an entries array each).  prepare_boot_update     *)
(* moves every LUN through three stages, and between the stages its caller *)
(* overwrites the copies that the boot chain does not use:                 *)
(*                                                                         *)
(*   UPDATE_MAIN      the boot chain moves to the backup copies            *)
(*   UPDATE_BACKUP    the boot chain moves to the main copies              *)
(*   UPDATE_FINALIZE  both GPTs are good again and describe main copies    *)
(*                                                                         *)
(* The stage is stored nowhere: it is read off the signatures of the two   *)
(* GPT headers.  Power can be lost between any two writes and in the       *)
(* middle of one, and any read or write can fail.                          *)
(***************************************************************************)
EXTENDS Naturals

CONSTANTS
    Luns,         \* LUNs prepare_boot_update lists (one disk on eMMC)
    Images,       \* images of PTN_SWAP_LIST that have a backup partition and
                  \* are not skipped (on UFS all that start with xbl are)
    LunOf,        \* the LUN an image and its backup live on
    Xbl,          \* the image chosen by the UFS boot LUN, not by a GPT
    IsUfs,        \* gpt_utils_is_ufs_device()
    HasXbl,       \* the partitions xbl and xblbak both exist
    SectorAtomic  \* a power loss never tears the one block of a header

ASSUME ConstantsAssumption ==
    /\ LunOf \in [Images -> Luns]
    /\ Xbl \notin Images
    /\ IsUfs \in BOOLEAN
    /\ HasXbl \in BOOLEAN
    /\ SectorAtomic \in BOOLEAN

VARIABLES
    hdr,      \* on flash: hdr[d][g], the header of GPT g of LUN d
    arr,      \* on flash: arr[d][g], which copies the entries array lists first
    bootLun,  \* in the UFS device: the boot LUN attribute
    img,      \* on flash: img[i][c], what copy c of image i holds
    pc,       \* in memory: where the call of prepare_boot_update is
    stage,    \* in memory: the stage the caller asked for last
    todo,     \* in memory: LUNs it has still to prepare
    cur,      \* in memory: the LUN prepare_partitions works on
    isError,  \* in memory: is_error of prepare_boot_update
    ready     \* in the caller: the stage the last call returned 0 for

flash  == <<hdr, arr, bootLun>>
caller == <<img, ready>>
call   == <<pc, stage, todo, cur, isError>>
vars   == <<flash, caller, call>>

NoStage         == 0
UPDATE_MAIN     == 1
UPDATE_BACKUP   == 2
UPDATE_FINALIZE == 3
Stages == {UPDATE_MAIN, UPDATE_BACKUP, UPDATE_FINALIZE}

Gpts    == {"prim", "sec"}
Copies  == {"main", "bak"}
Content == {"old", "torn", "new"}

\* An entries array lists the main copies first, the backups first, or was
\* torn by an interrupted write.  A CRC of an array stands for the array.
Layouts == {"main", "bak", "torn"}
Headers == [sig : {"ok", "bad"}, crc : BOOLEAN, ecrc : Layouts]
TornHeader == [sig |-> "bad", crc |-> FALSE, ecrc |-> "torn"]

UsesBootLun == IsUfs /\ HasXbl
Protected   == Images \cup (IF UsesBootLun THEN {Xbl} ELSE {})

\* gpt_boot_chain_swap exchanges the two entries of every image that has a
\* backup, and finds nothing to exchange on a LUN without one.
HasBackup(d) == \E i \in Images : LunOf[i] = d
\* Bug: the swap forgets its temporary and duplicates one entry.
SwapNoTemporary(layout) == "duplicated"
Swap(layout) == IF layout = "main" THEN "bak"
                ELSE IF layout = "bak" THEN "main" ELSE layout

GptState(d, g) == IF ~ hdr[d][g].crc            THEN "BAD_CRC"
                  ELSE IF hdr[d][g].sig = "bad" THEN "BAD_SIGNATURE"
                  ELSE "OK"

\* The stage prepare_partitions reads off the headers; NoStage: it aborts.
InternalStage(d) ==
    LET p == GptState(d, "prim")
        s == GptState(d, "sec")
    IN  IF p = "OK" /\ s = "OK"                 THEN UPDATE_MAIN
        ELSE IF p = "BAD_SIGNATURE" /\ s = "OK" THEN UPDATE_BACKUP
        ELSE IF p = "OK" /\ s = "BAD_SIGNATURE" THEN UPDATE_FINALIZE
        ELSE NoStage

\* What the boot loader does with a LUN: the primary GPT if it is intact, else
\* the secondary one, and of two copies of an image the one listed first.
Valid(d, g) == /\ GptState(d, g) = "OK"
               /\ arr[d][g] # "torn"
               /\ hdr[d][g].ecrc = arr[d][g]
Bootable(d) == \E g \in Gpts : Valid(d, g)
BootedLayout(d) == IF Valid(d, "prim") THEN arr[d]["prim"]
                   ELSE IF Valid(d, "sec") THEN arr[d]["sec"]
                   ELSE "torn"
BootedCopy(i) == IF i \in Images THEN BootedLayout(LunOf[i])
                 ELSE IF bootLun = "A" THEN "main" ELSE "bak"

-----------------------------------------------------------------------------
(* A LUN may enter with a primary array that does not match its header: an  *)
(* interrupted gpt_disk_commit leaves it so.                                *)
Init ==
    /\ hdr = [d \in Luns |-> [g \in Gpts |->
                 [sig |-> "ok", crc |-> TRUE, ecrc |-> "main"]]]
    /\ \E primary \in [Luns -> {"main", "torn"}] :
          arr = [d \in Luns |-> [g \in Gpts |->
                    IF g = "prim" THEN primary[d] ELSE "main"]]
    /\ bootLun = "A"
    /\ img = [i \in Protected |-> [c \in Copies |-> "old"]]
    /\ pc = "idle"
    /\ stage = NoStage
    /\ todo = {}
    /\ cur \in Luns
    /\ isError = FALSE
    /\ ready = NoStage

-----------------------------------------------------------------------------
(* The caller (an updater outside this repository).  It may ask for any     *)
(* stage at any time and go on after an error, but it never leaves a stage  *)
(* with one of that stage's copies half written.                            *)
StageCopy(s) == IF s = UPDATE_MAIN THEN "main" ELSE "bak"

MayRequest(s) ==
    s # UPDATE_MAIN =>
        \A i \in Protected : img[i][StageCopy(s - 1)] # "torn"

Request(s) ==
    /\ pc = "idle"
    /\ MayRequest(s)
    /\ pc' = "next"
    /\ stage' = s
    /\ todo' = Luns
    /\ isError' = FALSE
    /\ ready' = NoStage
    /\ UNCHANGED <<flash, img, cur>>

WriteCopy(from, to) ==
    /\ pc = "idle"
    /\ ready \in {UPDATE_MAIN, UPDATE_BACKUP}
    /\ \E i \in Protected :
          /\ img[i][StageCopy(ready)] = from
          /\ img' = [img EXCEPT ![i][StageCopy(ready)] = to]
    /\ UNCHANGED <<flash, call, ready>>

WriteStart == WriteCopy("old", "torn")
WriteEnd   == WriteCopy("torn", "new")
Rewrite    == WriteCopy("new", "torn")

\* The next update arrives: what was new is now old.
NewPackage ==
    /\ pc = "idle"
    /\ ready = NoStage
    /\ img' = [i \in Protected |-> [c \in Copies |->
                  IF img[i][c] = "torn" THEN "torn" ELSE "old"]]
    /\ img' # img
    /\ UNCHANGED <<flash, call, ready>>

-----------------------------------------------------------------------------
(* prepare_boot_update and prepare_partitions.  The labels of pc:           *)
(*   idle   no call                   next   head of the loop over the LUNs *)
(*   check  the headers are read      lun    the boot LUN is switched       *)
(*   hdr2, arr2  gpt2_set_boot_chain writes the secondary header, array     *)
(*   prim, sec   gpt_set_state writes the primary, the secondary header     *)
At(label) == pc = label /\ UNCHANGED <<img, stage, todo, cur, ready>>
Goto(label) == pc' = label /\ UNCHANGED isError
LunDone == Goto("next")
\* Bug: prepare_boot_update drops the error of a LUN.
LunFailureForgotten == Goto("next")
LunFailed == pc' = "next" /\ isError' = TRUE

NextLun ==
    /\ pc = "next"
    /\ \E d \in todo : cur' = d /\ todo' = todo \ {d}
    /\ pc' = "check"
    /\ UNCHANGED <<flash, caller, stage, isError>>

Return ==
    /\ pc = "next"
    /\ todo = {}
    /\ pc' = "idle"
    /\ ready' = IF isError THEN NoStage ELSE stage
    /\ UNCHANGED <<flash, img, stage, todo, cur, isError>>

\* Bug: any stage that lies behind counts as already set.
AlreadySetOrBehind(d) == InternalStage(d) # NoStage /\ stage < InternalStage(d)
\* Bug: a stage that was set before an interruption is not recognised.
NeverAlreadySet(d) == FALSE
AlreadySet(d) == InternalStage(d) # NoStage /\ stage = InternalStage(d) - 1

CheckStage ==
    /\ At("check")
    /\ UNCHANGED flash
    /\ \/ AlreadySet(cur) /\ LunDone
       \/ /\ ~ AlreadySet(cur)
          /\ InternalStage(cur) = stage
          /\ Goto(IF stage = UPDATE_FINALIZE THEN "hdr2" ELSE "lun")
       \/ /\ ~ AlreadySet(cur)
          /\ InternalStage(cur) # stage
          /\ LunFailed

\* gpt_utils_set_xbl_boot_partition, called only where xbl and xblbak exist
\* Bug: UPDATE_BACKUP passes BACKUP_BOOT, copied from UPDATE_MAIN.
NewBootLunAlwaysB == IF UsesBootLun THEN "B" ELSE bootLun
NewBootLun == IF ~ UsesBootLun THEN bootLun
              ELSE IF stage = UPDATE_MAIN THEN "B" ELSE "A"

SetBootLun ==
    /\ At("lun")
    /\ bootLun' = NewBootLun
    /\ Goto(IF stage = UPDATE_MAIN THEN "hdr2" ELSE "prim")
    /\ UNCHANGED <<hdr, arr>>

\* gpt2_set_boot_chain takes the primary array, checks it against the primary
\* header and puts its CRC into the secondary header.
\* Bug: the CRC of the primary array is not checked.
PrimaryArrayUnchecked(d) == TRUE
PrimaryArrayGood(d) == arr[d]["prim"] = hdr[d]["prim"].ecrc

\* Bug: UPDATE_FINALIZE swaps like UPDATE_MAIN.
SecondaryLayoutAlwaysSwapped(d) == Swap(arr[d]["prim"])
SecondaryLayout(d) == IF stage = UPDATE_MAIN THEN Swap(arr[d]["prim"])
                      ELSE arr[d]["prim"]
\* Bug: what gpt_boot_chain_swap returns is not looked at.
NothingToSwapForgotten(d) == FALSE
NothingToSwap(d) == stage = UPDATE_MAIN /\ ~ HasBackup(d)

ChainRefused ==
    /\ At("hdr2")
    /\ ~ PrimaryArrayGood(cur)
    /\ LunFailed
    /\ UNCHANGED flash

NoBackupFound ==
    /\ At("hdr2")
    /\ PrimaryArrayGood(cur)
    /\ NothingToSwap(cur)
    /\ LunDone
    /\ UNCHANGED flash

\* The four writes: where the call is, what it writes, where it goes on.
HeaderGpt == IF pc = "prim" THEN "prim" ELSE "sec"
\* Bug: UPDATE_BACKUP does not repair the primary header.
SpoilsWithoutRepair == pc = "prim" \/ (pc = "sec" /\ stage = UPDATE_BACKUP)
SpoilsSignature == \/ pc = "prim" /\ stage = UPDATE_MAIN
                   \/ pc = "sec" /\ stage = UPDATE_BACKUP
NewHeader ==
    LET h == hdr[cur][HeaderGpt]
    IN  IF pc = "hdr2" THEN [h EXCEPT !.crc = TRUE, !.ecrc = SecondaryLayout(cur)]
        ELSE [h EXCEPT !.crc = TRUE,
                       !.sig = IF SpoilsSignature THEN "bad" ELSE "ok"]
AfterHeader == IF pc = "hdr2" THEN "arr2"
               ELSE IF pc = "prim" /\ stage = UPDATE_BACKUP THEN "sec"
               ELSE "next"
AtHeaderWrite ==
    \/ pc = "hdr2" /\ PrimaryArrayGood(cur) /\ ~ NothingToSwap(cur)
    \/ pc \in {"prim", "sec"}

PutHeader(h) == hdr' = [hdr EXCEPT ![cur][HeaderGpt] = h]
PutArray(a)  == arr' = [arr EXCEPT ![cur]["sec"] = a]

WriteHeader ==
    /\ AtHeaderWrite
    /\ At(pc)
    /\ PutHeader(NewHeader)
    /\ Goto(AfterHeader)
    /\ UNCHANGED <<arr, bootLun>>

WriteArray ==
    /\ At("arr2")
    /\ PutArray(SecondaryLayout(cur))
    /\ Goto(IF stage = UPDATE_MAIN THEN "prim" ELSE "sec")
    /\ UNCHANGED <<hdr, bootLun>>

-----------------------------------------------------------------------------
(* Faults, and what a step can do to the flash at most.  A write that fails *)
(* or is cut by a power loss leaves the old contents, the new, or (arrays,  *)
(* and headers unless SectorAtomic) neither.                                *)
InterruptedWrite ==
    \/ UNCHANGED flash
    \/ /\ pc = "lun"
       /\ bootLun' = NewBootLun
       /\ UNCHANGED <<hdr, arr>>
    \/ /\ AtHeaderWrite
       /\ \E h \in {NewHeader} \cup (IF SectorAtomic THEN {} ELSE {TornHeader}) :
              PutHeader(h)
       /\ UNCHANGED <<arr, bootLun>>
    \/ /\ pc = "arr2"
       /\ \E a \in {SecondaryLayout(cur), "torn"} : PutArray(a)
       /\ UNCHANGED <<hdr, bootLun>>

\* An open, ioctl, read or write of prepare_partitions returns an error.
IoError ==
    /\ pc \in {"check", "lun", "hdr2", "arr2", "prim", "sec"}
    /\ pc = "lun" => UsesBootLun
    /\ At(pc)
    /\ LunFailed
    /\ InterruptedWrite

PowerLoss ==
    /\ InterruptedWrite
    /\ pc' = "idle"
    /\ stage' = NoStage
    /\ todo' = {}
    /\ isError' = FALSE
    /\ ready' = NoStage
    /\ UNCHANGED <<img, cur>>

Fault == IoError \/ PowerLoss

Call == \/ NextLun \/ Return \/ CheckStage \/ SetBootLun
        \/ ChainRefused \/ NoBackupFound \/ WriteHeader \/ WriteArray

\* The orderly caller: it asks for the stages in turn, errors or not, starts
\* over where it may not go on, and leaves no stage before it has written all
\* the copies it was let write.
InTurn(s) == LET t == (stage % 3) + 1
             IN  s = IF MayRequest(t) THEN t ELSE UPDATE_MAIN
AllWritten == ready \in {UPDATE_MAIN, UPDATE_BACKUP} =>
                  \A i \in Protected : img[i][StageCopy(ready)] = "new"
OrderlyRequest == \E s \in Stages : InTurn(s) /\ AllWritten /\ Request(s)
Orderly == OrderlyRequest \/ WriteStart \/ WriteEnd \/ Call

Next == \/ Call
        \/ \E s \in Stages : Request(s)
        \/ WriteStart \/ WriteEnd \/ Rewrite \/ NewPackage
        \/ Fault

Spec == Init /\ [][Next]_vars

(* The call runs to its end and the caller does not stop midway.            *)
Fairness == /\ WF_vars(Call)
            /\ WF_vars(OrderlyRequest)
            /\ WF_vars(WriteStart)
            /\ WF_vars(WriteEnd)

FairSpec == Spec /\ Fairness

-----------------------------------------------------------------------------
(* Properties.                                                              *)

\* Every variable has its type, on flash as in memory.
TypeOK ==
    /\ hdr \in [Luns -> [Gpts -> Headers]]
    /\ arr \in [Luns -> [Gpts -> Layouts]]
    /\ bootLun \in {"A", "B"}
    /\ img \in [Protected -> [Copies -> Content]]
    /\ pc \in {"idle", "next", "check", "lun", "hdr2", "arr2", "prim", "sec"}
    /\ stage \in Stages \cup {NoStage}
    /\ todo \subseteq Luns
    /\ cur \in Luns
    /\ isError \in BOOLEAN
    /\ ready \in Stages \cup {NoStage}

\* Whatever was cut short and whatever failed, every LUN still has a GPT the
\* boot loader accepts: prepare_partitions never spoils the last good one.
AlwaysBootable == \A d \in Luns : Bootable(d)

\* The copy the boot loader would load of an image is never one the updater
\* has left half written, at whatever point power is lost.
BootSafe == \A i \in Images : /\ BootedCopy(i) \in Copies
                              /\ img[i][BootedCopy(i)] # "torn"

\* prepare_boot_update returns 0 for UPDATE_MAIN or UPDATE_BACKUP, by having
\* prepared every LUN or because "Stage already set - ready for update", only
\* when no image a GPT chooses boots from the copy that this stage lets its
\* caller write.
ReadyForUpdate ==
    ready \in {UPDATE_MAIN, UPDATE_BACKUP} =>
        \A i \in Images : BootedCopy(i) # StageCopy(ready)

\* The same of xbl, whose copy the boot LUN chooses: "Stage already set - ready
\* for update" is to mean that the copy the caller writes next is not booted.
XblReadyForUpdate ==
    UsesBootLun /\ ready \in {UPDATE_MAIN, UPDATE_BACKUP} =>
        BootedCopy(Xbl) # StageCopy(ready)

\* The backup xbl is never half written while LUN B boots.
XblBackupSafe ==
    UsesBootLun /\ bootLun = "B" => img[Xbl]["bak"] # "torn"

\* After a successful UPDATE_FINALIZE "the primary/backup GPT headers once
\* again point to the same set of partitions", and both GPTs are good.
FinalizeUndoesMain ==
    ready = UPDATE_FINALIZE =>
        \A d \in Luns, g \in Gpts : Valid(d, g) /\ arr[d][g] = "main"

\* "No backup partitions - do not corrupt GPT": whatever the stages, a LUN
\* without backed-up images is never written.
UnbackedUntouched ==
    [][\A d \in Luns : ~ HasBackup(d) => UNCHANGED <<hdr[d], arr[d]>>]_vars

\* Prepared(s, d): what a call for stage s has made of a LUN it reported no
\* error for.
BadSignature(d, g) == GptState(d, g) = "BAD_SIGNATURE"
Prepared(s, d) ==
    /\ s = UPDATE_MAIN /\ HasBackup(d) => BadSignature(d, "prim")
    /\ s = UPDATE_BACKUP => BadSignature(d, "sec")
    /\ s = UPDATE_FINALIZE =>
          Valid(d, "prim") /\ Valid(d, "sec") /\ arr[d]["sec"] = "main"

\* A LUN between calls: the primary array never changes, a spoiled signature
\* stands for the other GPT being good.
LunInv(d) ==
    /\ arr[d]["prim"] \in {"main", "torn"}
    /\ hdr[d]["prim"].crc => hdr[d]["prim"].ecrc = "main"
    /\ Bootable(d)
    /\ BadSignature(d, "prim") => /\ arr[d]["prim"] = "main"
                                  /\ Valid(d, "sec")
                                  /\ arr[d]["sec"] = "bak"
    /\ BadSignature(d, "sec") => Valid(d, "prim")

\* The LUN that prepare_partitions works on, at every label of its switch.
WorkInv ==
    /\ pc # "idle" => stage \in Stages
    /\ pc = "lun" =>
          \/ stage = UPDATE_MAIN /\ InternalStage(cur) = UPDATE_MAIN
          \/ stage = UPDATE_BACKUP /\ BadSignature(cur, "prim")
    /\ pc = "hdr2" =>
          \/ stage = UPDATE_MAIN /\ InternalStage(cur) = UPDATE_MAIN
          \/ stage = UPDATE_FINALIZE /\ BadSignature(cur, "sec")
    /\ pc = "arr2" =>
          /\ Valid(cur, "prim")
          /\ \/ /\ stage = UPDATE_MAIN
                /\ GptState(cur, "sec") = "OK"
                /\ hdr[cur]["sec"].ecrc = "bak"
             \/ /\ stage = UPDATE_FINALIZE
                /\ BadSignature(cur, "sec")
                /\ hdr[cur]["sec"].ecrc = "main"
    /\ pc = "prim" =>
          \/ /\ stage = UPDATE_MAIN
             /\ Valid(cur, "prim")
             /\ Valid(cur, "sec")
             /\ arr[cur]["sec"] = "bak"
          \/ stage = UPDATE_BACKUP /\ BadSignature(cur, "prim")
    /\ pc = "sec" =>
          /\ Valid(cur, "prim")
          /\ \/ stage = UPDATE_BACKUP /\ GptState(cur, "sec") = "OK"
             \/ /\ stage = UPDATE_FINALIZE
                /\ BadSignature(cur, "sec")
                /\ hdr[cur]["sec"].ecrc = "main"
                /\ arr[cur]["sec"] = "main"

\* A LUN the running call is done with, or the last call reported success for.
DoneInv ==
    /\ pc # "idle" /\ ~ isError =>
          \A d \in Luns \ todo : pc = "next" \/ d # cur => Prepared(stage, d)
    /\ ready # NoStage => pc = "idle" /\ \A d \in Luns : Prepared(ready, d)

\* A LUN without backed-up images still has good headers, so that no stage but
\* UPDATE_MAIN is accepted for it, and no label at which it could be written
\* is ever reached.
UnbackedInv ==
    /\ \A d \in Luns, g \in Gpts : ~ HasBackup(d) => GptState(d, g) = "OK"
    /\ pc \in {"arr2", "prim", "sec"} => HasBackup(cur)

\* Half-written copies: their LUN boots the others, and no running call is
\* about to change that.
TornInv ==
    /\ \A i \in Images :
          /\ img[i]["main"] = "torn" => BadSignature(LunOf[i], "prim")
          /\ img[i]["bak"] = "torn" => BadSignature(LunOf[i], "sec")
    /\ pc # "idle" => MayRequest(stage)

\* The inductive invariant behind the safety properties above.
IInv == TypeOK /\ (\A d \in Luns : LunInv(d)) /\ WorkInv /\ DoneInv /\ TornInv

\* From wherever faults and disorderly calls left the LUNs, an orderly caller
\* without further faults gets every copy written and both GPTs of every LUN
\* good again, unless a primary GPT was already damaged before the update.
Healthy == \A d \in Luns : PrimaryArrayGood(d)
Updated == /\ \A i \in Protected, c \in Copies : img[i][c] = "new"
           /\ \A d \in Luns, g \in Gpts : Valid(d, g) /\ arr[d][g] = "main"
           /\ bootLun = "A"
UpdateCompletes == <>[][Orderly]_vars => (Healthy ~> Updated)

\* The abstract promise: an image is only ever overwritten in the copy that is
\* not booted and only ever switched to a copy that is complete.
BootedNow == [i \in Images |-> BootedCopy(i)]
ImageNow  == [i \in Images |-> img[i]]
Guard == INSTANCE BootGuard WITH booted <- BootedNow, content <- ImageNow
ImplementsBootGuard == Guard!Spec
=============================================================================
