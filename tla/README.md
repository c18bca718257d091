# Verification of the Sunfish device code

TLA+ models of the programs in this device tree, TLC configurations that check
them on small instances, and TLAPS proofs for every size. The tree is mostly
data (build files, property files, overlays, audio and thermal tables). What
runs is a set of HAL services, a library for the boot update, a JSON library, a
few scripts and one app; this file lists all of them, says which are modelled
and what is known of each. `PROJECT.json` holds the same inventory by line
number: components, runs, mutated definitions, the map from definitions to
source lines, findings, hazards and theorems.

## 1. The system

| Part | State it keeps | Operations | Hard because | Module |
|---|---|---|---|---|
| Boot update, `gpt-utils/gpt-utils.cpp` | two GPTs on every LUN, the UFS boot LUN; nothing in memory between calls | `prepare_boot_update` for three stages | power loss between and inside writes; the stage is inferred from flash; LUNs fail one by one | `GptUpdate` |
| `gpt_disk` handles, same file | a copy of the GPT in memory | read, find entry, recompute CRC, commit | header written before its array; stale copy written back | `GptDisk` |
| Boot chain swap, same file | an entries array in memory | exchange the entries X and Xbak | must exchange exactly the pairs that exist, in any order, and undo itself | `GptSwap` |
| USB HAL, `usb/usb/Usb.cpp` | callback, poll thread, partner flag, three mutexes, port files | 8 calls of `IUsb`, uevents | two threads, a signal handler, a timed wait, a callback that comes and goes | `UsbHal` |
| USB gadget HAL, `usb/gadget/UsbGadget.cpp` | current functions, applied flag, configfs tree, FunctionFS monitor | set, get, reset, monitor callback | the monitor's thread; failures half way; pull-up timeout | `UsbGadget` |
| Rail data provider, `powerstats/RailDataProvider.cpp` | rails found, readings, one stream | discovery, info, energy, stream | a detached thread that owns the stream; one array of readings for two threads; 32-bit arithmetic | `RailStream` |
| Dumpstate HAL, `dumpstate/DumpstateDevice.cpp` | the modem log daemon's properties, a directory and an archive | dump | a thread that stops and restarts a daemon beside the dump; commands with time limits; a kill anywhere | `DumpstateModem` |
| Boot services and scripts: `keymaster/wait_for_strongbox.cpp`, `init.radio.sh`, `parts/.../EuiccDisabler.java` | copies on /data, flags, enabled packages | run once at boot | a boot that ends half way through a copy; copies that are not synced | `BootSequence`, `EuiccDisabler` |
| Vibrator HAL, `vibrator/drv2624/Vibrator.cpp` | the driver's files, steady configuration | on, off, amplitude, effect | writes whose errors nobody looks at; temperature hysteresis | `Vibrator` |
| `json-c/`, in this tree with its source | a hash table, counted nodes, a parser fed in pieces | insert, delete, get, put, parse, print | freed slots, nodes that are shared, a parser state that outlives a call | `LinkHash`, `OrderedMap`, `JsonObject`, `JsonTokener` |
| Health, pixelstats, powerstats services | none of their own | forward to libraries | - | - |

How they interact. The parts run in processes of their own and meet only in
the kernel: the USB HAL and the gadget HAL both write the `UDC` pull-up file;
the updater calls `gpt-utils` as a library, and a `gpt_disk` handle taken
before a stage of `prepare_boot_update` and committed after it writes an older
GPT back (`GptDisk` has the stages of `GptUpdate` as steps of somebody else);
`init` runs wait_for_strongbox and the script one after the other
(`BootSequence`), and the app's receiver comes when the boot is completed
(`EuiccDisabler`, which shares nothing with them). Inside a process,
threads meet at mutexes (`Usb.cpp`: binder thread and poll thread;
`UsbGadget.cpp`: two binder threads and the monitor; `RailDataProvider.cpp`:
binder thread and stream thread) or at a join (`DumpstateDevice.cpp`). Of
json-c, an object keeps its members in the hash table and the parser makes
objects: `JsonObject` uses the ordered map that `LinkHash` is shown to be.

What makes each part correct: *boot update* - at every moment each LUN has a
GPT the boot loader accepts, and never boots an image copy that is half
written. *Handles* - a commit never costs the boot. *USB HAL* - a role switch that
is reported is the one that happened and is not undone, the callback ends up
with the newest status, calls end. *Gadget* - what is reported as applied is
what the host sees. *Rails* - a stream is fed by one thread and always ends, and
a sample is of one moment. *Dumpstate* - the log daemon ends as it began.
*Boot* - a half copy never counts as a copy. *Vibrator* - the motor runs what the call that
activated it asked for. *json-c* - no node is lost or used when it is gone, no
key hides another, a text means the same however it is cut.

The twelve runs:

| Run | About | Section |
|---|---|---|
| `gpt_update`, `gpt_update_unbacked`, `gpt_update_live`, `gpt_xbl_ready` | boot update | 2 |
| `sequential` | the parts that run in one thread: `GptDisk`, `GptSwap`, `BootSequence`, `EuiccDisabler`, `Vibrator`, `LinkHash`, `JsonObject`, `JsonTokener` | 3, 4, 8-10 |
| `usb_hal`, `usb_live`, `usb_join`, `usb_stale_partner` | USB HAL | 5 |
| `usb_gadget`, `usb_gadget_reset` | USB gadget HAL | 6 |
| `services` | `RailStream` and `DumpstateModem` | 7 |

`sequential` and `services` explore parts that share no state and call
nothing of each other one at a time: a variable (`part`, `service`) that never
changes says which one moves, and the others stay in an initial state. The
properties of each part speak of its own variables only, so this checks what a
run for each of them would. The fairness of a service that stays where it
is asks for nothing, because each begins with a step of its surroundings that
no fairness forces. That the specification of each part follows from that of
the run is proved, for `sequential` as `EachAlone` and for `services` as
`EachBeside`; so `SequentialTypes` (`[]SequentialTypeOK`) and `SequentialSafe`
(the safety properties of all eight parts) hold of the composition for every
value of the constants.

## 2. Boot update: `GptUpdate`, `BootGuard`, `GptUpdateProofs`

### What is modelled
An updater calls `prepare_boot_update(stage)` and between the calls overwrites
the copies of the boot images that the boot chain does not use. `GptUpdate`
has the flash (`hdr`, `arr`, `bootLun`, and `img`, the images the updater
writes), and the memory of one running call (`pc`, `stage`, `todo`, `cur`,
`isError`), which a power loss clears. Every write of the code is one action at
a label of `pc`:

| Action | Code |
|---|---|
| `Request`, `NextLun`, `Return`, `LunFailed` | `prepare_boot_update`, 975-1054: the loop over the LUNs, `is_error` |
| `CheckStage` | `prepare_partitions`, 762-816: both headers are read, the stage is inferred, "Stage already set" |
| `SetBootLun` | 818-830 and 860-875 with `gpt_utils_set_xbl_boot_partition`, 604-728 |
| `ChainRefused`, `NoBackupFound`, `WriteHeader`, `WriteArray` at `hdr2`, `arr2` | `gpt2_set_boot_chain`, 273-392 |
| `WriteHeader` at `prim`, `sec` | `gpt_set_state`, 456-531 |
| `IoError` | every error path of `prepare_partitions`; the write it fails in may have happened, or (array, header) be torn |
| `PowerLoss` | the same outcomes, and the call is gone |
| `WriteStart`, `WriteEnd`, `Rewrite`, `NewPackage` | the updater (external) |

A CRC is its content: a header holds the layout its `ecrc` was computed for.
An entries array is abstracted to which copies it lists first; `Swap` is
what `gpt_boot_chain_swap` does to that. Bits of a GPT that no decision reads
(GUIDs, sizes, names) are left out. The boot loader is external: it takes the
primary GPT if signature, header CRC and array CRC are right, else the
secondary. The updater may ask for any stage in any order and go on after
errors; it keeps one rule, without which nothing could hold: it does not ask
for the next stage while a copy of this one is half written.

`BootGuard` is the abstract promise: each image has a booted copy; any
number of images may switch at once, but only to complete copies, and only a
copy that is not booted is overwritten. `ImplementsBootGuard` maps `booted` to
the copy the boot loader would choose and `content` to `img`.

### Runs
| Run | Instance | Checks |
|---|---|---|
| `gpt_update` | 2 LUNs, 1 image each, UFS with xbl, torn headers, damaged primaries | `TypeOK`, `AlwaysBootable`, `BootSafe`, `ReadyForUpdate`, `XblBackupSafe`, `FinalizeUndoesMain`, `ImplementsBootGuard` |
| `gpt_update_unbacked` | 2 LUNs, both images on one | `UnbackedUntouched` |
| `gpt_update_live` | as `gpt_update`, headers written atomically, orderly updater | `UpdateCompletes` |
| `gpt_xbl_ready` | 1 LUN, xbl | `XblReadyForUpdate`, violated: finding 1 |

Two LUNs are the smallest number at which LUNs can be in different stages, and
a third adds none: a call handles LUNs one after the other and no
property relates more than two. One image on a LUN suffices because a swap
treats all pairs alike; `gpt_update_unbacked` has a LUN without any, for the path
that skips it (such a LUN refuses UPDATE_BACKUP for ever, so no other run may
have one). Nothing in the model counts, so no bound cuts a behaviour off.

`ReadyForUpdate` speaks of the images a GPT chooses; the same of xbl, which the
boot LUN chooses, is false (finding 1). What does hold of xbl is
`XblBackupSafe`: its backup is never half written while LUN B boots.

Fairness of `gpt_update_live`: a call in progress runs on and the updater goes
on with its work. Faults need not stop; the property only speaks of
behaviours in which they eventually do, and of LUNs whose primary GPT was not
damaged from the start. Headers are taken to be written atomically here (they
are one block): with torn headers `prepare_partitions` refuses such a LUN
for ever, as its comments say.

What the model shows of the code besides: the list of LUNs a call goes through
is a constant because it does not change, but the code leaves a LUN whose
by-name link it cannot read out of it without an error (1016); the list's limit
skips the search for duplicates, out of reach with its 14 names; UPDATE_BACKUP
repairs the primary header without looking at the primary array (891), which
is safe only because no stage ever writes that array (`LunInv`).

### Proofs
`GptUpdateProofs` proves, for any sets of LUNs and images:

| Theorem | States |
|---|---|
| `TypeCorrect` | `Spec => []TypeOK` |
| `Invariance` | `Spec => []IInv` |
| `KeepsBootable`, `KeepsBootSafe`, `KeepsReady`, `FinalizeRestores` | `[]AlwaysBootable`, `[]BootSafe`, `[]ReadyForUpdate`, `[]FinalizeUndoesMain` |
| `KeepsXblBackupSafe` | `[]XblBackupSafe` |
| `LeavesUnbackedAlone` | `Spec => UnbackedUntouched` |
| `Refinement` | `Spec => ImplementsBootGuard` |

The constants are assumed to be what `ConstantsAssumption` says, no more.
`AlwaysBootable` is not inductive: a state with a spoiled primary header and a
secondary that boots the wrong copies satisfies it. `IInv` adds `LunInv` (per
LUN: the primary array never changes; a spoiled signature means that the other
GPT is good and lists the right copies), `WorkInv` (what is true of the LUN at
hand at each label), `DoneInv` (what a call has made of the LUNs it is done
with) and `TornInv` (a half-written copy is on a LUN that boots the other).
A step that completes a write and a fault that interrupts it have the same
possible effects on the flash, so the flash part is proved once, for
`InterruptedWrite`. `UnbackedInv` adds, for a LUN without images, that no label at which it could be
written is reached. The refinement follows from `IInv`: a step changes what
boots only to complete copies (`GuardStep`). For xbl, `XblInv` relates the boot
LUN to all GPTs at once: LUN A is selected whenever every secondary GPT is
spoiled, and the backup of xbl is half written only then.

Only model-checked: `UpdateCompletes` (liveness).

## 3. Handles: `GptDisk`, `SequentialProofs`

### What is modelled
A handle on one LUN from `gpt_disk_alloc` to `gpt_disk_free`: `disk` is what
has been read into it so far, `diskPc` where its owner is, `rc` what a commit
returned. Each read and each write is a step that can fail
(`InfoFails`, `CommitFails`) and at which power can be lost (`DiskPowerLoss`);
a header or array that is being written then is the old one, the new one or torn.
`blk_rw` syncs what it writes, so a later power loss takes nothing back.

| Action | Code |
|---|---|
| `DiskAlloc`, `DiskFree` | 1348-1376 |
| `ReadHeader`, `ReadBackupHeader`, `ReadPentries`, `ReadBackupPentries` | `gpt_disk_get_disk_info`, 1380-1450. Both headers are read with `PRIMARY_GPT` (1398), so the "backup" is a second copy of the primary GPT |
| `EditPentry` | the caller, through the pointer `gpt_disk_get_pentry` gives it |
| `UpdateCrc` | `gpt_disk_update_crc`, 1475-1507 |
| `DiskCommit`, `WriteDiskHeader`, `WriteDiskPentries` | `gpt_disk_commit`, 1510-1545: header first, then the array |
| `StageMain`, `StageBackup`, `StageFinalize` | a completed stage of `prepare_boot_update` on this LUN, called by somebody else at any moment, with the effect it has in `GptUpdate` |

An entries array is the copies it lists first and how often it was edited.
History: `stale` (a stage was completed since the handle was read), `damaged`
(what was read was not intact), `crcs` (the CRCs are those of the arrays),
`harmed` (a commit of a damaged handle, of one that was read during an update,
or while an update was under way). Left out: a second
read into the same handle, which leaks the first copies and, where it fails,
leaves a mixture that still counts as initialised.

### What is checked, in `sequential`
`CommitSafe`: unless `harmed`, some GPT of the LUN is intact wherever a commit
is cut, with or without new CRCs; and a commit that returns 0 after
`gpt_disk_update_crc` is what the boot loader then finds. `CommitKeepsStage`: no
step of a commit changes the stage that the signatures say. Both hold of a
handle that is older than any number of stages: what it writes back is old, but
boots, and says the stage the LUN is in. Two edits suffice: they make an array that
is the edited one, the one before and one that is neither.

The exclusions are what nothing in the code prevents: a handle that was read
during an update and committed after it spoils the signature again; recomputed CRCs
make a torn primary GPT look intact; a commit during an update replaces the
GPT that UPDATE_BACKUP is going to boot. `CommitKeepsStage` says of a handle
that is up to date also that its commit during an update changes no signature.

### Proofs
`SequentialProofs` proves `DiskInvariance` (`[]DiskIInv`), `CommitsSafely`
(`[]CommitSafe`) and `CommitsKeepStage` for any number of edits. Parts of
`DiskIInv`: `ShapeInv` (what has been read at each step), `SecondaryInv` (the secondary GPT
is the work of stages alone, so it is good or spoiled on purpose), `FlashInv`
(no CRC vouches for a torn array; a spoiled GPT is in order but for its
signature), `HandleInv` (a handle that is neither stale nor damaged shows the
stage of the LUN and, if its CRCs were updated, the CRC of its array) and
`CommitInv` (a commit that does no harm finds both signatures good and writes
a good one, however old the handle is). That
`DiskBootable` is not inductive shows at `StageMain`, which spoils the primary
GPT: `FlashInv` says that there is something else to boot then.

## 4. Boot chain swap: `GptSwap`, `SequentialProofs`

### What is modelled
`GptUpdate` takes it for granted that `gpt_boot_chain_swap` exchanges the
entries X and Xbak of every image and that doing it twice restores the array.
`GptSwap` is that function: one action per iteration of its loop over
`PTN_SWAP_LIST` (`Exchange`, or `Continue` for its three ways to go on), with
the search of `gpt_pentry_seek` as `Seek`: the first entry whose name starts
with the wanted one and then ends or goes on with `bak`. A name is a sequence of
parts, so that prefixes are prefixes; an entry is its name. `SwapCall` is the call
that `gpt2_set_boot_chain` makes, to prepare the secondary GPT and to
restore it.

### What is checked, in `sequential`
`SwapCorrect`: nothing is lost (`NothingLost`), exactly the pairs are exchanged
by an odd call and restored by an even one (`ExchangesPairs`), and the caller
is told if there was none (`TellsIfNone`). Every order of up to 5 of 7
entries, on a UFS device, `MaxCalls` = 3.

`Skips` is the test of the code: on UFS it skips every name that starts with
xbl, xbl_config included, although the comment there speaks of xbl only. Five entries hold two pairs and a stranger; the list has xbl (skipped), a name
that is a prefix of the next one and one that is not. Three calls show an odd
call after an even one. The reference (`Swapped`) does not search: it
exchanges every entry with its twin, wherever that is.

### Proofs
`SequentialProofs` proves, for any list and any array in which no name is twice
(`SwapAssumption`): `SwapTypeCorrect` and `SwapIsCorrect` (`[]SwapCorrect`), from
`SwapInvariance` (`[]SwapIInv`). `ExchangesPairs` says nothing
inside a call; `PartlySwapped` does: an odd call has exchanged, and an even one
restored, the pairs of the names it has gone through (`Done`), and no
other. `Distinct`, `NothingLost` and `NothingNew` make the two entries the
search finds the two of the pair (`HasBothIs`, `FoundPlaces`).
Before the first call the array counts as one that an even call has restored.

## 5. USB HAL: `UsbHal`, `UsbHalProofs`

### What is modelled
The service has one binder thread (`service.cpp` sets a pool of 0 extra
threads), so calls of `IUsb` never overlap; `setCallback` creates and destroys
the poll thread. Both are processes with a label in `pc`; `owner` has the three
mutexes. A critical section in which the thread cannot be blocked or observed
is one step that needs the mutex free. `sig` is a pending SIGUSR1, and
`destroyThread` what its handler sets; epoll_wait returns for it, a mutex
does not. `mPartnerCV` is `woken`: a signal finds the binder thread in `wait`
or is gone. The kernel (external) connects and disconnects the partner and puts
uevents into every open socket. `seen` is the port status one of the threads is
filling in: the list of ports is read before the partner's files.
`reported` is what the registered callback was told last.

History variables, read by properties only: `fresh` (a partner came up since
the type was written), `wrote` (the kernel took that write), `unseen` (the
status changed where no socket listened).

### Runs
| Run | Instance | Checks |
|---|---|---|
| `usb_hal` | 2 slots for poll threads (symmetric), 2 settings, 2 uevents per socket | `TypeOK`, `SuccessKeepsType`, `NoLostSignal`, `OnePollThread`, `StatusFresh` |
| `usb_live` | 1 slot, no settings, 1 uevent | `RoleSwitchEnds` |
| `usb_join`, `usb_stale_partner` | as `usb_live`, 2 uevents where a uevent must wait | one property each, violated: findings 2 and 3 |

Bounds: `MaxEvents`, the uevents a socket holds. With 2, a uevent is handled
while another waits, which is all an order can show: the handler looks at one
at a time. Two slots are enough to see a poll thread outlive its
unregistration. `CHECK_DEADLOCK FALSE`: `setCallback` can really stop the
HAL (finding 2).

Fairness: each thread runs on, and gets a mutex that is free again and again
(strong fairness: the poll thread sleeps between uevents, so nobody spins on a
mutex); a pending signal is delivered; a wait that is not answered times
out. `BusySpec` adds that uevents never cease, as is the case on a device whose
battery reports: `usb_join` then shows the deadlock itself, and not a poll thread
that missed SIGUSR1 before `epoll_wait` and sleeps (a hazard at line 802, which
under `FairSpec` violates `DestroyEndsThread` as well). The framework
and the kernel are never forced to do anything.

`RoleSwitchEnds` is about `switchRole` alone. That every call ends is false
(finding 2).

Two things the history variables stand for are worth knowing of the code. The
write to `port_type` reaches the kernel in `fclose`, whose error nobody looks
at (333): a switch the kernel refused goes on as if it had been made, and
`SuccessKeepsType` speaks of the others (`wrote`). And a change of the status
between `pthread_create` and `uevent_open_socket` (771) is told by no uevent;
`StatusFresh` leaves it out (`unseen`).

### Proofs
`UsbHalProofs` proves, for any slots, settings and `MaxEvents`: `TypeCorrect`,
`KeepsPortType` (`[]SuccessKeepsType`), `LosesNoSignal` (`[]NoLostSignal`) and
`AtMostOnePollThread` (`[]OnePollThread`), from `Invariance` (`[]IInv`). The parts
of `IInv`:

| Part | Says | Needed because |
|---|---|---|
| `LockInv` | at which labels a thread holds which mutex | the other parts compare labels of two threads, and only a mutex both would need tells them apart |
| `RoleInv` | from the write to the answer the file has the type that was written | `SuccessKeepsType` speaks of the last step of the call only; the poll thread writes dual role at `drp`, which `LockInv` excludes meanwhile |
| `PartnerInv` | `mPartnerUp` is false while `switchMode` still holds `mPartnerLock` | otherwise a flag set before the wait begins would be a signal that was lost |
| `LifeInv` | a thread that has not ended is `mPoll`, and registered or being joined | `setCallback` creates a thread only when none is registered, not when none lives |

`KeepsStatusFresh` (`[]StatusFresh`) needs, on top of `IInv`, an invariant on the
waiting uevents and the two reports, `FreshInv`: `SignalInv` (a registered
thread is never told to end, so its uevents are handled) and `StatusInv`. The latter says
that whatever was read or told is right, or will be told anew: `Pending` is that
somebody will still list the ports or read the settings from the start, by a
uevent that waits or a call that is about to; without it, what a thread has
read so far is the state of the port, and what was told is, or is about to be
replaced by what a thread has read.

Only model-checked: `RoleSwitchEnds` (liveness).

## 6. USB gadget HAL: `UsbGadget`, `UsbGadgetProofs`

### What is modelled
`setCurrentUsbFunctions` on the binder threads (`service_gadget.cpp` has two),
one action per call it makes: each can fail, and what it had done stays.

| Action | Code |
|---|---|
| `SetCurrentUsbFunctions` | 308-314: lock, the two members |
| `PullDown`, `Unlink`, `StopMonitor` | `tearDownGadget`, 58-68; `resetGadget` can fail between its two halves |
| `AnswerNone`, `Validate` | 325-340 with the table of `validateAndSetVidPid`, 70-219 |
| `LinkGeneric`, `LinkVendor`, `LinkAdb`, `PullUp`, `StartMonitor`, `Await` | `setupFunctions`, 239-306 |
| `Answer` | the callback of the caller, 283, 299, 330, 354 |
| `ResetDown`, `ResetUp` | `reset`, 221-237, without the lock |
| `CallbackTrue`, `CallbackFalse` | `currentFunctionsAppliedCallback`, 43-46, on the monitor's thread |

The vendor functions are a property that is read twice, at 72 and at 248, and
each read takes any value in `Vendors`. Product ids are the table's; the
vendor id goes with them. External: the kernel (a gadget binds what is linked,
if nothing is bound, something is linked and the FunctionFS daemons are there;
unlinking a function, or a daemon that goes, unbinds it), the daemons, and the
monitor of libpixelusb, as the code uses it: it pulls up when all daemons
that were registered are there, again after one has gone and come back, and
calls back each time. A callback is a step of its own after the pull-up;
`monitorFfs.reset` joins the thread, so it waits for a callback. A thread that
waits for the lock is a call that has not begun. `getCurrentUsbFunctions`
only reads `functions` and `applied`.

History: `saw` (what the host was shown last in this request), `answered`,
`disturbed` (reset pulled the gadget down or up since the request began).

### Runs
| Run | Instance | Checks |
|---|---|---|
| `usb_gadget` | 2 threads, 4 requests, 2 lists of vendor functions | `TypeOK`, `SuccessIsSeen`, `HalfLinkedUnseen`, `NoneStaysDown`, `AppliedIsTrue`, `SetEnds` |
| `usb_gadget_reset` | the same | `OneRequestAtATime`, violated: finding 4 |

The requests are one of each kind the code tells apart: NONE; no daemon; a
daemon linked first and not supported with the vendor function diag; a daemon
(adb) linked last. Nothing counts, so nothing is cut off. `SuccessIsSeen` and
`NoneStaysDown` hold whatever `reset` does; `HalfLinkedUnseen` and
`AppliedIsTrue` except where it interfered.

`AppliedIsTrue` speaks of requests that were answered with SUCCESS. For
the others the flag can be wrong: it is cleared (314) before the old monitor is
stopped (63), whose last callback may set it again. It also excludes a
daemon that an earlier, failed request left registered, because the monitor is
reset only when it runs (62): the next request waits for that daemon too.

Fairness of `SetEnds`: a request that has the lock runs on, `waitForPullUp`
returns or times out, and a callback that is due is made. Daemons need never
start, and nobody is promised the lock.

### Proofs
`UsbGadgetProofs` proves, for any threads, requests and vendor functions,
`TypeCorrect`, `ShowsWhatItAnswers` (`[]SuccessIsSeen`), `HidesHalfLinked`
(`[]HalfLinkedUnseen`), `KeepsNoneDown` (`[]NoneStaysDown`) and `ReportsApplied`
(`[]AppliedIsTrue`) from `Invariance` (`[]IInv`). The parts of `IInv`: `LockInv`
(one request at a time is past `idle`), `ArgInv` (the members are its
arguments), `LinkInv` (what is linked and which id is set at each label; a linked
daemon is watched), `DownInv` (no monitor, and nothing bound but by
`reset`), `ShownInv`, `NoneInv`, and `AppliedInv`, which says for each state of
the monitor what the host sees and what the flag says. That an id stands for one
request is `IdsDiffer`, from the table alone. Only model-checked: `SetEnds`
(liveness).

## 7. Services with a second thread: `RailStream`, `DumpstateModem`

Both are explored by the run `services`, and proved about in
`ServicesProofs`. `ServicesTypeCorrect` (`[]ServicesTypeOK`) is of both together:
neither moves a variable of the other, so `ServicesSpec` implies the
specification of each (`EachBeside`), and the theorems below hold of the run's
specification too.

### `RailStream`: what is modelled
`RailDataProvider.cpp` from its constructor on. The service has one binder
thread; `streamEnergyData` starts a detached thread for each stream. `pc` has a
label for each; `owner` is `mLock`.

| Action | Code |
|---|---|
| `FindNode`, `FoundNodes` | `findIioPowerMonitorNodes`: any monitor may be passed over |
| `ParseLine`, `NextPath`, `ParsedRails` | `parsePowerRails`: any line and any file may be unreadable |
| `ParseNode`, `ParseNodeFails` | one file of `parseIioEnergyNodes`; all files are a pass |
| `GetRailInfo`, `GetEnergyData`, `AnswerEnergy` | the two calls, with a pass between the last two |
| `StreamEnergyData`, `StreamRefused` | the third; refused also if there is no memory for the queue |
| `BeginSample`, `Write`, `WriteTimesOut`, `Sleep`, `LeaveLoop`, `Release` | the poll thread, 270-293 |
| `ReadSample` | the client (external), which may never read |

What a reading holds is left out but for one thing: `fresh` is the set of
readings that the pass begun last has written. A file without a timestamp line
changes nothing and counts as read, as in the code (`blank`). A rate of 0 makes
the code divide by 0, which on this processor is 0 and unused, as the loop is
not entered. A thread that cannot be created ends the process and is left out.

| Property | Says |
|---|---|
| `ReadingsAreNamed` | every index `getRailInfo` and `getEnergyData` fill in is that of one rail, whatever was passed over |
| `SamplesAreWhole` | what is answered or written was read in one pass, by that thread |
| `StreamsAsAsked` | a poll thread lives exactly as long as its stream (`OneFeeder`); `numSamples` is what the time has room for, unless the product does not fit 32 bits: then it is less (`TellsAsAsked`) |
| `RailsEnd` | a stream ends though its client reads nothing (`StreamEnds`), and a call does though a stream runs (`CallEnds`) |

Instance: two monitors with two rails and one, two poll threads (a stream that
begins while the thread of the last one is ending), a queue of one sample, a
word of 8 in place of 2^32 with times that make products below and above it.
Fairness (`RailFairness`): each thread runs on and gets a mutex that is free
again and again. Strong fairness is what the code needs: the poll thread sleeps
without the mutex, but may hold it for a second at a time while
`writeBlocking` waits.

### `RailStream`: proofs
`RailInvariance` (`[]RailIInv`), `NamesReadings`, `SamplesWhole` and `FeedsAsAsked`,
for any monitors, rails, threads, times, rates and word. Parts of `RailIInv`:
`PathsInv` and `NamedInv` (during the discovery, the indices given so far
are those of different rails, without a gap), `LockInv` (who makes a pass holds
the mutex), `PassInv` (`fresh` covers the rails of the files a pass has gone
through, for the thread that holds the mutex), `OneFeeder`, and `CallInv` and
`TellsAsAsked` (the stream that was answered is the one the request asked
for). The kernel is assumed to give no two rails one name (`RailAssumption`).
Only model-checked: `RailsEnd` (liveness).

### `DumpstateModem`: what is modelled
A dump as `dumpstateBoard_1_1` makes it, and beside it `dumpModemThread`. After the
answer the process exits, so a dump begins with nothing but what is in
properties and files.

| Action | Code |
|---|---|
| `DumpstateBoard`, `CreateThread`, `ForceBusOwner`, `RestoreBusOwner`, `JoinThread`, `Exit` | the binder thread, 571-678, with `DumpTouch` |
| `ReadProperties`, `StopDaemon`, `AwaitDaemon` | 244-276: the daemon may not stop within its 10 seconds |
| `MakeDir`, `DumpLog`, `RestartDaemon` | `dumpLogs`, 201-242, from the last name back, one per step, and 294-297 |
| `CopyPowerOnLog`, `EfsDump` | 299-343 |
| `CreateTarFile`, `Send`, `RemoveDir`, `RemoveTar` | 347-376; every command can fail or be killed by its time limit |
| `DaemonStops`, `DaemonStarts`, `Toggle` | init and other users of the daemon's property (external) |
| `Kill` | the framework kills the service, at any point |

A file is which dumps it has contents of, `old` or `new`: the archive is opened
without `O_TRUNC` (157), so behind a shorter new one the rest of an old one stays.

| Property | Says |
|---|---|
| `LeavesAsFound` | a dump that is not killed has the daemon it stopped asked to run again, no EFS dump left on, the touch controller its bus |
| `SendsItsLogs` | logs are collected from a daemon that has stopped if it would (`CollectsClosedLogs`), the newest, as many as the property says (`CollectsNewest`), and nothing of an earlier dump is sent (`SendsThisDump`) |
| `DumpCompletes` | a dump ends whatever the daemon does (`DumpEnds`), and the daemon runs again (`DaemonRunsAgain`) |

What they leave out is what the code does: a dump that is killed between stop
and restart leaves the daemon off for good; a `Toggle` during a dump is
overruled by the restart; a dump that cannot remove its files leaves them to the
next. Instance: a directory of one foreign file, and one of three logs around one;
a limit of none and of two logs. Fairness (`DumpFairness`): both threads run on, as
the commands have time limits, and init starts what it is asked to; nobody
promises that the daemon stops, or that it is left alone.

### `DumpstateModem`: proofs
`DumpInvariance` (`[]DumpIInv`), `DumpLeavesAsFound` and `DumpSendsItsLogs`, for any
files and limits. Parts of `DumpIInv`: `ThreadInv` (the modem thread runs only
during a dump), `DaemonInv` (between stop and restart the daemon is not asked
to run unless somebody toggled it), `RestoredInv` (what is turned on is turned
off by a later step), `CollectInv` (of the names looked at so far the newest logs
were copied, and `copiedFiles` is their number up to the limit; its step counts
with the cardinality of a set that grows at its lower end), `FilesInv` (a dump that
removes its files leaves nothing). Only model-checked: `DumpCompletes`
(liveness).

## 8. Boot: `BootSequence`, `EuiccDisabler`, `SequentialProofs`

### What is modelled
`BootSequence` is what init runs once per boot, in the order of
`init.hardware.rc`: `WaitForStrongbox`, and `init.radio.sh` with one action per
command that changes something (`CopyDatabase`, `DbCheckDone`, `CompareVersions`,
`RemoveConfig`, `CopyConfigs`, `CopyVersion`, `CopyMbn`, `CopyComplete`; `Then` is
the order of the three that a new version asks for). A command that fails does
not end the script, and leaves its file as it was or half done (`HalfDone`); a
copy over what could not be removed is a mixture, and without the directory
`mbn_ota.txt` becomes a file of the directory's name (`Inside`).

`Boot` happens at any point, and may bring other firmware. Nothing is synced, so
`found` collects what each file has held since the last boot: a loss of power
leaves any of that, for each file on its own, or the command under way half done.
An orderly reboot, and a copy that was written back in time, is the case in which
each file stays what it is.

`EuiccDisabler` is the app's receiver at the end of the boot (`BootCompleted`,
`SetPackage`, `AllSet`); the loop ends with an exception at a package that is not
installed. It shares no state with the script.

Left out: a firmware partition without `ver_info.txt`, and `qcril_prebuilt.db`
(lines 12-14), which is copied in every boot and looked at by nobody here.

### What is checked, in `sequential`
`BootCorrect`: when the RIL is told that the copy is complete, the configuration
is that of the firmware, whole (`CompleteMeansCurrent`); when it is told that the
database was checked, it is there, and whole (`CheckedMeansWhole`); the
eUICC packages are all enabled or all disabled, by what they depend on (`EuiccFollows`).
Three boots are a copy that is cut, one that is made over it, and one after
that; two versions of the firmware, so that it can go back; one file at a time
whose last command failed (`MaxSpoilt`).

The script does not assure this after four events. Each is recorded when it
happens, whatever state it leads to, and the properties leave out these cases
and no others:

- the last command for the file failed (`failed`): nobody looks;
- a loss of power took the configuration after its copy was finished (`lost`): if
  `ver_info.txt` survived, it vouches for what is not there. A configuration that
  is not finished when the power is lost does not count as lost: that the script
  then copies again is what the property asks, and it fails when the version is
  written first (`VersionFirst`);
- the copy of other firmware was begun (`begun`) and the firmware went back to the
  version that `ver_info.txt` still names (`WentBack`): it is not removed before
  `modem_config` is;
- the copy of `qcril.db` was cut short or lost (`lost`), and is there in part: only
  its presence is tested, so nothing repairs it.

### Proofs
In `SequentialProofs`: `BootInvariance` (`[]BootIInv`) and `CopiesCorrectly` for any
versions and number of boots, `EuiccInvariance` and `EuiccCorrectly` for any
packages and dependencies, and `BootsCorrectly` (`[]BootCorrect`) of the
composition; with the exceptions above. `BootIInv`: `ConfigInv` (if `ver_info.txt`
may name the version whose copy was begun last, on the disk or in what a loss of
power leaves, then that copy was finished; and at the labels in between what is
still to be copied), `DatabaseInv`, `FlagInv` (each flag is set only behind the
commands it stands for). It speaks of `found`, since what is on the disk now says
nothing of what the next boot finds. `LoopInv`, for the eUICC: the packages the loop
has gone through follow the setting.

## 9. Vibrator: `Vibrator`, `SequentialProofs`

A call of the HAL is a list of writes to the driver's files, of which each can
fail; the result of some is looked at (`Checked`), of the others not
(`Ignored`). `Written` and `WriteFails` work the list off. `On`, `Perform`,
`Off`, `SetAmplitude` and `Construct` make the lists, with the arithmetic of
`VibratorConfig`: levels, clamps, the period shifted in the cold. The
driver (external) stops the motor when its time is over.

`MotorAsAsked`, in `sequential`: a motor that runs, in a call none of whose
writes failed, plays the effect (`PlaysEffect`) or vibrates (`VibratesAsAsked`)
as the call asked, whatever earlier calls left in the driver;
a vibration is gentle from a temperature below the lower bound until one above the
upper (`GentleWhileCold`); and the steady clamp is between its bounds
(`ClampInBounds`). The instance has a device without dynamic configuration and
two with one, two durations around the closed-loop threshold, temperatures
below, between and above the bounds, and one failing write: a later call must
put right what it left. Of a call that had one failing write
nothing is claimed: the code activates the motor with the mixture.

### Proofs
`SequentialProofs` proves `VibTypeCorrect` (`[]VibTypeOK`) and `VibDoesAsAsked`
(`[]MotorAsAsked`) from `VibInvariance` (`[]VibIInv`), for any calibrations,
durations, temperatures and number of failures. `MotorAsAsked` says nothing
until the motor runs; `SettingsInv` says of every setting the call needs that
it is in the driver or still to be written, and that nothing else is still to
be written to its file, so that the order of the writes does not matter
and the last one leaves all in place. A vibration needs the steady
configuration, which is not written again after each call: `SteadyInv` says
that it is the one for the last temperature that was read, for the code
writes it where the temperature crosses a bound and only there. What the proof
needs of the arithmetic are lemmas: a period that is shifted to a lower
frequency is not shorter, in spite of two divisions that round down
(`ShiftLengthens`), and the clamp is between its bounds for any amplitude
(`SteadyClampBounds`). `VibAssumption` asks that there is a calibration at all,
and that its numbers are in the range for which the code's arithmetic is that
of natural numbers.

## 10. json-c: `LinkHash`, `OrderedMap`, `JsonObject`, `JsonTokener`

Three modules for its three data structures; all are checked in `sequential`,
and `LinkHashProofs`, `JsonObjectProofs` and `JsonTokenerProofs` prove what is
claimed of them.

**`LinkHash`** is the hash table of `linkhash.c`: linear probing, slots marked as freed,
a list through the slots in the order of insertion, doubling at two thirds. An
operation is a step. The hash function is any function from the keys to
`Hashes`, {0, 1, 3}: in a table of up to 4 slots these collide, are
neighbours, or wrap around. `TableSound`: the list goes through every occupied slot
once, in both directions (`ListWellFormed`), and an insertion finds a slot
(`InsertEnds`). `ImplementsOrderedMap`: the table is a map in the order of insertion,
`OrderedMap`, with the pairs of the list for its pairs. Three keys and tables
created with 2 slots reach freed slots in a chain, a resize and a wrap.
`MaxSize` bounds the growth (named in the guard of `Insert`).

**`JsonObject`** is `json_object.c` with `arraylist.c`: reference counts, and
the deletion that recurses through objects and arrays, as a stack, one child a
step. The client puts or hands over only references it owns and makes no
cycles, as `json_object.h` asks. `NodesOwned`: between calls a count is the number of owners
(`CountsOwners`), no node is put that is gone (`NeverFreedTwice`), an
array is written within its bounds and shows null where nothing was stored
(`ArraysInBounds`), and user data is deleted once (`DataDeletedOnce`). Three
nodes make a chain, a node shared by two, and one put twice into one parent;
addresses are symmetric. The client holds two references at most.

**`JsonTokener`** is `json_tokener_parse_ex` with its stack of levels and the
printing of `json_object.c`. A call is a step; a text is a sequence of
characters in which what the parser treats alike is one character (four
hexadecimal digits of a kind, a keyword's middle). The client feeds a text in any pieces, a
second value behind the first, and the same after an error and
`json_tokener_reset`. `ParsesInPieces`: wherever the text is cut, result and offset are those
of a new tokener that is given all of it, and success is returned at
the top level only. `RoundTrip`: what is printed, in every style, is read back.
`TokTypeOK` includes that the stack of `max_depth` levels is never indexed
beyond its end and that nothing is owned by a level that `json_tokener_free` does not
look at. The documents hold every kind of value, alone and nested; the
other texts hold what a printer never gives, whole and with one character
lost.

What these properties exclude is what the parser does, found while they were
checked and proved: `json_tokener.h` (140-142) says that a text may be given in
pieces, but a cut after the `\u` of a high surrogate, or between the two halves
of a pair, makes of a valid pair replacement characters or an error, and so is
`-` cut from `Infinity` a number error. `-1` cut before the `1` and followed by
an `i` is taken for the start of `-Infinity` and refused, because `case_len` (670)
counts the characters of one call only; a proof that failed has shown this
case, and the run now has a text with it (`-10i`). These cuts are `Spoils`, and a value with
one of them is `delicate`. `st_pos` is not reset before `-Infinity` (687), so that
`[null,-Infinity]` is refused (`InfAfterWord`; `LeftPos` for the value behind
an earlier one); a text that ends within a comment inside an array returns
the inner value as success (`EndsInComment`).

The loop is a recursive function over the characters of the piece, and within
it one over the turns for a character (`Passes`, `Turns`); `Printed` is one over
documents. The code has no bound on its turns: that eleven for each character
are all it ever takes is a lemma (below).

In the bounded instance two branches of json-c are not reached: the endless
insertion (which `InsertEnds` excludes) and an old value in `ArrayAdd`, behind
whose end there is none.

### `LinkHash`: proofs
`HashInvariance` (`[]HashIInv`), `HashTypeCorrect`, `HashTableSound`
(`[]TableSound`) and `HashImplementsMap` (`HashSpec => ImplementsOrderedMap`),
for any keys, values, hash function and sizes. `TableSound` says that the list
is right and not that a key is found; that it is not inductive without this
shows at a lookup behind a freed slot. `HashIInv` says that there is a
sequence of slots that is the list, forwards and backwards (`Listed`), that
it holds each occupied slot once (`Covered`), and that the probes for each key
come to it before an empty slot (`Findable`). A deletion keeps
`Findable` because a freed slot is not an empty one; an insertion because it
takes the first vacant slot of its own key's probes and empties none.
`RoomExists`: a table with fewer entries than slots has a vacant slot, and the
probes for any key go through all slots (`ProbesReachAll`, the division with
remainder), so that an insertion ends.

`Walk` and `Resized` are recursive functions. What they compute is proved by
induction over the length of the list: `SetInduction` is induction for a set of
numbers, and `BuiltExists` and `WalkIsList` use it to show that there is a
function that satisfies the recursion, and what it is. With these a resize keeps
the pairs and their order (`ResizedSound`). The refinement follows from the
invariant with one lemma per operation (`InsertMaps`, `LookupMaps`,
`DeleteMaps`), in which the pairs of the abstract map are those of the list.

### `JsonObject`: proofs
`JsonInvariance` (`[]JsonIInv`), `JsonTypeCorrect` and `JsonNodesOwned`
(`[]NodesOwned`), for any finite set of nodes, any fields, and any number of
references, indices and pieces of data. `CountsOwners` speaks of the moments
between calls; a deletion is many steps, at which slots name children that
were already put. `CountInv` counts them right at every step: a node under
deletion owns the children that its entry on the stack has still to put, the
slot whose old value is being replaced owns nothing any more, and the value that
will be stored counts before it is there (`Due`). `LifeInv`: a node is on the
stack, once, exactly when its count is 0 and it is not freed; this is what makes
the recursion end and `NeverFreedTwice` true. `SupportInv` is for
`json_object_object_add` and `json_object_array_put_idx` over an old value: the
node that is stored into must outlive the deletion of what it held. It does
because it is among nodes that are held by the client or owned by one another
(`Supports`), and no such set can be entered by a deletion that starts outside of
it. The argument needs that the client makes no cycle, as the guards of the two
operations have it. `ArrayInv` and `DataInv` are the parts of `NodesOwned` for
each node, at every step.

### `JsonTokener`: proofs
`JsonTokenerProofs` is for every text that ends at its first NUL, every `MaxDepth`
from 1 on, either mode, any way to cut the text and any number of values in it.

*Types and levels.* `TokenerTypes` (`[]TokTypeOK`) and `SuccessOnlyAtTop`
(`[]SuccessAtTop`) follow from `TokInv`. Between two calls (`Resting`) the levels
are a stack: each below the last waits for a child, those above hold nothing,
and each is in a state with the kind of value it works on (`GoodLevel`). This is
not enough inside a call, where the top can be in a state that no call leaves
behind, so `Sane` is the invariant of a pass, and `Moves` says what each
case of the switch keeps, with a lemma per case. `SuccessAtTop` needs the
history of the value as well: that a comment the tokener is in was opened within
the text of the value (`InComment`).

*The loop ends.* `Rank` is a number from 0 to 10 for the state on top. Every pass
takes a character, leaves the loop, or lowers the rank (`Moves`), so no character
is looked at more than eleven times (`TurnsReach`), and a call reaches the end
of its piece or goes to `out` (`PassesReach`).

*Pieces.* `PiecesAreOne` (`[]ParsesInPieces`) is a simulation. One tokener gets
the pieces, another, new, all of the text; `InStep` says in which fields they
agree. They are never the same: the offsets differ by what went before, a used
tokener has what earlier values left in `pb`, `quote`, `st_pos` and `obj`, and
`case_len` counts from the last cut. `Needed` lists by the state on top the fields
that will be read before they are written; each case of the switch keeps the
agreement on the fields its next state needs. `st_pos` is needed in front of
`-Infinity` too, unless the text has none; for that case `InStep` has a
parameter, `all`, and this is where `LeftPos` comes from. `Numerals` says where a number
began, so that `case_len` of a call and of the whole text differ only where the
difference is not read. `Abreast` is the agreement of the two loops at a
character; it needs that the cut is `Seamless`, since `Ahead` looks two
characters beyond the cut. `CutsInv`, the inductive invariant, adds to
`CutsDoNotMatter` (which speaks of results) that a tokener in the middle of a
value is in step with one that has read the same text at once (`Matched`). A
last step composes that with one call more, for a cut and for the end of
the text, where the two must also agree on the error (`AtEnd`, `AtOut`).

*Not proved*: `RoundTrip`. Text and value are related by `Printed`, a recursion
over documents, and the proof would be an induction over their structure with an
invariant for a stack of half-read parents. TLC checks it for every kind of value.

## 11. Findings

1. `gpt_xbl_ready`: `prepare_boot_update(UPDATE_MAIN)` can report "ready for
   update" while the boot LUN still selects the xbl its caller is going to
   overwrite (an interruption between the switch of the boot LUN and the repair
   of the primary header by UPDATE_BACKUP).
2. `usb_join`: `setCallback(null)` joins, holding `mLock`, a thread that may be
   waiting for `mLock`.
3. `usb_stale_partner`: an old uevent of a partner answers the wait of a role
   switch.
4. `usb_gadget_reset`: `reset` takes no lock and pulls up a gadget that
   `setCurrentUsbFunctions` has half linked.

## 12. How the properties are tested
Each module defines, just before the definition concerned and under a comment
`Bug:`, forms of it that a plausible mistake in the code would give. `PROJECT.json` pairs
each property of a passing run with one; in its place, TLC finds the property
violated. `CHECK_DEADLOCK FALSE` stands in the runs of the USB HAL, where
`setCallback` can really stop it (finding 2), and in `sequential`, whose parts
end: at a bound (`MaxCalls`, `MaxBoots`), or when the whole text is parsed.

Proofs and runs share their definitions: no configuration replaces one, every
property that is proved is also checked on the instance, and the assumptions
on the constants, `ASSUME` in each module, are evaluated by TLC for the
values of every run.

## 13. What is proved, and what is left

| Module | Proved for all values of the constants | Only model-checked |
|---|---|---|
| `GptUpdate` | all safety properties, the refinement of `BootGuard` | `UpdateCompletes` |
| `GptDisk` | `CommitSafe`, `CommitKeepsStage` | - |
| `GptSwap` | `SwapCorrect` | - |
| `UsbHal` | `SuccessKeepsType`, `NoLostSignal`, `OnePollThread`, `StatusFresh` | `RoleSwitchEnds` |
| `UsbGadget` | all safety properties | `SetEnds` |
| `RailStream` | `ReadingsAreNamed`, `SamplesAreWhole`, `StreamsAsAsked` | `RailsEnd` |
| `DumpstateModem` | `LeavesAsFound`, `SendsItsLogs` | `DumpCompletes` |
| `BootSequence`, `EuiccDisabler` | `CompleteMeansCurrent`, `CheckedMeansWhole`, `EuiccFollows` (`BootCorrect`) | - |
| `Vibrator` | `MotorAsAsked` | - |
| `LinkHash` | `TableSound`, the refinement of `OrderedMap` | - |
| `JsonObject` | `NodesOwned` | - |
| `JsonTokener` | `TokTypeOK`, `SuccessAtTop`, `ParsesInPieces` | `RoundTrip` |
| `MCServices` | `ServicesTypeOK` | - |
| `MCSequential` | `SequentialTypeOK`, the safety properties of the parts together | - |

Every liveness property is out of the prover's reach, because fairness speaks
of ENABLED. `RoundTrip` is the one safety property without a theorem: it would
take an induction over the structure of documents. No induction theorem of the
library can be instantiated here. Recursion over numbers (`Walk`, `Resized`,
`Passes`, `Turns`) is dealt with by an induction that is proved for the case at hand;
no module has a `RECURSIVE` operator, which would cost the prover its SMT
backend. `SequentialProofs` also holds the proofs about `GptDisk`, `GptSwap`,
`BootSequence`, `EuiccDisabler` and `Vibrator`, and puts all of the parts together.

What could follow: one model of the `UDC` file that the two USB HALs share;
iterators and the printing buffer of json-c.

## 14. Not modelled
- Data: build files, properties, policy, overlays, audio and thermal tables.
- The health, pixelstats and powerstats services and the state residency: they
  forward to libraries outside the tree and keep no state.
- `gpt-utils.cpp`: the device lookup (`readlink`, `readdir`, path formatting).
  In `GptSwap`: entries longer than the 128 bytes that are copied.
- `Usb.cpp`: more than one port, the `UDC` file that `enableUsbData` and
  `resetUsbPort` share with the gadget HAL, transaction ids.
- `DumpstateDevice.cpp`: the files and commands of the rest of the board dump, the
  bytes of the archive.
- Scripts that set a property or a link once (`init.insmod.sh` and others).
- `Vibrator.cpp`: the cubic equation and the parsing of the calibration file
  (their results are the constant `Calibrations`), `debug`.
- json-c: `printbuf`, iterators, files, the hash functions and their seed,
  accessors and conversions.
