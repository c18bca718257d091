-------------------------------- MODULE UsbHal --------------------------------
(***************************************************************************)
(* The USB HAL of usb/usb/Usb.cpp: one binder thread that runs the calls   *)
(* of the framework, and the poll thread that setCallback creates and      *)
(* destroys and that handles the uevents of the kernel.                    *)
(*                                                                         *)
(* A mutex is held across labels of pc only where the code holds it while  *)
(* something else can happen; a critical section that blocks nobody is one *)
(* step.                                                                   *)
(***************************************************************************)
EXTENDS Naturals, Sequences, FiniteSets

CONSTANTS
    Binder,    \* the thread of the binder pool (it has one)
    Threads,   \* poll threads; more than one only if an old one still runs
    NoOne,     \* owner of a free mutex
    Settings,  \* what calls change and a port status reports
    MaxEvents  \* bound of the model: uevents a socket holds

ASSUME UsbAssumption ==
    /\ Binder \notin Threads
    /\ NoOne \notin Threads \cup {Binder}
    /\ Settings \subseteq {"usbData", "limit", "contaminant"}
    /\ MaxEvents \in Nat

VARIABLES
    owner,          \* who holds each mutex
    pc,             \* where each thread is
    op,             \* the call the binder thread runs
    mCallback,      \* a callback is registered
    mPoll,          \* the thread pthread_create returned last
    destroyThread,  \* set by the signal handler
    sig,            \* sig[t]: SIGUSR1 is pending for t
    mPartnerUp,     \* the poll thread has seen a partner come up
    woken,          \* mPartnerCV was signalled while the binder thread waited
    roleSwitch,     \* the role switch succeeded (local of switchRole)
    conf,           \* the settings
    seen,           \* seen[a]: the port status a is filling in (local)
    reported,       \* the port status the registered callback has been told
    queue,          \* queue[t]: uevents in the socket of t
    partner,        \* in the kernel: a partner is connected
    portType,       \* in the kernel: port_type of the port
    wanted,         \* the port type the running switchRole asks for
    fresh,          \* history: a partner came up since port_type was written
    wrote,          \* history: the kernel took that write
    unseen          \* history: the status changed and no uevent will tell

vars == <<owner, pc, op, mCallback, mPoll, destroyThread, sig, mPartnerUp,
          woken, roleSwitch, conf, seen, reported, queue, partner, portType,
          wanted, fresh, wrote, unseen>>

Actors  == {Binder} \cup Threads
Mutexes == {"mLock", "mRoleSwitchLock", "mPartnerLock"}
Modes   == {"source", "sink"}
Statuses == [connected : BOOLEAN, ok : BOOLEAN, conf : [Settings -> BOOLEAN]]
NoReport == [connected |-> FALSE, ok |-> FALSE, conf |-> [s \in Settings |-> FALSE]]

\* Bug: switchToDrp writes a name that port_type does not know.
UnknownType == "drp"
Drp == "dual"
PortTypes == Modes \cup {"dual"}

Ops == {"none", "setCallback", "queryPortStatus", "setting", "reset", "mode", "role"}

Free(m)    == owner[m] = NoOne
Take(m, a) == Free(m) /\ owner' = [owner EXCEPT ![m] = a]
Release(m) == owner' = [owner EXCEPT ![m] = NoOne]
Goto(a, label) == pc' = [pc EXCEPT ![a] = label]

\* A call ends, and its arguments and locals with it.
Forget == op' = "none" /\ wanted' = Drp /\ roleSwitch' = FALSE
Return == Goto(Binder, "idle") /\ Forget

\* Threads whose uevent socket is open.
Alive(t)   == pc[t] # "ended"
Listens(t) == pc[t] \notin {"ended", "open"}

kernel   == <<queue, partner, portType>>
wait     == <<mPartnerUp, woken, fresh, wrote>>
role     == <<op, wanted, roleSwitch>>
status   == <<seen, reported, unseen>>
life     == <<mCallback, mPoll, destroyThread, sig>>

Init ==
    /\ owner = [m \in Mutexes |-> NoOne]
    /\ pc = [a \in Actors |-> IF a = Binder THEN "idle" ELSE "ended"]
    /\ op = "none"
    /\ mCallback = FALSE
    /\ mPoll \in Threads
    /\ destroyThread = FALSE
    /\ sig = [t \in Threads |-> FALSE]
    /\ mPartnerUp = FALSE
    /\ woken = FALSE
    /\ roleSwitch = FALSE
    /\ conf = [s \in Settings |-> s = "usbData"]
    /\ seen = [a \in Actors |-> NoReport]
    /\ reported = NoReport
    /\ queue = [t \in Threads |-> <<>>]
    /\ partner \in BOOLEAN
    /\ portType = Drp
    /\ wanted = Drp
    /\ fresh = TRUE
    /\ wrote = TRUE
    /\ unseen = FALSE

-----------------------------------------------------------------------------
(* The kernel: partners come and go, and every change is a uevent to every  *)
(* open socket.  The uevent of a new partner carries "add...-partner" and   *)
(* DEVTYPE=typec_partner, any other typec or moisture uevent only the like  *)
(* of the latter, and the rest neither.                                     *)
Send(event) ==
    /\ \A t \in Threads : Listens(t) => Len(queue[t]) < MaxEvents
    /\ queue' = [t \in Threads |->
                    IF Listens(t) THEN Append(queue[t], event) ELSE queue[t]]

Unnoticed == mCallback /\ \A t \in Threads : ~ Listens(t)

PartnerComes ==
    /\ ~ partner
    /\ partner' = TRUE
    /\ fresh' = TRUE
    /\ unseen' = (unseen \/ Unnoticed)
    /\ Send("add")
    /\ UNCHANGED <<owner, pc, role, life, mPartnerUp, woken, wrote, conf, seen,
                   reported, portType>>

PartnerGoes ==
    /\ partner
    /\ partner' = FALSE
    /\ unseen' = (unseen \/ Unnoticed)
    /\ Send("typec")
    /\ UNCHANGED <<owner, pc, role, life, wait, conf, seen, reported, portType>>

OtherUevent ==
    /\ Send("other")
    /\ UNCHANGED <<owner, pc, role, life, wait, conf, status, partner, portType>>

TypecUevent ==
    /\ Send("typec")
    /\ UNCHANGED <<owner, pc, role, life, wait, conf, status, partner, portType>>

Kernel == PartnerComes \/ PartnerGoes \/ OtherUevent \/ TypecUevent

-----------------------------------------------------------------------------
(* queryVersionHelper, on either thread.  The directory of the port is read *)
(* first, the files of the partner later: it may be gone by then.           *)
\* Bug: queryVersionHelper does not take mLock.
MayQueryUnlocked == TRUE
MayQuery == Free("mLock")

QueryLock(a) ==
    /\ pc[a] = "query"
    /\ MayQuery
    /\ owner' = [owner EXCEPT !["mLock"] = a]
    /\ Goto(a, "list")
    /\ UNCHANGED <<kernel, wait, role, life, conf, status>>

ListPorts(a) ==
    /\ pc[a] = "list"
    /\ seen' = [seen EXCEPT ![a] = [@ EXCEPT !.connected = partner]]
    /\ unseen' = FALSE
    /\ Goto(a, "roles")
    /\ UNCHANGED <<owner, kernel, wait, role, life, conf, reported>>

ReadRoles(a) ==
    /\ pc[a] = "roles"
    /\ seen' = [seen EXCEPT ![a] =
                   [connected |-> @.connected, ok |-> (@.connected => partner),
                    conf |-> conf]]
    /\ Goto(a, "report")
    /\ UNCHANGED <<owner, kernel, wait, role, life, conf, reported, unseen>>

AfterQuery(a) == IF a # Binder THEN "try"
                 ELSE IF op = "queryPortStatus" THEN "notify" ELSE "idle"

Report(a) ==
    /\ pc[a] = "report"
    /\ reported' = IF mCallback THEN seen[a] ELSE reported
    /\ seen' = [seen EXCEPT ![a] = NoReport]
    /\ Release("mLock")
    /\ IF AfterQuery(a) = "idle" THEN Return
       ELSE Goto(a, AfterQuery(a)) /\ UNCHANGED role
    /\ UNCHANGED <<kernel, wait, life, conf, unseen>>

Query(a) == QueryLock(a) \/ ListPorts(a) \/ ReadRoles(a) \/ Report(a)

-----------------------------------------------------------------------------
(* The poll thread: work and uevent_event.                                  *)
End(t) ==
    /\ Goto(t, "ended")
    /\ queue' = [queue EXCEPT ![t] = <<>>]
    /\ sig' = [sig EXCEPT ![t] = FALSE]

OpenSocket(t) ==
    /\ pc[t] = "open"
    /\ Goto(t, "check")
    /\ UNCHANGED <<owner, kernel, wait, role, life, conf, status>>

\* uevent_open_socket, epoll_create, epoll_ctl or epoll_wait fails.
PollFails(t) ==
    /\ pc[t] \in {"open", "epoll"}
    /\ End(t)
    /\ unseen' = (unseen \/ mCallback)
    /\ UNCHANGED <<owner, partner, portType, wait, role, mCallback, mPoll,
                   destroyThread, conf, seen, reported>>

CheckDestroy(t) ==
    /\ pc[t] = "check"
    /\ IF destroyThread THEN End(t) ELSE Goto(t, "enter") /\ UNCHANGED <<queue, sig>>
    /\ UNCHANGED <<owner, partner, portType, wait, role, mCallback, mPoll,
                   destroyThread, conf, status>>

\* A signal between the check and epoll_wait interrupts neither.
EnterEpoll(t) ==
    /\ pc[t] = "enter"
    /\ Goto(t, "epoll")
    /\ UNCHANGED <<owner, kernel, wait, role, life, conf, status>>

ReceiveUevent(t) ==
    /\ pc[t] = "epoll"
    /\ queue[t] # <<>>
    /\ queue' = [queue EXCEPT ![t] = Tail(@)]
    /\ \/ Head(queue[t]) = "add" /\ Goto(t, "partner")
       \/ Head(queue[t]) = "typec" /\ Goto(t, "query")
       \/ Head(queue[t]) = "other" /\ Goto(t, "check")
    /\ UNCHANGED <<owner, partner, portType, wait, role, life, conf, status>>

\* Bug: the handler of "add...-partner" does not take mPartnerLock.
MaySignalUnlocked == TRUE
MaySignal == Free("mPartnerLock")

PartnerAdded(t) ==
    /\ pc[t] = "partner"
    /\ MaySignal
    /\ mPartnerUp' = TRUE
    /\ woken' = (woken \/ pc[Binder] = "wait")
    /\ Goto(t, "query")
    /\ UNCHANGED <<owner, kernel, role, life, conf, status, fresh, wrote>>

\* Bug: the result of pthread_mutex_trylock is not looked at.
RoleLockUnchecked == TRUE
RoleLockFree == Free("mRoleSwitchLock")

TryRoleLock(t) ==
    /\ pc[t] = "try"
    /\ IF RoleLockFree
       THEN owner' = [owner EXCEPT !["mRoleSwitchLock"] = t] /\ Goto(t, "drp")
       ELSE UNCHANGED owner /\ Goto(t, "check")
    /\ UNCHANGED <<kernel, wait, role, life, conf, status>>

\* switchToDrp, which may fail to write the file.
RestoreDrp(t) ==
    /\ pc[t] = "drp"
    /\ portType' \in IF partner THEN {portType} ELSE {portType, Drp}
    /\ Release("mRoleSwitchLock")
    /\ Goto(t, "check")
    /\ UNCHANGED <<queue, partner, wait, role, life, conf, status>>

\* The handler of SIGUSR1; epoll_wait returns with EINTR, a mutex does not.
SigHandler(t) ==
    /\ Alive(t)
    /\ sig[t]
    /\ sig' = [sig EXCEPT ![t] = FALSE]
    /\ destroyThread' = TRUE
    /\ Goto(t, IF pc[t] = "epoll" THEN "check" ELSE pc[t])
    /\ UNCHANGED <<owner, kernel, wait, role, mCallback, mPoll, conf, status>>

Poll(t) == \/ OpenSocket(t) \/ CheckDestroy(t) \/ EnterEpoll(t)
           \/ ReceiveUevent(t) \/ PartnerAdded(t) \/ Query(t) \/ TryRoleLock(t) \/ RestoreDrp(t)

-----------------------------------------------------------------------------
(* The binder thread: setCallback.                                          *)
SetCallback ==
    /\ pc[Binder] = "idle"
    /\ op' = "setCallback"
    /\ Goto(Binder, "setcb")
    /\ UNCHANGED <<owner, kernel, wait, wanted, roleSwitch, life, conf, status>>

\* A callback replaces another, or null replaces null.
ReplaceCallback ==
    /\ pc[Binder] = "setcb"
    /\ Free("mLock")
    /\ reported' = NoReport
    /\ Return
    /\ UNCHANGED <<owner, kernel, wait, life, conf, seen, unseen>>

RegisterCallback ==
    /\ pc[Binder] = "setcb"
    /\ Free("mLock")
    /\ ~ mCallback
    /\ reported' = NoReport
    /\ destroyThread' = FALSE
    /\ \/ \E t \in Threads :
             /\ ~ Alive(t)
             /\ mPoll' = t
             /\ pc' = [pc EXCEPT ![Binder] = "idle", ![t] = "open"]
             /\ mCallback' = TRUE
       \/ Goto(Binder, "idle") /\ UNCHANGED <<mCallback, mPoll>>
    /\ Forget
    /\ UNCHANGED <<owner, kernel, wait, sig, conf, seen, unseen>>

UnregisterCallback ==
    /\ pc[Binder] = "setcb"
    /\ mCallback
    /\ Take("mLock", Binder)
    /\ mCallback' = FALSE
    /\ reported' = NoReport
    /\ Goto(Binder, "kill")
    /\ UNCHANGED <<kernel, wait, role, mPoll, destroyThread, sig, conf, seen, unseen>>

\* pthread_kill fails if the thread has ended, and is then not followed by a
\* join.
KillPoll ==
    /\ pc[Binder] = "kill"
    /\ IF Alive(mPoll)
       THEN /\ sig' = [sig EXCEPT ![mPoll] = TRUE]
            /\ Goto(Binder, "join")
            /\ UNCHANGED <<owner, role>>
       ELSE Release("mLock") /\ Return /\ UNCHANGED sig
    /\ UNCHANGED <<kernel, wait, mCallback, mPoll, destroyThread, conf, status>>

\* Bug: the thread is not joined.
JoinReturnsAtOnce == TRUE
JoinReturns == ~ Alive(mPoll)

JoinPoll ==
    /\ pc[Binder] = "join"
    /\ JoinReturns
    /\ Release("mLock")
    /\ Return
    /\ UNCHANGED <<kernel, wait, life, conf, status>>

-----------------------------------------------------------------------------
(* The binder thread: calls that change a setting or ask for the status.    *)
Enter(call, label) ==
    /\ pc[Binder] = "idle"
    /\ op' = call
    /\ Goto(Binder, label)
    /\ UNCHANGED <<owner, kernel, wait, wanted, roleSwitch, life, status>>

\* A write that fails leaves the setting alone.
Change(s) == \E v \in BOOLEAN : conf' = [conf EXCEPT ![s] = v]

\* enableUsbData and enableContaminantPresenceDetection hold no lock here.
ChangeSetting ==
    /\ Enter("setting", "notify")
    /\ \/ \E s \in Settings \ {"limit"} : Change(s)
       \/ UNCHANGED conf          \* also enableUsbDataWhileDocked

QueryPortStatus == Enter("queryPortStatus", "query") /\ UNCHANGED conf
ResetUsbPort    == Enter("reset", "notify") /\ UNCHANGED conf
CallLimit       == "limit" \in Settings /\ Enter("setting", "limit") /\ UNCHANGED conf

\* limitPowerTransfer holds mLock from its first write to its notification.
LimitPowerTransfer ==
    /\ pc[Binder] = "limit"
    /\ Free("mLock")
    /\ Change("limit") \/ UNCHANGED conf
    /\ Goto(Binder, "query")
    /\ UNCHANGED <<owner, kernel, wait, role, life, status>>

Notify ==
    /\ pc[Binder] = "notify"
    /\ Free("mLock")
    /\ IF op = "setting" THEN Goto(Binder, "query") /\ UNCHANGED role ELSE Return
    /\ UNCHANGED <<owner, kernel, wait, life, conf, status>>

-----------------------------------------------------------------------------
(* The binder thread: switchRole, which holds mRoleSwitchLock to its end.   *)
SwitchRole ==
    /\ pc[Binder] = "idle"
    /\ \/ op' = "mode" /\ wanted' \in Modes
       \/ op' = "role" /\ UNCHANGED wanted
    /\ Goto(Binder, "role")
    /\ UNCHANGED <<owner, kernel, wait, roleSwitch, life, conf, status>>

\* Any file of the port may fail to open, be written or be read back.
RoleLock ==
    /\ pc[Binder] = "role"
    /\ Take("mRoleSwitchLock", Binder)
    /\ \/ op = "mode" /\ pc' \in {[pc EXCEPT ![Binder] = l] : l \in {"prepare", "giveup"}}
          /\ UNCHANGED roleSwitch
       \/ op = "role" /\ Goto(Binder, "told") /\ roleSwitch' \in BOOLEAN
    /\ UNCHANGED <<kernel, wait, op, wanted, life, conf, status>>

\* switchMode takes mPartnerLock before it writes the file, "to prevent
\* loosing connected signals".
Prepare ==
    /\ pc[Binder] = "prepare"
    /\ Take("mPartnerLock", Binder)
    /\ mPartnerUp' = FALSE
    /\ Goto(Binder, "put")
    /\ UNCHANGED <<kernel, role, life, conf, status, woken, fresh, wrote>>

\* fputs only fills a buffer and may fail to get one; the write is in fclose,
\* whose result is not looked at.
PutPortType ==
    /\ pc[Binder] = "put"
    /\ \/ /\ wrote' \in BOOLEAN
          /\ portType' = IF wrote' THEN wanted ELSE portType
          /\ fresh' = FALSE
          /\ Goto(Binder, "arm")
          /\ UNCHANGED owner
       \/ /\ Release("mPartnerLock")
          /\ Goto(Binder, "giveup")
          /\ UNCHANGED <<portType, fresh, wrote>>
    /\ UNCHANGED <<queue, partner, role, life, conf, status, mPartnerUp, woken>>

\* pthread_cond_timedwait: releases the mutex and blocks in one step ...
Wait ==
    /\ pc[Binder] = "arm"
    /\ Release("mPartnerLock")
    /\ Goto(Binder, "wait")
    /\ UNCHANGED <<kernel, wait, role, life, conf, status>>

\* ... until it is signalled, or for no reason, or for PORT_TYPE_TIMEOUT ...
WakeUp(label) ==
    /\ pc[Binder] = "wait"
    /\ Goto(Binder, label)
    /\ woken' = FALSE
    /\ UNCHANGED <<owner, kernel, role, life, conf, status, mPartnerUp, fresh, wrote>>

Signalled == woken /\ WakeUp("awake")
Spurious  == WakeUp("awake")
Timeout   == WakeUp("timedout")

\* ... and takes the mutex again.
Awake ==
    /\ pc[Binder] = "awake"
    /\ IF mPartnerUp
       THEN /\ Free("mPartnerLock")
            /\ roleSwitch' = TRUE
            /\ Goto(Binder, "told")
            /\ UNCHANGED owner
       ELSE /\ Take("mPartnerLock", Binder)
            /\ Goto(Binder, "arm")
            /\ UNCHANGED roleSwitch
    /\ UNCHANGED <<kernel, wait, op, wanted, life, conf, status>>

\* Bug: a timeout is taken for a spurious wake-up.
AfterTimeoutAgain == "arm"
AfterTimeout == "late"

TimedOut ==
    /\ pc[Binder] = "timedout"
    /\ Take("mPartnerLock", Binder)
    /\ Goto(Binder, AfterTimeout)
    /\ UNCHANGED <<kernel, wait, role, life, conf, status>>

Late ==
    /\ pc[Binder] = "late"
    /\ Release("mPartnerLock")
    /\ Goto(Binder, "giveup")
    /\ UNCHANGED <<kernel, wait, role, life, conf, status>>

GiveUp ==
    /\ pc[Binder] = "giveup"
    /\ portType' \in {portType, Drp}
    /\ Goto(Binder, "told")
    /\ UNCHANGED <<owner, queue, partner, wait, role, life, conf, status>>

NotifyRole ==
    /\ pc[Binder] = "told"
    /\ Free("mLock")
    /\ Release("mRoleSwitchLock")
    /\ Return
    /\ fresh' = TRUE
    /\ wrote' = TRUE
    /\ UNCHANGED <<kernel, mPartnerUp, woken, life, conf, status>>

-----------------------------------------------------------------------------
Calls == \/ SetCallback \/ ChangeSetting \/ QueryPortStatus \/ ResetUsbPort
         \/ CallLimit \/ SwitchRole

Running == \/ ReplaceCallback \/ RegisterCallback \/ UnregisterCallback
           \/ KillPoll \/ JoinPoll \/ LimitPowerTransfer \/ Notify
           \/ Query(Binder) \/ RoleLock \/ Prepare \/ PutPortType \/ Wait
           \/ Signalled \/ Awake \/ TimedOut \/ Late \/ GiveUp \/ NotifyRole

Next == \/ Kernel
        \/ \E t \in Threads : Poll(t) \/ PollFails(t) \/ SigHandler(t)
        \/ Calls \/ Running \/ Spurious \/ Timeout

Spec == Init /\ [][Next]_vars

(* Each thread runs on, gets a mutex that is free again and again (hence    *)
(* SF), and a pending signal is delivered.  A wait times out unless it is   *)
(* woken first each time; SF says it is not.  Neither the kernel nor the    *)
(* framework need ever do anything.                                         *)
Fairness == /\ \A t \in Threads : SF_vars(Poll(t)) /\ WF_vars(SigHandler(t))
            /\ SF_vars(Running)
            /\ SF_vars(Timeout)

FairSpec == Spec /\ Fairness

(* The same with uevents that never cease, as those of the battery do.      *)
BusySpec == FairSpec /\ WF_vars(OtherUevent)

-----------------------------------------------------------------------------
(* Properties.                                                              *)

Labels == {"idle", "setcb", "kill", "join", "limit", "notify", "query", "list",
           "roles", "report", "role", "prepare", "put", "arm", "wait", "awake",
           "timedout", "late", "giveup", "told", "ended", "open", "check",
           "enter", "epoll", "partner", "try", "drp"}

\* Every variable has its type.
TypeOK ==
    /\ owner \in [Mutexes -> Actors \cup {NoOne}]
    /\ pc \in [Actors -> Labels]
    /\ op \in Ops
    /\ mCallback \in BOOLEAN
    /\ mPoll \in Threads
    /\ destroyThread \in BOOLEAN
    /\ sig \in [Threads -> BOOLEAN]
    /\ mPartnerUp \in BOOLEAN
    /\ woken \in BOOLEAN
    /\ roleSwitch \in BOOLEAN
    /\ conf \in [Settings -> BOOLEAN]
    /\ seen \in [Actors -> Statuses]
    /\ reported \in Statuses
    /\ queue \in [Threads -> Seq({"add", "typec", "other"})]
    /\ partner \in BOOLEAN
    /\ portType \in PortTypes
    /\ wanted \in PortTypes
    /\ fresh \in BOOLEAN
    /\ wrote \in BOOLEAN
    /\ unseen \in BOOLEAN

\* A mode switch that is reported as a success still has the port type it
\* wrote: the poll thread never restores dual role under it.
SuccessKeepsType ==
    pc[Binder] = "told" /\ op = "mode" /\ roleSwitch /\ wrote => portType = wanted

\* No signal of a partner is lost: a binder thread that is still asleep has not
\* missed a partner the poll thread has seen since the file was written.
NoLostSignal == pc[Binder] = "wait" /\ mPartnerUp => woken

\* setCallback never has two poll threads handle uevents side by side.
OnePollThread == Cardinality({t \in Threads : Alive(t)}) <= 1

\* Once all uevents are handled and no call runs, what the callback was told
\* last is the state of the port and of the settings, whichever of the two
\* threads told it, unless the change fell where no socket was open.
Quiet == /\ pc[Binder] = "idle"
         /\ \A t \in Threads : queue[t] = <<>> /\ pc[t] \in {"ended", "check", "enter", "epoll"}
StatusFresh ==
    Quiet /\ reported # NoReport /\ ~ unseen =>
        reported = [connected |-> partner, ok |-> TRUE, conf |-> conf]

\* Every call of switchRole comes to its end, whatever the partner does.
RoleSwitching == pc[Binder] \in {"role", "prepare", "put", "arm", "wait",
                                 "awake", "timedout", "late", "giveup", "told"}
RoleSwitchEnds == RoleSwitching ~> pc[Binder] = "idle"

\* "Set by the signal handler to destroy the thread": once it is set, the
\* thread ends.
DestroyEndsThread ==
    \A t \in Threads : Alive(t) /\ destroyThread ~> ~ Alive(t)

\* "Variable to signal partner coming back online after type switch": while
\* switchMode waits, it is set only if a partner came online since the write.
PartnerUpIsNew == pc[Binder] \in {"arm", "wait", "awake"} /\ mPartnerUp => fresh

-----------------------------------------------------------------------------
(* The inductive invariant, whose proof is in UsbHalProofs.                 *)

\* Where each thread holds each mutex.
HoldsRole == {"prepare", "put", "arm", "wait", "awake", "timedout", "late",
              "giveup", "told"}
LockInv ==
    /\ owner["mRoleSwitchLock"] = Binder <=> pc[Binder] \in HoldsRole
    /\ \A t \in Threads : owner["mRoleSwitchLock"] = t <=> pc[t] = "drp"
    /\ owner["mPartnerLock"] = Binder <=> pc[Binder] \in {"put", "arm", "late"}
    /\ owner["mPartnerLock"] \notin Threads
    /\ owner["mLock"] = Binder <=>
          pc[Binder] \in {"list", "roles", "report", "kill", "join"}
    /\ \A t \in Threads : owner["mLock"] = t <=> pc[t] \in {"list", "roles", "report"}

\* A thread that has not ended is the registered one or is being ended.
LifeInv ==
    /\ \A t \in Threads :
          Alive(t) => t = mPoll /\ (mCallback \/ pc[Binder] \in {"kill", "join"})
    /\ pc[Binder] \in {"kill", "join"} => ~ mCallback

\* The type that was written stays, and only an answer makes a success.
RoleInv ==
    /\ roleSwitch => pc[Binder] = "told"
    /\ pc[Binder] \in {"arm", "wait", "awake", "timedout", "late"} /\ wrote =>
          portType = wanted
    /\ SuccessKeepsType

\* While switchMode holds mPartnerLock before it waits, nobody has answered.
PartnerInv ==
    /\ pc[Binder] \in {"put", "arm"} => ~ mPartnerUp
    /\ NoLostSignal

IInv == TypeOK /\ LockInv /\ LifeInv /\ RoleInv /\ PartnerInv

\* A pending signal is for the thread that is being joined, and no registered
\* thread is told to end.
SignalInv ==
    /\ \A t \in Threads : sig[t] => Alive(t) /\ pc[Binder] = "join"
    /\ mCallback => ~ destroyThread

\* Somebody will still list the ports, or read the settings, from the start.
Looks(a) == pc[a] \in {"partner", "query", "list"}
Pending == \/ \E a \in Actors : Looks(a)
           \/ \E t \in Threads : \E i \in DOMAIN queue[t] : queue[t][i] # "other"
           \/ pc[Binder] = "notify" /\ op = "setting"

\* Whatever was read or told is right, or will be told anew: first of the
\* connector alone, then of the whole status, then of what was reported.
Now == [connected |-> partner, ok |-> TRUE, conf |-> conf]
StatusInv ==
    /\ ~ mCallback => reported = NoReport
    /\ mCallback /\ ~ unseen /\ ~ Pending =>
          \A a \in Actors :
             /\ pc[a] = "roles" => seen[a].connected = partner
             /\ pc[a] = "report" => seen[a] = Now
    /\ ~ unseen /\ ~ Pending /\ reported # NoReport =>
          \/ reported = Now
          \/ \E a \in Actors : pc[a] \in {"roles", "report"}

FreshInv == SignalInv /\ StatusInv
=============================================================================
