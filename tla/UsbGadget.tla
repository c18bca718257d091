------------------------------ MODULE UsbGadget ------------------------------
(***************************************************************************)
(* The USB gadget HAL of usb/gadget/UsbGadget.cpp: its binder threads run  *)
(* setCurrentUsbFunctions under mLockSetCurrentFunction and reset without  *)
(* it; the FunctionFS monitor of libpixelusb, a thread of its own, pulls   *)
(* the gadget up once the daemons of its functions are there, and calls    *)
(* back.                                                                   *)
(*                                                                         *)
(* getCurrentUsbFunctions reads mCurrentUsbFunctions (functions) and       *)
(* mCurrentUsbFunctionsApplied (applied) and changes nothing.              *)
(***************************************************************************)
EXTENDS Naturals, Sequences, FiniteSets, Functions

CONSTANTS
    Threads,   \* the threads of the binder pool (service_gadget.cpp: two)
    NoOne,     \* owner of the free mutex
    Requests,  \* the sets of functions that are asked for
    Vendors    \* what getVendorFunctions may return, a list of functions

GadgetFunctions == {"adb", "mtp", "rndis", "ptp", "midi", "accessory", "audio"}
VendorFunctions ==
    {"diag", "diag_mdm", "qdss", "qdss_mdm", "serial_cdev", "dpl_gsi", "rmnet_gsi"}
NONE == {}

ASSUME UsbGadgetAssumption ==
    /\ NoOne \notin Threads
    /\ Requests \subseteq SUBSET GadgetFunctions
    /\ Vendors \subseteq Seq(VendorFunctions \cup {"user"})

VARIABLES
    lock,        \* who holds mLockSetCurrentFunction
    pc,          \* where each thread is
    arg,         \* arg[t]: the functions t was asked for
    hasCallback, \* hasCallback[t]: with a callback for the answer
    status,      \* status[t]: the answer t is going to give
    functions,   \* mCurrentUsbFunctions
    applied,     \* mCurrentUsbFunctionsApplied
    links,       \* in configfs: the functions of the configuration
    product,     \* in configfs: the product id
    host,        \* in the kernel: the functions bound at pull-up, if any
    ready,       \* FunctionFS daemons that have written their descriptors
    monitor,     \* the monitor thread
    watched,     \* the daemons the monitor is to wait for
    gone,        \* a watched daemon stopped and the monitor has not seen it
    saw,         \* history: what the host was shown last since a request began
    answered,    \* history: the last answer to setCurrentUsbFunctions
    disturbed    \* history: reset touched the gadget since that call began

gadget  == <<links, product>>
kernel  == <<host, saw>>
members == <<functions, applied>>
ffs     == <<ready, gone>>
mon     == <<monitor, watched>>
call    == <<arg, hasCallback, status>>
history == <<answered, disturbed>>
vars    == <<lock, pc, call, members, gadget, kernel, ffs, mon, history>>

NoProduct == "none"
Nothing   == [product |-> NoProduct, links |-> {}]
Success   == "SUCCESS"

Init ==
    /\ lock = NoOne
    /\ pc = [t \in Threads |-> "idle"]
    /\ arg = [t \in Threads |-> NONE]
    /\ hasCallback = [t \in Threads |-> FALSE]
    /\ status = [t \in Threads |-> Success]
    /\ functions \in Requests      \* the constructor leaves both members
    /\ applied \in BOOLEAN         \* uninitialized
    /\ links = {}
    /\ product = NoProduct
    /\ host = {}
    /\ ready = {}
    /\ monitor = "off"
    /\ watched = {}
    /\ gone = FALSE
    /\ saw = Nothing
    /\ answered = "none"
    /\ disturbed = FALSE

-----------------------------------------------------------------------------
(* The table of validateAndSetVidPid.  Functions of an accessory take any   *)
(* vendor functions (those it does not know are logged only).               *)
Accessory == {
    <<{"accessory"},          "2d00">>, <<{"adb", "accessory"},          "2d01">>,
    <<{"audio"},              "2d02">>, <<{"adb", "audio"},              "2d03">>,
    <<{"accessory", "audio"}, "2d04">>, <<{"adb", "accessory", "audio"}, "2d05">>}

Retail == {
    <<{"mtp"},   "4ee1">>, <<{"adb", "mtp"},   "4ee2">>,
    <<{"rndis"}, "4ee3">>, <<{"adb", "rndis"}, "4ee4">>,
    <<{"ptp"},   "4ee5">>, <<{"adb", "ptp"},   "4ee6">>,
    <<{"adb"},   "4ee7">>,
    <<{"midi"},  "4ee8">>, <<{"adb", "midi"},  "4ee9">>}

Modem == <<"diag", "diag_mdm", "qdss", "qdss_mdm", "serial_cdev", "dpl_gsi">>
Debug == {
    <<{"mtp"},          <<"diag">>,                "901B">>,
    <<{"adb", "mtp"},   <<"diag">>,                "903A">>,
    <<{"rndis"},        <<"diag">>,                "902C">>,
    <<{"rndis"},        <<"serial_cdev", "diag">>, "90B5">>,
    <<{"rndis"},        Modem,                     "90E6">>,
    <<{"adb", "rndis"}, <<"diag">>,                "902D">>,
    <<{"adb", "rndis"}, <<"serial_cdev", "diag">>, "90B6">>,
    <<{"adb", "rndis"}, Modem,                     "90E7">>,
    <<{"adb"}, <<"diag">>,                                     "901D">>,
    <<{"adb"}, <<"diag", "serial_cdev", "rmnet_gsi">>,         "9091">>,
    <<{"adb"}, <<"diag", "serial_cdev">>,                      "901F">>,
    <<{"adb"}, <<"diag", "serial_cdev", "rmnet_gsi", "dpl_gsi", "qdss">>, "90DB">>,
    <<{"adb"}, <<"diag", "diag_mdm", "qdss", "qdss_mdm", "serial_cdev",
                 "dpl_gsi", "rmnet_gsi">>,                     "90E5">>}

\* The product ids for functions f where the vendor functions are v: one or,
\* where the combination is not supported, none.
Products(f, v) ==
    {e[3] : e \in {d \in Debug : d[1] = f /\ d[2] = v}}
    \cup {e[2] : e \in {r \in Retail : r[1] = f /\ v \in {<<>>, <<"user">>}}}
    \cup {e[2] : e \in {a \in Accessory : a[1] = f}}

-----------------------------------------------------------------------------
(* The kernel and libpixelusb, external.  A gadget binds what is linked, if *)
(* nothing is bound, something is linked and the daemons are there.         *)
Ffs == {"adb", "mtp", "ptp"}

Bindable == host = {} /\ links # {} /\ links \cap Ffs \subseteq ready
Bind == /\ Bindable
        /\ host' = links
        /\ saw' = [product |-> product, links |-> links]
Unbind == host' = {} /\ UNCHANGED saw

\* A daemon (adbd, the MTP service) opens its function or closes it, and with
\* it the gadget is unbound.
DaemonStarts(f) ==
    /\ f \notin ready
    /\ ready' = ready \cup {f}
    /\ UNCHANGED <<lock, pc, call, members, gadget, kernel, gone, mon, history>>

DaemonStops(f) ==
    /\ f \in ready
    /\ ready' = ready \ {f}
    /\ gone' = (gone \/ (monitor # "off" /\ f \in watched))
    /\ host' = IF f \in host THEN {} ELSE host
    /\ UNCHANGED <<lock, pc, call, members, gadget, saw, mon, history>>

\* The monitor thread: off, down (waiting), pulled (up, callback to come), up,
\* dropped (a daemon is gone, callback to come).
MonitorStep(from, to) ==
    /\ monitor = from
    /\ monitor' = to
    /\ UNCHANGED <<lock, pc, call, functions, gadget, watched, ready, history>>

MonitorPullsUp ==
    /\ MonitorStep("down", "pulled")
    /\ watched \subseteq ready
    /\ Bind
    /\ gone' = FALSE
    /\ UNCHANGED applied

MonitorDrops ==
    /\ MonitorStep("up", "dropped")
    /\ gone
    /\ gone' = FALSE
    /\ UNCHANGED <<applied, kernel>>

-----------------------------------------------------------------------------
(* The callback of the monitor, which takes no lock.                        *)
\* Bug: the callback takes mLockSetCurrentFunction.
MayCallBackLocked == lock = NoOne
MayCallBack == TRUE
\* Bug: the callback drops what it is told.
AppliedAnyway(functionsApplied) == TRUE
Applied(functionsApplied) == functionsApplied

currentFunctionsAppliedCallback(functionsApplied) ==
    /\ MayCallBack
    /\ applied' = Applied(functionsApplied)
    /\ UNCHANGED <<kernel, gone>>

CallbackTrue  == MonitorStep("pulled", "up") /\ currentFunctionsAppliedCallback(TRUE)
CallbackFalse == MonitorStep("dropped", "down") /\ currentFunctionsAppliedCallback(FALSE)

-----------------------------------------------------------------------------
(* setCurrentUsbFunctions.  The labels of pc:                               *)
(*   idle     no call                  down, unlink  resetGadget            *)
(*   stop     the monitor is stopped   sleep     the gadget is left down    *)
(*   generic, vendor, adb  functions are linked   up   the pull-up          *)
(*   monitor  the monitor is started   await     waitForPullUp              *)
(*   answer   the callback is called   pullUp    second half of reset       *)
At(t, label)   == pc[t] = label
Goto(t, label) == pc' = [pc EXCEPT ![t] = label]
Conclude(t, s) == /\ Goto(t, "answer")
                  /\ status' = [status EXCEPT ![t] = s]
                  /\ UNCHANGED <<arg, hasCallback>>
Proceed(t, label) == Goto(t, label) /\ UNCHANGED call

\* A call returns, its arguments and locals are gone.
Return(t) ==
    /\ Goto(t, "idle")
    /\ arg' = [arg EXCEPT ![t] = NONE]
    /\ hasCallback' = [hasCallback EXCEPT ![t] = FALSE]
    /\ status' = [status EXCEPT ![t] = Success]
    /\ lock' = NoOne

\* Bug: setCurrentUsbFunctions does not take the lock.
MayEnterUnlocked == TRUE
MayEnter == lock = NoOne

SetCurrentUsbFunctions(t) ==
    /\ At(t, "idle")
    /\ MayEnter
    /\ lock' = t
    /\ Goto(t, "down")
    /\ arg' \in {[arg EXCEPT ![t] = f] : f \in Requests}
    /\ hasCallback' \in {[hasCallback EXCEPT ![t] = c] : c \in BOOLEAN}
    /\ functions' = arg'[t]
    /\ applied' = FALSE
    /\ saw' = Nothing
    /\ answered' = "none"
    /\ disturbed' = FALSE
    /\ UNCHANGED <<status, gadget, host, ffs, mon>>

\* tearDownGadget: resetGadget pulls down and unlinks, or fails half way.
PullDown(t) ==
    /\ At(t, "down")
    /\ Unbind
    /\ Proceed(t, "unlink")
    /\ UNCHANGED <<lock, members, gadget, ffs, mon, history>>

\* Bug: the status of tearDownGadget is not looked at.
AfterTearDownErrorIgnored(t) == Proceed(t, "sleep")
AfterTearDownError(t) == Conclude(t, "ERROR")

\* The kernel unbinds the gadget when a function is unlinked.
Unlink(t) ==
    /\ At(t, "unlink")
    /\ \/ links' = {} /\ Unbind /\ Proceed(t, "stop")
       \/ UNCHANGED <<links, kernel>> /\ AfterTearDownError(t)
    /\ UNCHANGED <<lock, members, product, ffs, mon, history>>

\* Bug: the monitor is left running.
MonitorRunningUnchecked == FALSE
MonitorRunning == monitor # "off"

\* monitorFfs.reset joins the monitor, which finishes a callback first.
StopMonitor(t) ==
    /\ At(t, "stop")
    /\ \/ /\ MonitorRunning
          /\ monitor \in {"down", "up"}
          /\ monitor' = "off"
          /\ watched' = {}
          /\ gone' = FALSE
       \/ ~ MonitorRunning /\ UNCHANGED <<mon, gone>>
    /\ Proceed(t, "sleep")
    /\ UNCHANGED <<lock, members, gadget, kernel, ready, history>>

AnswerNone(t) ==
    /\ At(t, "sleep")
    /\ arg[t] = NONE
    /\ Conclude(t, Success)
    /\ UNCHANGED <<lock, members, gadget, kernel, ffs, mon, history>>

\* The vendor functions are read here and again by LinkVendor.
Validate(t) ==
    /\ At(t, "sleep")
    /\ arg[t] # NONE
    /\ \/ \E v \in Vendors : \E p \in Products(arg[t], v) :
             product' = p /\ Proceed(t, "generic")
       \/ /\ \E v \in Vendors : Products(arg[t], v) = {}
          /\ Conclude(t, "CONFIGURATION_NOT_SUPPORTED")
          /\ UNCHANGED product
       \/ Conclude(t, "ERROR") /\ UNCHANGED product
    /\ UNCHANGED <<lock, members, links, kernel, ffs, mon, history>>

\* setupFunctions.  What was linked before an error stays linked, and its
\* daemons stay watched.
Link(fs) == links' = links \cup fs /\ watched' = watched \cup (fs \cap Ffs)

LinkGeneric(t) ==
    /\ At(t, "generic")
    /\ \/ Link(arg[t] \ {"adb"}) /\ Proceed(t, "vendor")
       \/ (\E fs \in SUBSET (arg[t] \ {"adb"}) : Link(fs)) /\ Conclude(t, "ERROR")
    /\ UNCHANGED <<lock, members, product, kernel, ffs, monitor, history>>

\* Bug: whatever the list names is taken for a function.
VendorLinksAll(v) == Range(v)
VendorLinks(v) == Range(v) \cap VendorFunctions

LinkVendor(t) ==
    /\ At(t, "vendor")
    /\ \E v \in Vendors :
          \/ /\ Link(VendorLinks(v))
             /\ Proceed(t, IF "adb" \in arg[t] THEN "adb" ELSE "up")
          \/ /\ \E n \in 0..(Len(v) - 1) : Link(VendorLinks(SubSeq(v, 1, n)))
             /\ Conclude(t, "ERROR")
    /\ UNCHANGED <<lock, members, product, kernel, ffs, monitor, history>>

LinkAdb(t) ==
    /\ At(t, "adb")
    /\ \/ Link({"adb"}) /\ Proceed(t, "up")
       \/ UNCHANGED <<links, watched>> /\ Conclude(t, "ERROR")
    /\ UNCHANGED <<lock, members, product, kernel, ffs, monitor, history>>

FfsEnabled(t) == arg[t] \cap Ffs # {}

PullUp(t) ==
    /\ At(t, "up")
    /\ ~ FfsEnabled(t)
    /\ \/ Bind /\ applied' = TRUE /\ Conclude(t, Success)
       \/ UNCHANGED <<kernel, applied>> /\ Conclude(t, "ERROR")
    /\ UNCHANGED <<lock, functions, gadget, ffs, mon, history>>

StartMonitor(t) ==
    /\ At(t, "up")
    /\ FfsEnabled(t)
    /\ monitor' = "down"
    /\ gone' = FALSE
    /\ IF hasCallback[t] THEN Proceed(t, "await") /\ UNCHANGED lock ELSE Return(t)
    /\ UNCHANGED <<members, gadget, kernel, ready, watched, history>>

\* waitForPullUp returns whether the monitor has pulled up, at once or after
\* the timeout.
Await(t) ==
    /\ At(t, "await")
    /\ \/ monitor \in {"pulled", "up", "dropped"} /\ Conclude(t, Success)
       \/ monitor # "up" /\ Conclude(t, "ERROR")
    /\ UNCHANGED <<lock, members, gadget, kernel, ffs, mon, history>>

Answer(t) ==
    /\ At(t, "answer")
    /\ answered' = IF hasCallback[t] THEN status[t] ELSE "none"
    /\ Return(t)
    /\ saw' = Nothing
    /\ UNCHANGED <<members, gadget, host, ffs, mon, disturbed>>

\* reset, which holds no lock: the gadget is pulled down, where it is up, and
\* after a while pulled up again, where that can be done.
ResetDown(t) ==
    /\ At(t, "idle")
    /\ host # {}
    /\ Unbind
    /\ Proceed(t, "pullUp")
    /\ disturbed' = TRUE
    /\ UNCHANGED <<lock, members, gadget, ffs, mon, answered>>

ResetUp(t) ==
    /\ At(t, "pullUp")
    /\ \/ Bind /\ disturbed' = TRUE
       \/ UNCHANGED <<kernel, disturbed>>
    /\ Proceed(t, "idle")
    /\ UNCHANGED <<lock, members, gadget, ffs, mon, answered>>

-----------------------------------------------------------------------------
Set(t) == \/ PullDown(t) \/ Unlink(t) \/ StopMonitor(t) \/ AnswerNone(t)
          \/ Validate(t) \/ LinkGeneric(t) \/ LinkVendor(t) \/ LinkAdb(t)
          \/ PullUp(t) \/ StartMonitor(t) \/ Await(t) \/ Answer(t)
Call(t) == SetCurrentUsbFunctions(t) \/ Set(t) \/ ResetDown(t) \/ ResetUp(t)
Monitor == MonitorPullsUp \/ MonitorDrops \/ CallbackTrue \/ CallbackFalse
Daemons == \E f \in Ffs \cap UNION Requests : DaemonStarts(f) \/ DaemonStops(f)

Next == (\E t \in Threads : Call(t)) \/ Monitor \/ Daemons

Spec == Init /\ [][Next]_vars

\* A call that has the lock runs on, and the monitor makes its callbacks.
FairSpec == /\ Spec
            /\ \A t \in Threads : WF_vars(Set(t))
            /\ WF_vars(CallbackTrue)
            /\ WF_vars(CallbackFalse)

-----------------------------------------------------------------------------
Labels == {"idle", "down", "unlink", "stop", "sleep", "generic", "vendor", "adb",
           "up", "await", "answer", "pullUp"}
Answers == {Success, "ERROR", "CONFIGURATION_NOT_SUPPORTED"}
ProductIds == {NoProduct} \cup (UNION {Products(f, v) : f \in Requests, v \in Vendors})
Linkable   == GadgetFunctions \cup VendorFunctions

\* Every variable has its type.
TypeOK ==
    /\ lock \in Threads \cup {NoOne}
    /\ pc \in [Threads -> Labels]
    /\ arg \in [Threads -> Requests \cup {NONE}]
    /\ hasCallback \in [Threads -> BOOLEAN]
    /\ status \in [Threads -> Answers]
    /\ functions \in Requests
    /\ applied \in BOOLEAN
    /\ links \subseteq Linkable
    /\ product \in ProductIds
    /\ host \subseteq Linkable
    /\ ready \subseteq Ffs
    /\ monitor \in {"off", "down", "pulled", "up", "dropped"}
    /\ watched \subseteq Ffs
    /\ gone \in BOOLEAN
    /\ saw \in [product : ProductIds, links : SUBSET Linkable]
    /\ answered \in Answers \cup {"none"}
    /\ disturbed \in BOOLEAN

\* A request that is answered with SUCCESS has shown the host exactly the
\* functions asked for (and vendor functions), under a product id that stands
\* for them and for no others, whatever reset did meanwhile.
Shown(f) == /\ saw.links \cap GadgetFunctions = f
            /\ \A g \in Requests :
                  (\E v \in Vendors : saw.product \in Products(g, v)) <=> g = f
SuccessIsSeen ==
    \A t \in Threads :
        At(t, "answer") /\ status[t] = Success /\ arg[t] # NONE => Shown(arg[t])

\* "Leave the gadget pulled down to give time for the host to sense
\* disconnect": from there until all functions are linked nothing pulls the
\* gadget up, unless reset interferes.
LeftDown == \A t \in Threads :
    pc[t] \in {"sleep", "generic", "vendor", "adb", "up"} => host = {}
HalfLinkedUnseen == ~ disturbed => LeftDown

\* Once NONE was set, nothing is bound, and neither the monitor nor reset can
\* bind anything, until the next request.
NoneStaysDown ==
    lock = NoOne /\ functions = NONE /\ answered = Success =>
        host = {} /\ links = {} /\ monitor = "off"

\* After a request that was answered with SUCCESS, functions are reported as
\* applied exactly while the host sees them, once the monitor has made its
\* callbacks, however often the daemons stop and start again; unless the
\* monitor still watches a daemon of an earlier request that failed.
Settled == /\ lock = NoOne
           /\ monitor \notin {"pulled", "dropped"}
           /\ ~ gone
           /\ watched \subseteq links
AppliedIsTrue ==
    Settled /\ ~ disturbed /\ answered = Success /\ functions # NONE =>
        (applied <=> host # {})

\* A request does not keep the lock for ever, though it joins a monitor that
\* calls back and waits for daemons that may never start.
SetEnds == \A t \in Threads : lock = t ~> lock # t

\* "Makes sure that only one request is processed at a time": no request pulls
\* the gadget up while another one has it down to link its functions.
OneRequestAtATime == LeftDown

-----------------------------------------------------------------------------
(* The inductive invariant, whose proof is in UsbGadgetProofs.              *)
LockInv == \A t \in Threads : lock = t <=> pc[t] \notin {"idle", "pullUp"}

\* The members are those of the request that has the lock.
ArgInv == \A t \in Threads :
    /\ lock = t => functions = arg[t] /\ answered = "none"
    /\ pc[t] \in {"generic", "vendor", "adb", "up", "await"} => arg[t] # NONE

\* What is linked, and under which product id, at each label.
LinkInv ==
    /\ links \cap Ffs \subseteq watched
    /\ \A t \in Threads :
          /\ pc[t] \in {"stop", "sleep", "generic"} => links = {}
          /\ pc[t] \in {"vendor", "adb"} =>
                links \cap GadgetFunctions = arg[t] \ {"adb"}
          /\ pc[t] = "adb" => "adb" \in arg[t]
          /\ pc[t] \in {"up", "await"} => links \cap GadgetFunctions = arg[t]
          /\ pc[t] \in {"generic", "vendor", "adb", "up", "await"} =>
                \E v \in Vendors : product \in Products(arg[t], v)

\* While functions are linked there is no monitor, and reset alone can bind.
DownInv == \A t \in Threads :
    /\ pc[t] \in {"sleep", "generic", "vendor", "adb", "up"} => monitor = "off"
    /\ pc[t] \in {"stop", "sleep", "generic"} => host = {}
    /\ pc[t] \in {"vendor", "adb", "up"} /\ ~ disturbed => host = {}

ShownInv ==
    /\ \A t \in Threads :
          (\/ pc[t] = "await" /\ monitor \in {"pulled", "up", "dropped"}
           \/ pc[t] = "answer" /\ status[t] = Success /\ arg[t] # NONE) =>
              saw = [product |-> product, links |-> links]
    /\ SuccessIsSeen

NoneInv ==
    /\ \A t \in Threads : pc[t] = "answer" /\ status[t] = Success /\ arg[t] = NONE =>
          host = {} /\ links = {} /\ monitor = "off"
    /\ NoneStaysDown

\* What the monitor's state says of the gadget, and with it of the report.
Bound == /\ monitor \in {"down", "dropped"} => host = {}
         /\ monitor \in {"pulled", "up"} => host = IF gone THEN {} ELSE links
Reports == /\ monitor = "down" => ~ applied
           /\ monitor = "up" => applied
Undisturbed == ~ disturbed /\ watched \subseteq links
Succeeded == \/ lock = NoOne /\ answered = Success /\ functions # NONE
             \/ \E t \in Threads :
                   pc[t] = "answer" /\ status[t] = Success /\ arg[t] # NONE
AppliedInv ==
    /\ \A t \in Threads : pc[t] = "await" =>
          /\ links # {}
          /\ monitor # "off"
          /\ Undisturbed => Bound /\ (monitor = "up" => applied)
    /\ Succeeded /\ Undisturbed =>
          /\ links # {}
          /\ IF monitor = "off" THEN applied /\ host = links /\ links \cap Ffs = {}
             ELSE Bound /\ Reports

IInv == /\ TypeOK /\ LockInv /\ ArgInv /\ LinkInv
        /\ DownInv /\ ShownInv /\ NoneInv /\ AppliedInv
=============================================================================
