--------------------------- MODULE UsbGadgetProofs ---------------------------
(***************************************************************************)
(* The safety of the USB gadget HAL for any threads, requests and vendor   *)
(* functions: IInv of UsbGadget is inductive.  Each action has a lemma     *)
(* with one step per part of IInv.                                         *)
(***************************************************************************)
EXTENDS UsbGadget, TLAPS

USE DEF At, Goto, gadget, kernel, members, ffs, mon, call, history

-----------------------------------------------------------------------------
(* The table of product ids: no id stands for two sets of functions.        *)

\* Each table has an id once, and no id is in two tables.
LEMMA DebugIds == \A d, e \in Debug : d[3] = e[3] => d[1] = e[1]
  BY DEF Debug, Modem
LEMMA RetailIds == \A d, e \in Retail : d[2] = e[2] => d[1] = e[1]
  BY DEF Retail
LEMMA AccessoryIds == \A d, e \in Accessory : d[2] = e[2] => d[1] = e[1]
  BY DEF Accessory
LEMMA DebugRetail == \A d \in Debug, e \in Retail : d[3] # e[2]
  BY DEF Debug, Retail, Modem
LEMMA DebugAccessory == \A d \in Debug, e \in Accessory : d[3] # e[2]
  BY DEF Debug, Accessory, Modem
LEMMA RetailAccessory == \A d \in Retail, e \in Accessory : d[2] # e[2]
  BY DEF Accessory, Retail

\* Two requests never share a product id, whatever the vendor functions are.
LEMMA IdsDiffer ==
    ASSUME NEW f, NEW g, NEW v, NEW w, NEW p \in Products(f, v), p \in Products(g, w)
    PROVE  f = g
  BY DebugIds, RetailIds, AccessoryIds, DebugRetail, DebugAccessory, RetailAccessory
     DEF Products

-----------------------------------------------------------------------------
(* Types.                                                                   *)
\* What the host was shown at first has its type.
LEMMA NothingShown ==
    /\ NoProduct \in ProductIds
    /\ Nothing \in [product : ProductIds, links : SUBSET Linkable]
<1>1. NoProduct \in ProductIds
  BY DEF ProductIds
<1>2. {} \in SUBSET Linkable
  OBVIOUS
<1> QED
  BY <1>1, <1>2 DEF Nothing

\* Functions and vendor functions can be linked and are told apart.
LEMMA FunctionsLinkable ==
    /\ GadgetFunctions \subseteq Linkable
    /\ VendorFunctions \subseteq Linkable
    /\ "adb" \in GadgetFunctions
    /\ VendorFunctions \cap GadgetFunctions = {}
    /\ Ffs \subseteq GadgetFunctions
    /\ \A f \in Requests \cup {NONE} : f \subseteq GadgetFunctions
  BY UsbGadgetAssumption DEF Linkable, GadgetFunctions, VendorFunctions, Ffs, NONE

\* The ids of a request are product ids.
LEMMA ProductsTyped ==
    ASSUME NEW f \in Requests, NEW v \in Vendors
    PROVE  Products(f, v) \subseteq ProductIds
  BY DEF ProductIds

\* Once all is linked, the product id stands for the functions of the request.
LEMMA ProductTells ==
    ASSUME IInv, NEW t \in Threads, pc[t] \in {"up", "await"}
    PROVE  /\ links \cap GadgetFunctions = arg[t]
           /\ \A g \in Requests :
                 (\E v \in Vendors : product \in Products(g, v)) <=> g = arg[t]
<1>1. PICK v \in Vendors : product \in Products(arg[t], v)
  BY DEF IInv, LinkInv
<1> QED
  BY <1>1, IdsDiffer DEF IInv, LinkInv

-----------------------------------------------------------------------------
(* Every action preserves the invariant.                                    *)
\* A request takes the free lock: every other thread is outside.
LEMMA SetCurrentUsbFunctionsStep ==
    ASSUME IInv, NEW t \in Threads, SetCurrentUsbFunctions(t)
    PROVE  IInv'
<1>1. TypeOK'
  <2>1. PICK f \in Requests : arg' = [arg EXCEPT ![t] = f]
    BY DEF SetCurrentUsbFunctions
  <2>2. PICK c \in BOOLEAN : hasCallback' = [hasCallback EXCEPT ![t] = c]
    BY DEF SetCurrentUsbFunctions
  <2>3. functions' = f
    BY <2>1 DEF SetCurrentUsbFunctions, IInv, TypeOK
  <2> QED
    BY <2>1, <2>2, <2>3, NothingShown
       DEF IInv, TypeOK, Answers, Labels, SetCurrentUsbFunctions
<1>2. LockInv'
  BY UsbGadgetAssumption DEF IInv, TypeOK, LockInv, SetCurrentUsbFunctions,
     MayEnter
<1>3. ArgInv'
  BY UsbGadgetAssumption DEF IInv, TypeOK, LockInv, ArgInv,
     SetCurrentUsbFunctions, MayEnter
<1>4. LinkInv'
  BY UsbGadgetAssumption DEF IInv, TypeOK, LockInv, ArgInv, LinkInv, Ffs,
     GadgetFunctions, SetCurrentUsbFunctions, MayEnter
<1>5. DownInv'
  BY UsbGadgetAssumption DEF IInv, TypeOK, LockInv, LinkInv, DownInv,
     SetCurrentUsbFunctions, MayEnter
<1>6. ShownInv'
  BY UsbGadgetAssumption DEF IInv, TypeOK, LockInv, LinkInv, ShownInv,
     SuccessIsSeen, Shown, Success, Nothing, SetCurrentUsbFunctions, MayEnter
<1>7. NoneInv'
  BY UsbGadgetAssumption DEF IInv, TypeOK, LockInv, ArgInv, LinkInv,
     DownInv, NoneInv, NoneStaysDown, Success, SetCurrentUsbFunctions, MayEnter
<1>8. AppliedInv'
  BY UsbGadgetAssumption DEF IInv, TypeOK, LockInv, ArgInv, LinkInv,
     DownInv, AppliedInv, Succeeded, Undisturbed, Bound, Reports, Success,
     SetCurrentUsbFunctions, MayEnter
<1> QED
  BY <1>1, <1>2, <1>3, <1>4, <1>5, <1>6, <1>7, <1>8 DEF IInv

\* The gadget is pulled down.
LEMMA PullDownStep ==
    ASSUME IInv, NEW t \in Threads, PullDown(t)
    PROVE  IInv'
<1>1. TypeOK'
  BY DEF IInv, TypeOK, Answers, Labels, Linkable, Success, Nothing,
     PullDown, Proceed, Unbind
<1>2. LockInv'
  BY UsbGadgetAssumption DEF IInv, TypeOK, LockInv, PullDown, Proceed,
     Unbind
<1>3. ArgInv'
  BY UsbGadgetAssumption DEF IInv, TypeOK, LockInv, ArgInv, PullDown,
     Proceed, Unbind
<1>4. LinkInv'
  BY UsbGadgetAssumption DEF IInv, TypeOK, LockInv, ArgInv, LinkInv, Ffs,
     GadgetFunctions, PullDown, Proceed, Unbind
<1>5. DownInv'
  BY UsbGadgetAssumption DEF IInv, TypeOK, LockInv, LinkInv, DownInv,
     PullDown, Proceed, Unbind
<1>6. ShownInv'
  BY UsbGadgetAssumption DEF IInv, TypeOK, LockInv, LinkInv, ShownInv,
     SuccessIsSeen, Shown, Success, Nothing, PullDown, Proceed, Unbind
<1>7. NoneInv'
  BY UsbGadgetAssumption DEF IInv, TypeOK, LockInv, ArgInv, LinkInv,
     DownInv, NoneInv, NoneStaysDown, Success, PullDown, Proceed, Unbind
<1>8. AppliedInv'
  BY UsbGadgetAssumption DEF IInv, TypeOK, LockInv, ArgInv, LinkInv,
     DownInv, AppliedInv, Succeeded, Undisturbed, Bound, Reports, Success,
     PullDown, Proceed, Unbind
<1> QED
  BY <1>1, <1>2, <1>3, <1>4, <1>5, <1>6, <1>7, <1>8 DEF IInv

\* All is unlinked and thus unbound, or the request fails.
LEMMA UnlinkStep ==
    ASSUME IInv, NEW t \in Threads, Unlink(t)
    PROVE  IInv'
<1>1. TypeOK'
  BY DEF IInv, TypeOK, Answers, Labels, Linkable, Success, Nothing, Unlink,
     Proceed, Unbind, AfterTearDownError, Conclude
<1>2. LockInv'
  BY UsbGadgetAssumption DEF IInv, TypeOK, LockInv, Unlink, Proceed, Unbind,
     AfterTearDownError, Conclude
<1>3. ArgInv'
  BY UsbGadgetAssumption DEF IInv, TypeOK, LockInv, ArgInv, Unlink, Proceed,
     Unbind, AfterTearDownError, Conclude
<1>4. LinkInv'
  BY UsbGadgetAssumption DEF IInv, TypeOK, LockInv, ArgInv, LinkInv, Ffs,
     GadgetFunctions, Unlink, Proceed, Unbind, AfterTearDownError, Conclude
<1>5. DownInv'
  BY UsbGadgetAssumption DEF IInv, TypeOK, LockInv, LinkInv, DownInv,
     Unlink, Proceed, Unbind, AfterTearDownError, Conclude
<1>6. ShownInv'
  BY UsbGadgetAssumption DEF IInv, TypeOK, LockInv, LinkInv, ShownInv,
     SuccessIsSeen, Shown, Success, Nothing, Unlink, Proceed, Unbind,
     AfterTearDownError, Conclude
<1>7. NoneInv'
  BY UsbGadgetAssumption DEF IInv, TypeOK, LockInv, ArgInv, LinkInv,
     DownInv, NoneInv, NoneStaysDown, Success, Unlink, Proceed, Unbind,
     AfterTearDownError, Conclude
<1>8. AppliedInv'
  BY UsbGadgetAssumption DEF IInv, TypeOK, LockInv, ArgInv, LinkInv,
     DownInv, AppliedInv, Succeeded, Undisturbed, Bound, Reports, Success,
     Unlink, Proceed, Unbind, AfterTearDownError, Conclude
<1> QED
  BY <1>1, <1>2, <1>3, <1>4, <1>5, <1>6, <1>7, <1>8 DEF IInv

\* No monitor runs while functions are linked.
LEMMA StopMonitorStep ==
    ASSUME IInv, NEW t \in Threads, StopMonitor(t)
    PROVE  IInv'
<1>1. TypeOK'
  BY DEF IInv, TypeOK, Answers, Labels, Linkable, Success, Nothing,
     StopMonitor, Proceed, MonitorRunning
<1>2. LockInv'
  BY UsbGadgetAssumption DEF IInv, TypeOK, LockInv, StopMonitor, Proceed,
     MonitorRunning
<1>3. ArgInv'
  BY UsbGadgetAssumption DEF IInv, TypeOK, LockInv, ArgInv, StopMonitor,
     Proceed, MonitorRunning
<1>4. LinkInv'
  BY UsbGadgetAssumption DEF IInv, TypeOK, LockInv, ArgInv, LinkInv, Ffs,
     GadgetFunctions, StopMonitor, Proceed, MonitorRunning
<1>5. DownInv'
  BY UsbGadgetAssumption DEF IInv, TypeOK, LockInv, LinkInv, DownInv,
     StopMonitor, Proceed, MonitorRunning
<1>6. ShownInv'
  BY UsbGadgetAssumption DEF IInv, TypeOK, LockInv, LinkInv, ShownInv,
     SuccessIsSeen, Shown, Success, Nothing, StopMonitor, Proceed,
     MonitorRunning
<1>7. NoneInv'
  BY UsbGadgetAssumption DEF IInv, TypeOK, LockInv, ArgInv, LinkInv,
     DownInv, NoneInv, NoneStaysDown, Success, StopMonitor, Proceed,
     MonitorRunning
<1>8. AppliedInv'
  BY UsbGadgetAssumption DEF IInv, TypeOK, LockInv, ArgInv, LinkInv,
     DownInv, AppliedInv, Succeeded, Undisturbed, Bound, Reports, Success,
     StopMonitor, Proceed, MonitorRunning
<1> QED
  BY <1>1, <1>2, <1>3, <1>4, <1>5, <1>6, <1>7, <1>8 DEF IInv

\* NONE succeeds with nothing bound and no monitor.
LEMMA AnswerNoneStep ==
    ASSUME IInv, NEW t \in Threads, AnswerNone(t)
    PROVE  IInv'
<1>1. TypeOK'
  BY DEF IInv, TypeOK, Answers, Labels, Linkable, Success, Nothing,
     AnswerNone, Conclude
<1>2. LockInv'
  BY UsbGadgetAssumption DEF IInv, TypeOK, LockInv, AnswerNone, Conclude
<1>3. ArgInv'
  BY UsbGadgetAssumption DEF IInv, TypeOK, LockInv, ArgInv, AnswerNone,
     Conclude
<1>4. LinkInv'
  BY UsbGadgetAssumption DEF IInv, TypeOK, LockInv, ArgInv, LinkInv, Ffs,
     GadgetFunctions, AnswerNone, Conclude
<1>5. DownInv'
  BY UsbGadgetAssumption DEF IInv, TypeOK, LockInv, LinkInv, DownInv,
     AnswerNone, Conclude
<1>6. ShownInv'
  BY UsbGadgetAssumption DEF IInv, TypeOK, LockInv, LinkInv, ShownInv,
     SuccessIsSeen, Shown, Success, Nothing, AnswerNone, Conclude
<1>7. NoneInv'
  BY UsbGadgetAssumption DEF IInv, TypeOK, LockInv, ArgInv, LinkInv,
     DownInv, NoneInv, NoneStaysDown, Success, AnswerNone, Conclude
<1>8. AppliedInv'
  BY UsbGadgetAssumption DEF IInv, TypeOK, LockInv, ArgInv, LinkInv,
     DownInv, AppliedInv, Succeeded, Undisturbed, Bound, Reports, Success,
     AnswerNone, Conclude
<1> QED
  BY <1>1, <1>2, <1>3, <1>4, <1>5, <1>6, <1>7, <1>8 DEF IInv

\* The product id is one of the request's functions.
LEMMA ValidateStep ==
    ASSUME IInv, NEW t \in Threads, Validate(t)
    PROVE  IInv'
<1>1. TypeOK'
  <2>1. product' \in ProductIds
    BY ProductsTyped DEF IInv, TypeOK, Validate
  <2> QED
    BY <2>1 DEF IInv, TypeOK, Answers, Labels, Validate, Conclude, Proceed
<1>2. LockInv'
  BY UsbGadgetAssumption DEF IInv, TypeOK, LockInv, Validate, Conclude,
     Proceed
<1>3. ArgInv'
  BY UsbGadgetAssumption DEF IInv, TypeOK, LockInv, ArgInv, Validate,
     Conclude, Proceed
<1>4. LinkInv'
  BY UsbGadgetAssumption DEF IInv, TypeOK, LockInv, ArgInv, LinkInv, Ffs,
     GadgetFunctions, Validate, Conclude, Proceed
<1>5. DownInv'
  BY UsbGadgetAssumption DEF IInv, TypeOK, LockInv, LinkInv, DownInv,
     Validate, Conclude, Proceed
<1>6. ShownInv'
  BY UsbGadgetAssumption DEF IInv, TypeOK, LockInv, LinkInv, ShownInv,
     SuccessIsSeen, Shown, Success, Nothing, Validate, Conclude, Proceed
<1>7. NoneInv'
  BY UsbGadgetAssumption DEF IInv, TypeOK, LockInv, ArgInv, LinkInv,
     DownInv, NoneInv, NoneStaysDown, Success, Validate, Conclude, Proceed
<1>8. AppliedInv'
  BY UsbGadgetAssumption DEF IInv, TypeOK, LockInv, ArgInv, LinkInv,
     DownInv, AppliedInv, Succeeded, Undisturbed, Bound, Reports, Success,
     Validate, Conclude, Proceed
<1> QED
  BY <1>1, <1>2, <1>3, <1>4, <1>5, <1>6, <1>7, <1>8 DEF IInv

\* All functions but adb are linked.
LEMMA LinkGenericStep ==
    ASSUME IInv, NEW t \in Threads, LinkGeneric(t)
    PROVE  IInv'
<1>1. TypeOK'
  <2>1. links' \subseteq Linkable /\ watched' \subseteq Ffs
    BY FunctionsLinkable DEF IInv, TypeOK, LinkGeneric, Link
  <2> QED
    BY <2>1 DEF IInv, TypeOK, Answers, Labels, LinkGeneric, Conclude, Proceed
<1>2. LockInv'
  BY UsbGadgetAssumption DEF IInv, TypeOK, LockInv, LinkGeneric, Conclude,
     Proceed, Link
<1>3. ArgInv'
  BY UsbGadgetAssumption DEF IInv, TypeOK, LockInv, ArgInv, LinkGeneric,
     Conclude, Proceed, Link
<1>4. LinkInv'
  <2>1. links = {} /\ arg[t] \subseteq GadgetFunctions
    BY FunctionsLinkable DEF IInv, TypeOK, LinkInv, LinkGeneric
  <2>2. links' \cap Ffs \subseteq watched'
    BY <2>1 DEF LinkGeneric, Link
  <2>3. CASE links' = arg[t] \ {"adb"} /\ Proceed(t, "vendor")
    BY <2>1, <2>2, <2>3, UsbGadgetAssumption
       DEF IInv, TypeOK, LockInv, ArgInv, LinkInv, LinkGeneric, Proceed
  <2>4. CASE Conclude(t, "ERROR")
    BY <2>2, <2>4, UsbGadgetAssumption
       DEF IInv, TypeOK, LockInv, LinkInv, LinkGeneric, Conclude
  <2> QED
    BY <2>1, <2>3, <2>4 DEF LinkGeneric, Link
<1>5. DownInv'
  BY UsbGadgetAssumption DEF IInv, TypeOK, LockInv, LinkInv, DownInv,
     LinkGeneric, Conclude, Proceed, Link
<1>6. ShownInv'
  <2>1. \A u \in Threads : ~ (pc'[u] = "await")
                           /\ ~ (pc'[u] = "answer" /\ status'[u] = Success)
    BY UsbGadgetAssumption
       DEF IInv, TypeOK, LockInv, Success, LinkGeneric, Conclude, Proceed
  <2> QED
    BY <2>1 DEF ShownInv, SuccessIsSeen
<1>7. NoneInv'
  <2>1. \A u \in Threads : ~ (pc'[u] = "answer" /\ status'[u] = Success)
    BY UsbGadgetAssumption
       DEF IInv, TypeOK, LockInv, Success, LinkGeneric, Conclude, Proceed
  <2>2. lock' # NoOne
    BY UsbGadgetAssumption DEF IInv, TypeOK, LockInv, LinkGeneric
  <2> QED
    BY <2>1, <2>2 DEF NoneInv, NoneStaysDown
<1>8. AppliedInv'
  BY UsbGadgetAssumption DEF IInv, TypeOK, LockInv, ArgInv, LinkInv,
     DownInv, AppliedInv, Succeeded, Undisturbed, Bound, Reports, Success,
     LinkGeneric, Conclude, Proceed, Link
<1> QED
  BY <1>1, <1>2, <1>3, <1>4, <1>5, <1>6, <1>7, <1>8 DEF IInv

\* Vendor functions add nothing to the functions of the request.
LEMMA LinkVendorStep ==
    ASSUME IInv, NEW t \in Threads, LinkVendor(t)
    PROVE  IInv'
<1>1. TypeOK'
  <2>1. links' \subseteq Linkable /\ watched' \subseteq Ffs
    BY FunctionsLinkable DEF IInv, TypeOK, LinkVendor, VendorLinks, Link
  <2> QED
    BY <2>1 DEF IInv, TypeOK, Answers, Labels, LinkVendor, Conclude, Proceed
<1>2. LockInv'
  BY UsbGadgetAssumption DEF IInv, TypeOK, LockInv, LinkVendor, Conclude,
     Proceed, Link
<1>3. ArgInv'
  BY UsbGadgetAssumption DEF IInv, TypeOK, LockInv, ArgInv, LinkVendor,
     Conclude, Proceed, Link
<1>4. LinkInv'
  <2>1. PICK ls \in SUBSET VendorFunctions : links' = links \cup ls
    BY DEF LinkVendor, VendorLinks, Link
  <2>2. links' \cap Ffs \subseteq watched'
    BY DEF IInv, LinkInv, LinkVendor, Link
  <2>3. links' \cap GadgetFunctions = arg[t] \ {"adb"}
    BY <2>1, FunctionsLinkable DEF IInv, LinkInv, LinkVendor
  <2>4. PICK l \in {"adb", "up", "answer"} :
           /\ pc' = [pc EXCEPT ![t] = l]
           /\ l \in {"adb", "up"} => l = IF "adb" \in arg[t] THEN "adb" ELSE "up"
    BY DEF LinkVendor, Proceed, Conclude
  <2>5. /\ \A u \in Threads : u # t => pc[u] \in {"idle", "pullUp"}
        /\ \E v \in Vendors : product \in Products(arg[t], v)
        /\ arg' = arg /\ product' = product
    BY UsbGadgetAssumption DEF IInv, LockInv, LinkInv, LinkVendor, Proceed, Conclude
  <2>6. pc' \in [Threads -> Labels] /\ pc'[t] = l
    BY <2>4 DEF IInv, TypeOK, Labels
  <2>7. \A u \in Threads : u # t => pc'[u] \in {"idle", "pullUp"}
    BY <2>4, <2>5 DEF IInv, TypeOK
  <2> QED
    BY <2>2, <2>3, <2>4, <2>5, <2>6, <2>7 DEF LinkInv
<1>5. DownInv'
  BY UsbGadgetAssumption DEF IInv, TypeOK, LockInv, LinkInv, DownInv,
     LinkVendor, Conclude, Proceed, Link
<1>6. ShownInv'
  <2>1. \A u \in Threads : ~ (pc'[u] = "await")
                           /\ ~ (pc'[u] = "answer" /\ status'[u] = Success)
    BY UsbGadgetAssumption
       DEF IInv, TypeOK, LockInv, Success, LinkVendor, Conclude, Proceed
  <2> QED
    BY <2>1 DEF ShownInv, SuccessIsSeen
<1>7. NoneInv'
  <2>1. \A u \in Threads : ~ (pc'[u] = "answer" /\ status'[u] = Success)
    BY UsbGadgetAssumption
       DEF IInv, TypeOK, LockInv, Success, LinkVendor, Conclude, Proceed
  <2>2. lock' # NoOne
    BY UsbGadgetAssumption DEF IInv, TypeOK, LockInv, LinkVendor
  <2> QED
    BY <2>1, <2>2 DEF NoneInv, NoneStaysDown
<1>8. AppliedInv'
  <2>1. ~ Succeeded' /\ \A u \in Threads : pc'[u] # "await"
    BY UsbGadgetAssumption
       DEF IInv, TypeOK, LockInv, ArgInv, Succeeded, Success, LinkVendor, Conclude, Proceed
  <2> QED
    BY <2>1 DEF AppliedInv
<1> QED
  BY <1>1, <1>2, <1>3, <1>4, <1>5, <1>6, <1>7, <1>8 DEF IInv

\* With adb the links are complete.
LEMMA LinkAdbStep ==
    ASSUME IInv, NEW t \in Threads, LinkAdb(t)
    PROVE  IInv'
<1>1. TypeOK'
  <2>1. links' \subseteq Linkable /\ watched' \subseteq Ffs
    BY FunctionsLinkable DEF IInv, TypeOK, LinkAdb, Link
  <2> QED
    BY <2>1 DEF IInv, TypeOK, Answers, Labels, LinkAdb, Conclude, Proceed
<1>2. LockInv'
  BY UsbGadgetAssumption DEF IInv, TypeOK, LockInv, LinkAdb, Conclude,
     Proceed, Link
<1>3. ArgInv'
  BY UsbGadgetAssumption DEF IInv, TypeOK, LockInv, ArgInv, LinkAdb,
     Conclude, Proceed, Link
<1>4. LinkInv'
  BY UsbGadgetAssumption DEF IInv, TypeOK, LockInv, ArgInv, LinkInv, Ffs,
     GadgetFunctions, LinkAdb, Conclude, Proceed, Link
<1>5. DownInv'
  BY UsbGadgetAssumption DEF IInv, TypeOK, LockInv, LinkInv, DownInv,
     LinkAdb, Conclude, Proceed, Link
<1>6. ShownInv'
  BY UsbGadgetAssumption DEF IInv, TypeOK, LockInv, LinkInv, ShownInv,
     SuccessIsSeen, Shown, Success, Nothing, LinkAdb, Conclude, Proceed, Link
<1>7. NoneInv'
  BY UsbGadgetAssumption DEF IInv, TypeOK, LockInv, ArgInv, LinkInv,
     DownInv, NoneInv, NoneStaysDown, Success, LinkAdb, Conclude, Proceed, Link
<1>8. AppliedInv'
  BY UsbGadgetAssumption DEF IInv, TypeOK, LockInv, ArgInv, LinkInv,
     DownInv, AppliedInv, Succeeded, Undisturbed, Bound, Reports, Success,
     LinkAdb, Conclude, Proceed, Link
<1> QED
  BY <1>1, <1>2, <1>3, <1>4, <1>5, <1>6, <1>7, <1>8 DEF IInv

\* Without daemons the host is shown the complete links at once.
LEMMA PullUpStep ==
    ASSUME IInv, NEW t \in Threads, PullUp(t)
    PROVE  IInv'
<1>1. TypeOK'
  <2>1. host' \subseteq Linkable /\ saw' \in [product : ProductIds, links : SUBSET Linkable]
    BY DEF IInv, TypeOK, PullUp, Bind
  <2> QED
    BY <2>1 DEF IInv, TypeOK, Answers, Labels, Success, PullUp, Conclude
<1>2. LockInv'
  BY UsbGadgetAssumption DEF IInv, TypeOK, LockInv, PullUp, Conclude,
     FfsEnabled, Bind, Bindable
<1>3. ArgInv'
  BY UsbGadgetAssumption DEF IInv, TypeOK, LockInv, ArgInv, PullUp,
     Conclude, FfsEnabled, Bind, Bindable
<1>4. LinkInv'
  BY UsbGadgetAssumption DEF IInv, TypeOK, LockInv, ArgInv, LinkInv, Ffs,
     GadgetFunctions, PullUp, Conclude, FfsEnabled, Bind, Bindable
<1>5. DownInv'
  BY UsbGadgetAssumption DEF IInv, TypeOK, LockInv, LinkInv, DownInv,
     PullUp, Conclude, FfsEnabled, Bind, Bindable
<1>6. ShownInv'
  <2>1. /\ \A u \in Threads : u # t => pc[u] \in {"idle", "pullUp"}
        /\ pc[t] \in {"up", "await"} /\ arg' = arg /\ product' = product /\ links' = links
    BY UsbGadgetAssumption DEF IInv, LockInv, PullUp, Conclude, Bind
  <2>2. \A u \in Threads : pc'[u] # "await" /\ (pc'[u] = "answer" => u = t)
    BY <2>1 DEF IInv, TypeOK, PullUp, Conclude, Bind
  <2>3. pc'[t] = "answer" /\ status'[t] = Success =>
           saw' = [product |-> product, links |-> links]
    BY <2>1 DEF IInv, TypeOK, ShownInv, Success, PullUp, Conclude, Bind
  <2> QED
    BY <2>1, <2>2, <2>3, ProductTells DEF ShownInv, SuccessIsSeen, Shown
<1>7. NoneInv'
  BY UsbGadgetAssumption DEF IInv, TypeOK, LockInv, ArgInv, LinkInv,
     DownInv, NoneInv, NoneStaysDown, Success, PullUp, Conclude, FfsEnabled,
     Bind, Bindable
<1>8. AppliedInv'
  <2>1. links \cap Ffs = {}
    BY ProductTells, FunctionsLinkable DEF PullUp, FfsEnabled
  <2>2. monitor = "off" /\ lock = t
    BY DEF IInv, LockInv, DownInv, PullUp
  <2>3. \A u \in Threads : pc'[u] # "await"
    BY UsbGadgetAssumption DEF IInv, TypeOK, LockInv, PullUp, Conclude
  <2>4. CASE Bind /\ applied' = TRUE
    BY <2>1, <2>2, <2>3, <2>4 DEF AppliedInv, Bind, Bindable, PullUp
  <2>5. CASE Conclude(t, "ERROR")
    <3>1. ~ Succeeded'
      BY <2>2, <2>5, UsbGadgetAssumption
         DEF IInv, TypeOK, LockInv, Succeeded, Success, PullUp, Conclude
    <3> QED
      BY <2>3, <3>1 DEF AppliedInv
  <2> QED
    BY <2>4, <2>5 DEF PullUp
<1> QED
  BY <1>1, <1>2, <1>3, <1>4, <1>5, <1>6, <1>7, <1>8 DEF IInv

\* With daemons the monitor starts, and the gadget is still down.
LEMMA StartMonitorStep ==
    ASSUME IInv, NEW t \in Threads, StartMonitor(t)
    PROVE  IInv'
<1>1. TypeOK'
  BY DEF IInv, TypeOK, Answers, Labels, Linkable, Success, Nothing,
     StartMonitor, FfsEnabled, Proceed, Return
<1>2. LockInv'
  BY UsbGadgetAssumption DEF IInv, TypeOK, LockInv, StartMonitor,
     FfsEnabled, Proceed, Return
<1>3. ArgInv'
  BY UsbGadgetAssumption DEF IInv, TypeOK, LockInv, ArgInv, StartMonitor,
     FfsEnabled, Proceed, Return
<1>4. LinkInv'
  BY UsbGadgetAssumption DEF IInv, TypeOK, LockInv, ArgInv, LinkInv, Ffs,
     GadgetFunctions, StartMonitor, FfsEnabled, Proceed, Return
<1>5. DownInv'
  BY UsbGadgetAssumption DEF IInv, TypeOK, LockInv, LinkInv, DownInv,
     StartMonitor, FfsEnabled, Proceed, Return
<1>6. ShownInv'
  BY UsbGadgetAssumption DEF IInv, TypeOK, LockInv, LinkInv, ShownInv,
     SuccessIsSeen, Shown, Success, Nothing, StartMonitor, FfsEnabled, Proceed,
     Return
<1>7. NoneInv'
  BY UsbGadgetAssumption DEF IInv, TypeOK, LockInv, ArgInv, LinkInv,
     DownInv, NoneInv, NoneStaysDown, Success, StartMonitor, FfsEnabled,
     Proceed, Return
<1>8. AppliedInv'
  BY UsbGadgetAssumption DEF IInv, TypeOK, LockInv, ArgInv, LinkInv,
     DownInv, AppliedInv, Succeeded, Undisturbed, Bound, Reports, Success,
     StartMonitor, FfsEnabled, Proceed, Return
<1> QED
  BY <1>1, <1>2, <1>3, <1>4, <1>5, <1>6, <1>7, <1>8 DEF IInv

\* A pull-up that was waited for has shown the complete links.
LEMMA AwaitStep ==
    ASSUME IInv, NEW t \in Threads, Await(t)
    PROVE  IInv'
<1>1. TypeOK'
  BY DEF IInv, TypeOK, Answers, Labels, Linkable, Success, Nothing, Await,
     Conclude
<1>2. LockInv'
  BY UsbGadgetAssumption DEF IInv, TypeOK, LockInv, Await, Conclude
<1>3. ArgInv'
  BY UsbGadgetAssumption DEF IInv, TypeOK, LockInv, ArgInv, Await, Conclude
<1>4. LinkInv'
  BY UsbGadgetAssumption DEF IInv, TypeOK, LockInv, ArgInv, LinkInv, Ffs,
     GadgetFunctions, Await, Conclude
<1>5. DownInv'
  BY UsbGadgetAssumption DEF IInv, TypeOK, LockInv, LinkInv, DownInv, Await,
     Conclude
<1>6. ShownInv'
  <2>1. /\ \A u \in Threads : u # t => pc[u] \in {"idle", "pullUp"}
        /\ pc[t] \in {"up", "await"} /\ arg' = arg /\ product' = product /\ links' = links
    BY UsbGadgetAssumption DEF IInv, LockInv, Await, Conclude
  <2>2. \A u \in Threads : pc'[u] # "await" /\ (pc'[u] = "answer" => u = t)
    BY <2>1 DEF IInv, TypeOK, Await, Conclude
  <2>3. pc'[t] = "answer" /\ status'[t] = Success =>
           saw' = [product |-> product, links |-> links]
    BY <2>1 DEF IInv, TypeOK, ShownInv, Success, Await, Conclude
  <2> QED
    BY <2>1, <2>2, <2>3, ProductTells DEF ShownInv, SuccessIsSeen, Shown
<1>7. NoneInv'
  BY UsbGadgetAssumption DEF IInv, TypeOK, LockInv, ArgInv, LinkInv,
     DownInv, NoneInv, NoneStaysDown, Success, Await, Conclude
<1>8. AppliedInv'
  BY UsbGadgetAssumption DEF IInv, TypeOK, LockInv, ArgInv, LinkInv,
     DownInv, AppliedInv, Succeeded, Undisturbed, Bound, Reports, Success,
     Await, Conclude
<1> QED
  BY <1>1, <1>2, <1>3, <1>4, <1>5, <1>6, <1>7, <1>8 DEF IInv

\* The lock is given back, and what was answered holds on.
LEMMA AnswerStep ==
    ASSUME IInv, NEW t \in Threads, Answer(t)
    PROVE  IInv'
<1>1. TypeOK'
  BY NothingShown DEF IInv, TypeOK, Answers, Labels, Success, Answer, Return, NONE
<1>2. LockInv'
  BY UsbGadgetAssumption DEF IInv, TypeOK, LockInv, Answer, Return
<1>3. ArgInv'
  BY UsbGadgetAssumption DEF IInv, TypeOK, LockInv, ArgInv, Answer, Return
<1>4. LinkInv'
  BY UsbGadgetAssumption DEF IInv, TypeOK, LockInv, ArgInv, LinkInv, Ffs,
     GadgetFunctions, Answer, Return
<1>5. DownInv'
  BY UsbGadgetAssumption DEF IInv, TypeOK, LockInv, LinkInv, DownInv,
     Answer, Return
<1>6. ShownInv'
  BY UsbGadgetAssumption DEF IInv, TypeOK, LockInv, LinkInv, ShownInv,
     SuccessIsSeen, Shown, Success, Nothing, Answer, Return
<1>7. NoneInv'
  BY UsbGadgetAssumption DEF IInv, TypeOK, LockInv, ArgInv, LinkInv,
     DownInv, NoneInv, NoneStaysDown, Success, Answer, Return
<1>8. AppliedInv'
  BY UsbGadgetAssumption DEF IInv, TypeOK, LockInv, ArgInv, LinkInv,
     DownInv, AppliedInv, Succeeded, Undisturbed, Bound, Reports, Success,
     Answer, Return
<1> QED
  BY <1>1, <1>2, <1>3, <1>4, <1>5, <1>6, <1>7, <1>8 DEF IInv

\* A reset pulls the gadget down.
LEMMA ResetDownStep ==
    ASSUME IInv, NEW t \in Threads, ResetDown(t)
    PROVE  IInv'
<1>1. TypeOK'
  BY DEF IInv, TypeOK, Answers, Labels, Linkable, Success, Nothing,
     ResetDown, Unbind, Proceed
<1>2. LockInv'
  BY UsbGadgetAssumption DEF IInv, TypeOK, LockInv, ResetDown, Unbind,
     Proceed
<1>3. ArgInv'
  BY UsbGadgetAssumption DEF IInv, TypeOK, LockInv, ArgInv, ResetDown,
     Unbind, Proceed
<1>4. LinkInv'
  BY UsbGadgetAssumption DEF IInv, TypeOK, LockInv, ArgInv, LinkInv, Ffs,
     GadgetFunctions, ResetDown, Unbind, Proceed
<1>5. DownInv'
  BY UsbGadgetAssumption DEF IInv, TypeOK, LockInv, LinkInv, DownInv,
     ResetDown, Unbind, Proceed
<1>6. ShownInv'
  BY UsbGadgetAssumption DEF IInv, TypeOK, LockInv, LinkInv, ShownInv,
     SuccessIsSeen, Shown, Success, Nothing, ResetDown, Unbind, Proceed
<1>7. NoneInv'
  BY UsbGadgetAssumption DEF IInv, TypeOK, LockInv, ArgInv, LinkInv,
     DownInv, NoneInv, NoneStaysDown, Success, ResetDown, Unbind, Proceed
<1>8. AppliedInv'
  BY UsbGadgetAssumption DEF IInv, TypeOK, LockInv, ArgInv, LinkInv,
     DownInv, AppliedInv, Succeeded, Undisturbed, Bound, Reports, Success,
     ResetDown, Unbind, Proceed
<1> QED
  BY <1>1, <1>2, <1>3, <1>4, <1>5, <1>6, <1>7, <1>8 DEF IInv

\* A reset shows the host the links as they are.
LEMMA ResetUpStep ==
    ASSUME IInv, NEW t \in Threads, ResetUp(t)
    PROVE  IInv'
<1>1. TypeOK'
  <2>1. host' \subseteq Linkable /\ saw' \in [product : ProductIds, links : SUBSET Linkable]
    BY DEF IInv, TypeOK, ResetUp, Bind
  <2> QED
    BY <2>1 DEF IInv, TypeOK, Answers, Labels, ResetUp, Proceed
<1>2. LockInv'
  BY UsbGadgetAssumption DEF IInv, TypeOK, LockInv, ResetUp, Bind, Bindable,
     Proceed
<1>3. ArgInv'
  BY UsbGadgetAssumption DEF IInv, TypeOK, LockInv, ArgInv, ResetUp, Bind,
     Bindable, Proceed
<1>4. LinkInv'
  BY UsbGadgetAssumption DEF IInv, TypeOK, LockInv, ArgInv, LinkInv, Ffs,
     GadgetFunctions, ResetUp, Bind, Bindable, Proceed
<1>5. DownInv'
  BY UsbGadgetAssumption DEF IInv, TypeOK, LockInv, LinkInv, DownInv,
     ResetUp, Bind, Bindable, Proceed
<1>6. ShownInv'
  BY UsbGadgetAssumption DEF IInv, TypeOK, LockInv, LinkInv, ShownInv,
     SuccessIsSeen, Shown, Success, Nothing, ResetUp, Bind, Bindable, Proceed
<1>7. NoneInv'
  BY UsbGadgetAssumption DEF IInv, TypeOK, LockInv, ArgInv, LinkInv,
     DownInv, NoneInv, NoneStaysDown, Success, ResetUp, Bind, Bindable, Proceed
<1>8. AppliedInv'
  BY UsbGadgetAssumption DEF IInv, TypeOK, LockInv, ArgInv, LinkInv,
     DownInv, AppliedInv, Succeeded, Undisturbed, Bound, Reports, Success,
     ResetUp, Bind, Bindable, Proceed
<1> QED
  BY <1>1, <1>2, <1>3, <1>4, <1>5, <1>6, <1>7, <1>8 DEF IInv

\* The monitor shows the host the links, complete by then.
LEMMA MonitorPullsUpStep ==
    ASSUME IInv, MonitorPullsUp
    PROVE  IInv'
<1>1. TypeOK'
  BY DEF IInv, TypeOK, Answers, Labels, Linkable, Success, Nothing,
     MonitorPullsUp, MonitorStep, Bind, Bindable
<1>2. LockInv'
  BY UsbGadgetAssumption DEF IInv, TypeOK, LockInv, MonitorPullsUp,
     MonitorStep, Bind, Bindable
<1>3. ArgInv'
  BY UsbGadgetAssumption DEF IInv, TypeOK, LockInv, ArgInv, MonitorPullsUp,
     MonitorStep, Bind, Bindable
<1>4. LinkInv'
  BY UsbGadgetAssumption DEF IInv, TypeOK, LockInv, ArgInv, LinkInv, Ffs,
     GadgetFunctions, MonitorPullsUp, MonitorStep, Bind, Bindable
<1>5. DownInv'
  BY UsbGadgetAssumption DEF IInv, TypeOK, LockInv, LinkInv, DownInv,
     MonitorPullsUp, MonitorStep, Bind, Bindable
<1>6. ShownInv'
  BY UsbGadgetAssumption DEF IInv, TypeOK, LockInv, LinkInv, ShownInv,
     SuccessIsSeen, Shown, Success, Nothing, MonitorPullsUp, MonitorStep, Bind,
     Bindable
<1>7. NoneInv'
  BY UsbGadgetAssumption DEF IInv, TypeOK, LockInv, ArgInv, LinkInv,
     DownInv, NoneInv, NoneStaysDown, Success, MonitorPullsUp, MonitorStep,
     Bind, Bindable
<1>8. AppliedInv'
  BY UsbGadgetAssumption DEF IInv, TypeOK, LockInv, ArgInv, LinkInv,
     DownInv, AppliedInv, Succeeded, Undisturbed, Bound, Reports, Success,
     MonitorPullsUp, MonitorStep, Bind, Bindable
<1> QED
  BY <1>1, <1>2, <1>3, <1>4, <1>5, <1>6, <1>7, <1>8 DEF IInv

\* The monitor sees that a daemon is gone and the gadget with it.
LEMMA MonitorDropsStep ==
    ASSUME IInv, MonitorDrops
    PROVE  IInv'
<1>1. TypeOK'
  BY DEF IInv, TypeOK, Answers, Labels, Linkable, Success, Nothing,
     MonitorDrops, MonitorStep
<1>2. LockInv'
  BY UsbGadgetAssumption DEF IInv, TypeOK, LockInv, MonitorDrops,
     MonitorStep
<1>3. ArgInv'
  BY UsbGadgetAssumption DEF IInv, TypeOK, LockInv, ArgInv, MonitorDrops,
     MonitorStep
<1>4. LinkInv'
  BY UsbGadgetAssumption DEF IInv, TypeOK, LockInv, ArgInv, LinkInv, Ffs,
     GadgetFunctions, MonitorDrops, MonitorStep
<1>5. DownInv'
  BY UsbGadgetAssumption DEF IInv, TypeOK, LockInv, LinkInv, DownInv,
     MonitorDrops, MonitorStep
<1>6. ShownInv'
  BY UsbGadgetAssumption DEF IInv, TypeOK, LockInv, LinkInv, ShownInv,
     SuccessIsSeen, Shown, Success, Nothing, MonitorDrops, MonitorStep
<1>7. NoneInv'
  BY UsbGadgetAssumption DEF IInv, TypeOK, LockInv, ArgInv, LinkInv,
     DownInv, NoneInv, NoneStaysDown, Success, MonitorDrops, MonitorStep
<1>8. AppliedInv'
  BY UsbGadgetAssumption DEF IInv, TypeOK, LockInv, ArgInv, LinkInv,
     DownInv, AppliedInv, Succeeded, Undisturbed, Bound, Reports, Success,
     MonitorDrops, MonitorStep
<1> QED
  BY <1>1, <1>2, <1>3, <1>4, <1>5, <1>6, <1>7, <1>8 DEF IInv

\* The pull-up is reported.
LEMMA CallbackTrueStep ==
    ASSUME IInv, CallbackTrue
    PROVE  IInv'
<1>1. TypeOK'
  BY DEF IInv, TypeOK, Answers, Labels, Linkable, Success, Nothing,
     CallbackTrue, MonitorStep, currentFunctionsAppliedCallback, MayCallBack,
     Applied
<1>2. LockInv'
  BY UsbGadgetAssumption DEF IInv, TypeOK, LockInv, CallbackTrue,
     MonitorStep, currentFunctionsAppliedCallback, MayCallBack, Applied
<1>3. ArgInv'
  BY UsbGadgetAssumption DEF IInv, TypeOK, LockInv, ArgInv, CallbackTrue,
     MonitorStep, currentFunctionsAppliedCallback, MayCallBack, Applied
<1>4. LinkInv'
  BY UsbGadgetAssumption DEF IInv, TypeOK, LockInv, ArgInv, LinkInv, Ffs,
     GadgetFunctions, CallbackTrue, MonitorStep,
     currentFunctionsAppliedCallback, MayCallBack, Applied
<1>5. DownInv'
  BY UsbGadgetAssumption DEF IInv, TypeOK, LockInv, LinkInv, DownInv,
     CallbackTrue, MonitorStep, currentFunctionsAppliedCallback, MayCallBack,
     Applied
<1>6. ShownInv'
  BY UsbGadgetAssumption DEF IInv, TypeOK, LockInv, LinkInv, ShownInv,
     SuccessIsSeen, Shown, Success, Nothing, CallbackTrue, MonitorStep,
     currentFunctionsAppliedCallback, MayCallBack, Applied
<1>7. NoneInv'
  BY UsbGadgetAssumption DEF IInv, TypeOK, LockInv, ArgInv, LinkInv,
     DownInv, NoneInv, NoneStaysDown, Success, CallbackTrue, MonitorStep,
     currentFunctionsAppliedCallback, MayCallBack, Applied
<1>8. AppliedInv'
  BY UsbGadgetAssumption DEF IInv, TypeOK, LockInv, ArgInv, LinkInv,
     DownInv, AppliedInv, Succeeded, Undisturbed, Bound, Reports, Success,
     CallbackTrue, MonitorStep, currentFunctionsAppliedCallback, MayCallBack,
     Applied
<1> QED
  BY <1>1, <1>2, <1>3, <1>4, <1>5, <1>6, <1>7, <1>8 DEF IInv

\* The loss is reported.
LEMMA CallbackFalseStep ==
    ASSUME IInv, CallbackFalse
    PROVE  IInv'
<1>1. TypeOK'
  BY DEF IInv, TypeOK, Answers, Labels, Linkable, Success, Nothing,
     CallbackFalse, MonitorStep, currentFunctionsAppliedCallback, MayCallBack,
     Applied
<1>2. LockInv'
  BY UsbGadgetAssumption DEF IInv, TypeOK, LockInv, CallbackFalse,
     MonitorStep, currentFunctionsAppliedCallback, MayCallBack, Applied
<1>3. ArgInv'
  BY UsbGadgetAssumption DEF IInv, TypeOK, LockInv, ArgInv, CallbackFalse,
     MonitorStep, currentFunctionsAppliedCallback, MayCallBack, Applied
<1>4. LinkInv'
  BY UsbGadgetAssumption DEF IInv, TypeOK, LockInv, ArgInv, LinkInv, Ffs,
     GadgetFunctions, CallbackFalse, MonitorStep,
     currentFunctionsAppliedCallback, MayCallBack, Applied
<1>5. DownInv'
  BY UsbGadgetAssumption DEF IInv, TypeOK, LockInv, LinkInv, DownInv,
     CallbackFalse, MonitorStep, currentFunctionsAppliedCallback, MayCallBack,
     Applied
<1>6. ShownInv'
  BY UsbGadgetAssumption DEF IInv, TypeOK, LockInv, LinkInv, ShownInv,
     SuccessIsSeen, Shown, Success, Nothing, CallbackFalse, MonitorStep,
     currentFunctionsAppliedCallback, MayCallBack, Applied
<1>7. NoneInv'
  BY UsbGadgetAssumption DEF IInv, TypeOK, LockInv, ArgInv, LinkInv,
     DownInv, NoneInv, NoneStaysDown, Success, CallbackFalse, MonitorStep,
     currentFunctionsAppliedCallback, MayCallBack, Applied
<1>8. AppliedInv'
  BY UsbGadgetAssumption DEF IInv, TypeOK, LockInv, ArgInv, LinkInv,
     DownInv, AppliedInv, Succeeded, Undisturbed, Bound, Reports, Success,
     CallbackFalse, MonitorStep, currentFunctionsAppliedCallback, MayCallBack,
     Applied
<1> QED
  BY <1>1, <1>2, <1>3, <1>4, <1>5, <1>6, <1>7, <1>8 DEF IInv

\* A daemon that starts binds nothing by itself.
LEMMA DaemonStartsStep ==
    ASSUME IInv, NEW f \in Ffs, DaemonStarts(f)
    PROVE  IInv'
<1>1. TypeOK'
  BY DEF IInv, TypeOK, Answers, Labels, Linkable, Success, Nothing,
     DaemonStarts
<1>2. LockInv'
  BY UsbGadgetAssumption DEF IInv, TypeOK, LockInv, DaemonStarts
<1>3. ArgInv'
  BY UsbGadgetAssumption DEF IInv, TypeOK, LockInv, ArgInv, DaemonStarts
<1>4. LinkInv'
  BY UsbGadgetAssumption DEF IInv, TypeOK, LockInv, ArgInv, LinkInv, Ffs,
     GadgetFunctions, DaemonStarts
<1>5. DownInv'
  BY UsbGadgetAssumption DEF IInv, TypeOK, LockInv, LinkInv, DownInv,
     DaemonStarts
<1>6. ShownInv'
  BY UsbGadgetAssumption DEF IInv, TypeOK, LockInv, LinkInv, ShownInv,
     SuccessIsSeen, Shown, Success, Nothing, DaemonStarts
<1>7. NoneInv'
  BY UsbGadgetAssumption DEF IInv, TypeOK, LockInv, ArgInv, LinkInv,
     DownInv, NoneInv, NoneStaysDown, Success, DaemonStarts
<1>8. AppliedInv'
  BY UsbGadgetAssumption DEF IInv, TypeOK, LockInv, ArgInv, LinkInv,
     DownInv, AppliedInv, Succeeded, Undisturbed, Bound, Reports, Success,
     DaemonStarts
<1> QED
  BY <1>1, <1>2, <1>3, <1>4, <1>5, <1>6, <1>7, <1>8 DEF IInv

\* A daemon that stops unbinds the gadget and is seen to be gone.
LEMMA DaemonStopsStep ==
    ASSUME IInv, NEW f \in Ffs, DaemonStops(f)
    PROVE  IInv'
<1>1. TypeOK'
  BY DEF IInv, TypeOK, Answers, Labels, Linkable, Success, Nothing,
     DaemonStops
<1>2. LockInv'
  BY UsbGadgetAssumption DEF IInv, TypeOK, LockInv, DaemonStops
<1>3. ArgInv'
  BY UsbGadgetAssumption DEF IInv, TypeOK, LockInv, ArgInv, DaemonStops
<1>4. LinkInv'
  BY UsbGadgetAssumption DEF IInv, TypeOK, LockInv, ArgInv, LinkInv, Ffs,
     GadgetFunctions, DaemonStops
<1>5. DownInv'
  BY UsbGadgetAssumption DEF IInv, TypeOK, LockInv, LinkInv, DownInv,
     DaemonStops
<1>6. ShownInv'
  BY UsbGadgetAssumption DEF IInv, TypeOK, LockInv, LinkInv, ShownInv,
     SuccessIsSeen, Shown, Success, Nothing, DaemonStops
<1>7. NoneInv'
  BY UsbGadgetAssumption DEF IInv, TypeOK, LockInv, ArgInv, LinkInv,
     DownInv, NoneInv, NoneStaysDown, Success, DaemonStops
<1>8. AppliedInv'
  BY UsbGadgetAssumption DEF IInv, TypeOK, LockInv, ArgInv, LinkInv,
     DownInv, AppliedInv, Succeeded, Undisturbed, Bound, Reports, Success,
     DaemonStops
<1> QED
  BY <1>1, <1>2, <1>3, <1>4, <1>5, <1>6, <1>7, <1>8 DEF IInv


-----------------------------------------------------------------------------
\* The invariant holds of a service that has just started.
LEMMA Initially == Init => IInv
<1> SUFFICES ASSUME Init PROVE IInv
  OBVIOUS
<1>1. TypeOK
  BY NothingShown DEF Init, TypeOK, Labels, Answers, Success, NONE
<1> QED
  BY <1>1, UsbGadgetAssumption
     DEF Init, IInv, LockInv, ArgInv, LinkInv, DownInv, ShownInv, SuccessIsSeen,
         NoneInv, NoneStaysDown, AppliedInv, Succeeded, Success

\* The invariant is one of the state.
LEMMA Stuttering == ASSUME IInv, UNCHANGED vars PROVE IInv'
  BY DEF vars, IInv, TypeOK, LockInv, ArgInv, LinkInv, DownInv, ShownInv,
         SuccessIsSeen, Shown, NoneInv, NoneStaysDown, AppliedInv, Succeeded,
         Undisturbed, Bound, Reports

\* Labels, members, configfs, the kernel and the monitor fit together.
THEOREM Invariance == Spec => []IInv
<1>1. ASSUME IInv, Next
      PROVE  IInv'
  <2>1. CASE \E t \in Threads : Call(t)
    <3> SUFFICES ASSUME NEW t \in Threads, Call(t) PROVE IInv'
      BY <2>1
    <3> QED
      BY <1>1, SetCurrentUsbFunctionsStep, PullDownStep, UnlinkStep, StopMonitorStep,
         AnswerNoneStep, ValidateStep, LinkGenericStep, LinkVendorStep, LinkAdbStep,
         PullUpStep, StartMonitorStep, AwaitStep, AnswerStep, ResetDownStep,
         ResetUpStep
         DEF Call, Set
  <2>2. CASE Monitor
    BY <1>1, <2>2, MonitorPullsUpStep, MonitorDropsStep, CallbackTrueStep,
       CallbackFalseStep DEF Monitor
  <2>3. CASE Daemons
    BY <1>1, <2>3, DaemonStartsStep, DaemonStopsStep DEF Daemons
  <2> QED
    BY <1>1, <2>1, <2>2, <2>3 DEF Next
<1>2. IInv /\ [Next]_vars => IInv'
  BY <1>1, Stuttering
<1> QED
  BY <1>2, Initially, PTL DEF Spec

-----------------------------------------------------------------------------
(* The properties.                                                          *)

\* Every variable keeps its type.
THEOREM TypeCorrect == Spec => []TypeOK
<1>1. IInv => TypeOK
  BY DEF IInv
<1> QED
  BY <1>1, Invariance, PTL

\* A request that is answered with SUCCESS has shown the host its functions,
\* under an id of their own, whatever reset, monitor and daemons did.
THEOREM ShowsWhatItAnswers == Spec => []SuccessIsSeen
<1>1. IInv => SuccessIsSeen
  BY DEF IInv, ShownInv
<1> QED
  BY <1>1, Invariance, PTL

\* Without a reset the gadget stays down while its functions are linked.
THEOREM HidesHalfLinked == Spec => []HalfLinkedUnseen
<1>1. IInv => HalfLinkedUnseen
  BY DEF IInv, DownInv, HalfLinkedUnseen, LeftDown
<1> QED
  BY <1>1, Invariance, PTL

\* After NONE nothing is bound until the next request.
THEOREM KeepsNoneDown == Spec => []NoneStaysDown
<1>1. IInv => NoneStaysDown
  BY DEF IInv, NoneInv
<1> QED
  BY <1>1, Invariance, PTL

\* After a success what is reported as applied is what the host sees.
THEOREM ReportsApplied == Spec => []AppliedIsTrue
<1>1. IInv => AppliedIsTrue
  BY DEF IInv, AppliedInv, AppliedIsTrue, Settled, Succeeded, Undisturbed, Bound,
         Reports, TypeOK
<1> QED
  BY <1>1, Invariance, PTL
=============================================================================
