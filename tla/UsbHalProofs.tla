---------------------------- MODULE UsbHalProofs ----------------------------
(***************************************************************************)
(* The safety of the USB HAL for any number of poll threads, settings and  *)
(* uevents: IInv of UsbHal is inductive.  Each part of it is proved by a   *)
(* lemma of its own, one step per action, from the parts before it.        *)
(***************************************************************************)
EXTENDS UsbHal, FiniteSetTheorems, TLAPS

USE DEF Goto, Free, Take, Release, Return, Forget, kernel, wait, role, status, life,
        Actors, Mutexes

-----------------------------------------------------------------------------
(* The parts of the invariant.                                              *)

\* The labels of pc say who holds which mutex.
LEMMA LockStep ==
    ASSUME TypeOK, LockInv, Next
    PROVE  LockInv'
<1>1. CASE Kernel
  BY <1>1, UsbAssumption DEF Kernel, PartnerComes, PartnerGoes, OtherUevent,
     TypecUevent, Send, TypeOK, LockInv, HoldsRole
<1>2. ASSUME NEW t \in Threads, OpenSocket(t)
      PROVE  LockInv'
  BY <1>2, UsbAssumption DEF OpenSocket, TypeOK, LockInv, HoldsRole
<1>3. ASSUME NEW t \in Threads, PollFails(t)
      PROVE  LockInv'
  BY <1>3, UsbAssumption DEF PollFails, End, TypeOK, LockInv, HoldsRole
<1>4. ASSUME NEW t \in Threads, CheckDestroy(t)
      PROVE  LockInv'
  <2>1. pc[t] = "check" /\ owner' = owner
    BY <1>4 DEF CheckDestroy
  <2>2. PICK l \in {"ended", "enter"} : pc' = [pc EXCEPT ![t] = l]
    BY <1>4 DEF CheckDestroy, End
  <2> QED
    BY <2>1, <2>2, UsbAssumption DEF TypeOK, LockInv, HoldsRole
<1>5. ASSUME NEW t \in Threads, EnterEpoll(t)
      PROVE  LockInv'
  BY <1>5, UsbAssumption DEF EnterEpoll, TypeOK, LockInv, HoldsRole
<1>6. ASSUME NEW t \in Threads, ReceiveUevent(t)
      PROVE  LockInv'
  <2>1. pc[t] = "epoll" /\ owner' = owner
    BY <1>6 DEF ReceiveUevent
  <2>2. PICK l \in {"partner", "query", "check"} : pc' = [pc EXCEPT ![t] = l]
    BY <1>6 DEF ReceiveUevent
  <2> QED
    BY <2>1, <2>2, UsbAssumption DEF TypeOK, LockInv, HoldsRole
<1>7. ASSUME NEW t \in Threads, PartnerAdded(t)
      PROVE  LockInv'
  BY <1>7, UsbAssumption DEF PartnerAdded, MaySignal, TypeOK, LockInv, HoldsRole
<1>8. ASSUME NEW t \in Threads, TryRoleLock(t)
      PROVE  LockInv'
  <2>1. CASE RoleLockFree
    <3>1. /\ owner["mRoleSwitchLock"] = NoOne
          /\ owner' = [owner EXCEPT !["mRoleSwitchLock"] = t]
          /\ pc[t] = "try" /\ pc' = [pc EXCEPT ![t] = "drp"]
      BY <1>8, <2>1 DEF TryRoleLock, RoleLockFree
    <3>2. pc[Binder] \notin HoldsRole /\ \A u \in Threads : ~ (pc[u] = "drp")
      BY <3>1, UsbAssumption DEF LockInv
    <3> QED
      BY <3>1, <3>2, UsbAssumption DEF TypeOK, LockInv, HoldsRole
  <2>2. CASE ~ RoleLockFree
    BY <1>8, <2>2, UsbAssumption DEF TryRoleLock, TypeOK, LockInv, HoldsRole
  <2> QED
    BY <2>1, <2>2
<1>9. ASSUME NEW t \in Threads, RestoreDrp(t)
      PROVE  LockInv'
  BY <1>9, UsbAssumption DEF RestoreDrp, TypeOK, LockInv, HoldsRole
<1>10. ASSUME NEW t \in Threads, SigHandler(t)
      PROVE  LockInv'
  BY <1>10, UsbAssumption DEF SigHandler, TypeOK, LockInv, HoldsRole
<1>11. ASSUME NEW a \in Actors, QueryLock(a)
      PROVE  LockInv'
  BY <1>11, UsbAssumption DEF QueryLock, MayQuery, TypeOK, LockInv, HoldsRole
<1>12. ASSUME NEW a \in Actors, ListPorts(a)
      PROVE  LockInv'
  BY <1>12, UsbAssumption DEF ListPorts, TypeOK, LockInv, HoldsRole
<1>13. ASSUME NEW a \in Actors, ReadRoles(a)
      PROVE  LockInv'
  BY <1>13, UsbAssumption DEF ReadRoles, TypeOK, LockInv, HoldsRole
<1>14. ASSUME NEW a \in Actors, Report(a)
      PROVE  LockInv'
  <2>1. pc[a] = "report" /\ owner' = [owner EXCEPT !["mLock"] = NoOne]
    BY <1>14 DEF Report
  <2>2. PICK l \in {"try", "notify", "idle"} : pc' = [pc EXCEPT ![a] = l]
    BY <1>14, UsbAssumption DEF Report, AfterQuery
  <2> QED
    BY <2>1, <2>2, UsbAssumption DEF TypeOK, LockInv, HoldsRole
<1>15. CASE SetCallback
  BY <1>15, UsbAssumption DEF SetCallback, TypeOK, LockInv, HoldsRole
<1>16. CASE ReplaceCallback
  BY <1>16, UsbAssumption DEF ReplaceCallback, TypeOK, LockInv, HoldsRole
<1>17. CASE RegisterCallback
  <2>1. pc[Binder] = "setcb" /\ owner' = owner
    BY <1>17 DEF RegisterCallback
  <2>2. CASE pc' = [pc EXCEPT ![Binder] = "idle"]
    BY <2>1, <2>2, UsbAssumption DEF TypeOK, LockInv, HoldsRole
  <2>3. ASSUME NEW t \in Threads, pc[t] = "ended",
               pc' = [pc EXCEPT ![Binder] = "idle", ![t] = "open"]
        PROVE  LockInv'
    BY <2>1, <2>3, UsbAssumption DEF TypeOK, LockInv, HoldsRole
  <2> QED
    BY <1>17, <2>2, <2>3 DEF RegisterCallback, Alive
<1>18. CASE UnregisterCallback
  BY <1>18, UsbAssumption DEF UnregisterCallback, TypeOK, LockInv, HoldsRole
<1>19. CASE KillPoll
  <2>1. pc[Binder] = "kill"
    BY <1>19 DEF KillPoll
  <2>2. CASE pc' = [pc EXCEPT ![Binder] = "join"] /\ owner' = owner
    BY <2>1, <2>2, UsbAssumption DEF TypeOK, LockInv, HoldsRole
  <2>3. CASE /\ pc' = [pc EXCEPT ![Binder] = "idle"]
             /\ owner' = [owner EXCEPT !["mLock"] = NoOne]
    BY <2>1, <2>3, UsbAssumption DEF TypeOK, LockInv, HoldsRole
  <2> QED
    BY <1>19, <2>2, <2>3 DEF KillPoll
<1>20. CASE JoinPoll
  BY <1>20, UsbAssumption DEF JoinPoll, JoinReturns, TypeOK, LockInv, HoldsRole
<1>21. CASE ChangeSetting
  BY <1>21, UsbAssumption DEF ChangeSetting, Enter, Change, TypeOK, LockInv,
     HoldsRole
<1>22. CASE QueryPortStatus
  BY <1>22, UsbAssumption DEF QueryPortStatus, Enter, TypeOK, LockInv, HoldsRole
<1>23. CASE ResetUsbPort
  BY <1>23, UsbAssumption DEF ResetUsbPort, Enter, TypeOK, LockInv, HoldsRole
<1>24. CASE CallLimit
  BY <1>24, UsbAssumption DEF CallLimit, Enter, TypeOK, LockInv, HoldsRole
<1>25. CASE LimitPowerTransfer
  BY <1>25, UsbAssumption DEF LimitPowerTransfer, Change, TypeOK, LockInv,
     HoldsRole
<1>26. CASE Notify
  BY <1>26, UsbAssumption DEF Notify, TypeOK, LockInv, HoldsRole
<1>27. CASE SwitchRole
  BY <1>27, UsbAssumption DEF SwitchRole, TypeOK, LockInv, HoldsRole
<1>28. CASE RoleLock
  BY <1>28, UsbAssumption DEF RoleLock, TypeOK, LockInv, HoldsRole
<1>29. CASE Prepare
  BY <1>29, UsbAssumption DEF Prepare, TypeOK, LockInv, HoldsRole
<1>30. CASE PutPortType
  BY <1>30, UsbAssumption DEF PutPortType, TypeOK, LockInv, HoldsRole
<1>31. CASE Wait
  BY <1>31, UsbAssumption DEF Wait, TypeOK, LockInv, HoldsRole
<1>32. CASE Signalled
  BY <1>32, UsbAssumption DEF Signalled, WakeUp, TypeOK, LockInv, HoldsRole
<1>33. CASE Spurious
  BY <1>33, UsbAssumption DEF Spurious, WakeUp, TypeOK, LockInv, HoldsRole
<1>34. CASE Timeout
  BY <1>34, UsbAssumption DEF Timeout, WakeUp, TypeOK, LockInv, HoldsRole
<1>35. CASE Awake
  BY <1>35, UsbAssumption DEF Awake, TypeOK, LockInv, HoldsRole
<1>36. CASE TimedOut
  BY <1>36, UsbAssumption DEF TimedOut, AfterTimeout, TypeOK, LockInv, HoldsRole
<1>37. CASE Late
  BY <1>37, UsbAssumption DEF Late, TypeOK, LockInv, HoldsRole
<1>38. CASE GiveUp
  BY <1>38, UsbAssumption DEF GiveUp, TypeOK, LockInv, HoldsRole
<1>39. CASE NotifyRole
  BY <1>39, UsbAssumption DEF NotifyRole, TypeOK, LockInv, HoldsRole
<1> QED
  BY <1>1, <1>2, <1>3, <1>4, <1>5, <1>6, <1>7, <1>8, <1>9, <1>10, <1>11, <1>12,
     <1>13, <1>14, <1>15, <1>16, <1>17, <1>18, <1>19, <1>20, <1>21, <1>22,
     <1>23, <1>24, <1>25, <1>26, <1>27, <1>28, <1>29, <1>30, <1>31, <1>32,
     <1>33, <1>34, <1>35, <1>36, <1>37, <1>38, <1>39
     DEF Next, Poll, Query, Calls, Running

LEMMA ConstantTypes ==
    /\ NoReport \in Statuses
    /\ Drp \in PortTypes
    /\ Modes \subseteq PortTypes
  BY DEF NoReport, Statuses, Drp, PortTypes, Modes

\* Every step keeps the types.
LEMMA TypeStep ==
    ASSUME TypeOK, Next
    PROVE  TypeOK'
<1>1. CASE PartnerComes
  <2>1. queue' \in [Threads -> Seq({"add", "typec", "other"})]
    BY <1>1 DEF PartnerComes, Send, TypeOK
  <2> QED
    BY <1>1, <2>1, ConstantTypes, UsbAssumption DEF PartnerComes, Ops, Labels,
       TypeOK
<1>2. CASE PartnerGoes
  <2>1. queue' \in [Threads -> Seq({"add", "typec", "other"})]
    BY <1>2 DEF PartnerGoes, Send, TypeOK
  <2> QED
    BY <1>2, <2>1, ConstantTypes, UsbAssumption DEF PartnerGoes, Ops, Labels,
       TypeOK
<1>3. CASE OtherUevent
  <2>1. queue' \in [Threads -> Seq({"add", "typec", "other"})]
    BY <1>3 DEF OtherUevent, Send, TypeOK
  <2> QED
    BY <1>3, <2>1, ConstantTypes, UsbAssumption DEF OtherUevent, Ops, Labels,
       TypeOK
<1>4. CASE TypecUevent
  <2>1. queue' \in [Threads -> Seq({"add", "typec", "other"})]
    BY <1>4 DEF TypecUevent, Send, TypeOK
  <2> QED
    BY <1>4, <2>1, ConstantTypes, UsbAssumption DEF TypecUevent, Ops, Labels,
       TypeOK
<1>5. ASSUME NEW t \in Threads, OpenSocket(t)
      PROVE  TypeOK'
  BY <1>5, ConstantTypes, UsbAssumption DEF OpenSocket, Ops, Labels, TypeOK
<1>6. ASSUME NEW t \in Threads, PollFails(t)
      PROVE  TypeOK'
  BY <1>6, ConstantTypes, UsbAssumption DEF PollFails, End, Ops, Labels, TypeOK
<1>7. ASSUME NEW t \in Threads, CheckDestroy(t)
      PROVE  TypeOK'
  <2>1. \/ pc' = [pc EXCEPT ![t] = "ended"] /\ sig' = [sig EXCEPT ![t] = FALSE]
           /\ queue' = [queue EXCEPT ![t] = <<>>]
        \/ pc' = [pc EXCEPT ![t] = "enter"] /\ UNCHANGED <<sig, queue>>
    BY <1>7 DEF CheckDestroy, End
  <2>2. <<>> \in Seq({"add", "typec", "other"})
    OBVIOUS
  <2>3. UNCHANGED <<owner, partner, portType, wait, role, mCallback, mPoll,
                    destroyThread, conf, status>>
    BY <1>7 DEF CheckDestroy
  <2>4. pc' \in [Actors -> Labels]
    BY <2>1 DEF Labels, TypeOK
  <2>5. sig' \in [Threads -> BOOLEAN]
    BY <2>1 DEF TypeOK
  <2>6. queue' \in [Threads -> Seq({"add", "typec", "other"})]
    BY <2>1, <2>2 DEF TypeOK
  <2> QED
    BY <2>3, <2>4, <2>5, <2>6 DEF TypeOK
<1>8. ASSUME NEW t \in Threads, EnterEpoll(t)
      PROVE  TypeOK'
  BY <1>8, ConstantTypes, UsbAssumption DEF EnterEpoll, Ops, Labels, TypeOK
<1>9. ASSUME NEW t \in Threads, ReceiveUevent(t)
      PROVE  TypeOK'
  <2>1. queue' \in [Threads -> Seq({"add", "typec", "other"})]
    BY <1>9 DEF ReceiveUevent, TypeOK
  <2>2. \E l \in {"partner", "query", "check"} : pc' = [pc EXCEPT ![t] = l]
    BY <1>9 DEF ReceiveUevent, TypeOK
  <2> QED
    BY <1>9, <2>1, <2>2, ConstantTypes, UsbAssumption DEF ReceiveUevent, Ops,
       Labels, TypeOK
<1>10. ASSUME NEW t \in Threads, PartnerAdded(t)
      PROVE  TypeOK'
  <2>1. pc' \in [Actors -> Labels]
    BY <1>10, ConstantTypes DEF PartnerAdded, Labels, TypeOK
  <2>2. woken' \in BOOLEAN
    BY <1>10 DEF PartnerAdded, TypeOK
  <2>3. mPartnerUp' \in BOOLEAN
    BY <1>10 DEF PartnerAdded
  <2> QED
    BY <1>10, <2>1, <2>2, <2>3 DEF PartnerAdded, TypeOK
<1>11. ASSUME NEW t \in Threads, TryRoleLock(t)
      PROVE  TypeOK'
  BY <1>11, ConstantTypes, UsbAssumption DEF TryRoleLock, RoleLockFree, Ops,
     Labels, TypeOK
<1>12. ASSUME NEW t \in Threads, RestoreDrp(t)
      PROVE  TypeOK'
  BY <1>12, ConstantTypes, UsbAssumption DEF RestoreDrp, Ops, Labels, TypeOK
<1>13. ASSUME NEW t \in Threads, SigHandler(t)
      PROVE  TypeOK'
  BY <1>13, ConstantTypes, UsbAssumption DEF SigHandler, Ops, Labels, TypeOK
<1>14. ASSUME NEW a \in Actors, QueryLock(a)
      PROVE  TypeOK'
  BY <1>14, ConstantTypes, UsbAssumption DEF QueryLock, MayQuery, Ops, Labels,
     TypeOK
<1>15. ASSUME NEW a \in Actors, ListPorts(a)
      PROVE  TypeOK'
  <2>1. seen' \in [Actors -> Statuses]
    BY <1>15 DEF ListPorts, Statuses, TypeOK
  <2> QED
    BY <1>15, <2>1, ConstantTypes, UsbAssumption DEF ListPorts, Ops, Labels,
       TypeOK
<1>16. ASSUME NEW a \in Actors, ReadRoles(a)
      PROVE  TypeOK'
  <2>1. seen' \in [Actors -> Statuses]
    BY <1>16 DEF ReadRoles, Statuses, TypeOK
  <2> QED
    BY <1>16, <2>1, ConstantTypes, UsbAssumption DEF ReadRoles, Ops, Labels,
       TypeOK
<1>17. ASSUME NEW a \in Actors, Report(a)
      PROVE  TypeOK'
  <2>1. \/ pc' = [pc EXCEPT ![a] = "try"] /\ UNCHANGED role
        \/ pc' = [pc EXCEPT ![a] = "notify"] /\ UNCHANGED role
        \/ /\ pc' = [pc EXCEPT ![Binder] = "idle"]
           /\ op' = "none" /\ wanted' = Drp /\ roleSwitch' = FALSE
    BY <1>17, UsbAssumption DEF Report, AfterQuery
  <2>2. reported' \in Statuses /\ seen' \in [Actors -> Statuses]
    BY <1>17, ConstantTypes DEF Report, TypeOK
  <2>3. /\ owner' = [owner EXCEPT !["mLock"] = NoOne]
        /\ UNCHANGED <<kernel, wait, life, conf, unseen>>
    BY <1>17 DEF Report
  <2>4. pc' \in [Actors -> Labels]
    BY <1>17, <2>1 DEF Labels, TypeOK
  <2>5. op' \in Ops /\ wanted' \in PortTypes /\ roleSwitch' \in BOOLEAN
    BY <2>1, ConstantTypes DEF Ops, TypeOK
  <2>6. owner' \in [Mutexes -> Actors \cup {NoOne}]
    BY <2>3 DEF TypeOK
  <2> QED
    BY <2>2, <2>3, <2>4, <2>5, <2>6 DEF TypeOK
<1>18. CASE SetCallback
  BY <1>18, ConstantTypes, UsbAssumption DEF SetCallback, Ops, Labels, TypeOK
<1>19. CASE ReplaceCallback
  BY <1>19, ConstantTypes, UsbAssumption DEF ReplaceCallback, Ops, Labels,
     TypeOK
<1>20. CASE RegisterCallback
  BY <1>20, ConstantTypes, UsbAssumption DEF RegisterCallback, Ops, Labels,
     TypeOK
<1>21. CASE UnregisterCallback
  BY <1>21, ConstantTypes, UsbAssumption DEF UnregisterCallback, Ops, Labels,
     TypeOK
<1>22. CASE KillPoll
  <2>1. \/ pc' = [pc EXCEPT ![Binder] = "join"] /\ sig' = [sig EXCEPT ![mPoll] = TRUE]
           /\ UNCHANGED <<owner, role>>
        \/ /\ pc' = [pc EXCEPT ![Binder] = "idle"]
           /\ owner' = [owner EXCEPT !["mLock"] = NoOne]
           /\ op' = "none" /\ wanted' = Drp /\ roleSwitch' = FALSE
           /\ UNCHANGED sig
    BY <1>22 DEF KillPoll
  <2>2. UNCHANGED <<kernel, wait, mCallback, mPoll, destroyThread, conf,
  status>>
    BY <1>22 DEF KillPoll
  <2>3. pc' \in [Actors -> Labels]
    BY <2>1 DEF Labels, TypeOK
  <2>4. owner' \in [Mutexes -> Actors \cup {NoOne}] /\ sig' \in [Threads -> BOOLEAN]
    BY <2>1 DEF TypeOK
  <2>5. op' \in Ops /\ wanted' \in PortTypes /\ roleSwitch' \in BOOLEAN
    BY <2>1, ConstantTypes DEF Ops, TypeOK
  <2> QED
    BY <2>2, <2>3, <2>4, <2>5 DEF TypeOK
<1>23. CASE JoinPoll
  BY <1>23, ConstantTypes, UsbAssumption DEF JoinPoll, JoinReturns, Ops,
     Labels, TypeOK
<1>24. CASE ChangeSetting
  <2>1. conf' \in [Settings -> BOOLEAN]
    BY <1>24 DEF ChangeSetting, Change, TypeOK
  <2> QED
    BY <1>24, <2>1, ConstantTypes, UsbAssumption DEF ChangeSetting, Enter, Ops,
       Labels, TypeOK
<1>25. CASE QueryPortStatus
  BY <1>25, ConstantTypes, UsbAssumption DEF QueryPortStatus, Enter, Ops,
     Labels, TypeOK
<1>26. CASE ResetUsbPort
  BY <1>26, ConstantTypes, UsbAssumption DEF ResetUsbPort, Enter, Ops, Labels,
     TypeOK
<1>27. CASE CallLimit
  BY <1>27, ConstantTypes, UsbAssumption DEF CallLimit, Enter, Ops, Labels,
     TypeOK
<1>28. CASE LimitPowerTransfer
  <2>1. conf' \in [Settings -> BOOLEAN]
    BY <1>28 DEF LimitPowerTransfer, Change, TypeOK
  <2> QED
    BY <1>28, <2>1, ConstantTypes, UsbAssumption DEF LimitPowerTransfer, Ops,
       Labels, TypeOK
<1>29. CASE Notify
  <2>1. CASE op = "setting"
    BY <1>29, <2>1, ConstantTypes, UsbAssumption DEF Notify, Ops, Labels, TypeOK
  <2>2. CASE ~ (op = "setting")
    BY <1>29, <2>2, ConstantTypes, UsbAssumption DEF Notify, Ops, Labels, TypeOK
  <2> QED
    BY <2>1, <2>2
<1>30. CASE SwitchRole
  BY <1>30, ConstantTypes, UsbAssumption DEF SwitchRole, Ops, Labels, TypeOK
<1>31. CASE RoleLock
  BY <1>31, ConstantTypes, UsbAssumption DEF RoleLock, Ops, Labels, TypeOK
<1>32. CASE Prepare
  BY <1>32, ConstantTypes, UsbAssumption DEF Prepare, Ops, Labels, TypeOK
<1>33. CASE PutPortType
  <2>1. pc' \in {[pc EXCEPT ![Binder] = "arm"],
  [pc EXCEPT ![Binder] = "giveup"]}
    BY <1>33 DEF PutPortType
  <2>2. /\ owner' \in {owner, [owner EXCEPT !["mPartnerLock"] = NoOne]}
        /\ portType' \in {portType, wanted}
        /\ fresh' \in BOOLEAN /\ wrote' \in BOOLEAN
    BY <1>33 DEF PutPortType, TypeOK
  <2> QED
    BY <1>33, <2>1, <2>2, UsbAssumption DEF PutPortType, Ops, Labels, TypeOK
<1>34. CASE Wait
  BY <1>34, ConstantTypes, UsbAssumption DEF Wait, Ops, Labels, TypeOK
<1>35. CASE Signalled
  BY <1>35, ConstantTypes, UsbAssumption DEF Signalled, WakeUp, Ops, Labels,
     TypeOK
<1>36. CASE Spurious
  BY <1>36, ConstantTypes, UsbAssumption DEF Spurious, WakeUp, Ops, Labels,
     TypeOK
<1>37. CASE Timeout
  BY <1>37, ConstantTypes, UsbAssumption DEF Timeout, WakeUp, Ops, Labels,
     TypeOK
<1>38. CASE Awake
  <2>1. CASE mPartnerUp
    BY <1>38, <2>1, ConstantTypes, UsbAssumption DEF Awake, Ops, Labels, TypeOK
  <2>2. CASE ~ mPartnerUp
    BY <1>38, <2>2, ConstantTypes, UsbAssumption DEF Awake, Ops, Labels, TypeOK
  <2> QED
    BY <2>1, <2>2
<1>39. CASE TimedOut
  BY <1>39, ConstantTypes, UsbAssumption DEF TimedOut, AfterTimeout, Ops,
     Labels, TypeOK
<1>40. CASE Late
  BY <1>40, ConstantTypes, UsbAssumption DEF Late, Ops, Labels, TypeOK
<1>41. CASE GiveUp
  BY <1>41, ConstantTypes, UsbAssumption DEF GiveUp, Ops, Labels, TypeOK
<1>42. CASE NotifyRole
  BY <1>42, ConstantTypes, UsbAssumption DEF NotifyRole, Ops, Labels, TypeOK
<1> QED
  BY <1>1, <1>2, <1>3, <1>4, <1>5, <1>6, <1>7, <1>8, <1>9, <1>10, <1>11, <1>12,
     <1>13, <1>14, <1>15, <1>16, <1>17, <1>18, <1>19, <1>20, <1>21, <1>22,
     <1>23, <1>24, <1>25, <1>26, <1>27, <1>28, <1>29, <1>30, <1>31, <1>32,
     <1>33, <1>34, <1>35, <1>36, <1>37, <1>38, <1>39, <1>40, <1>41, <1>42
     DEF Next, Poll, Query, Calls, Running, Kernel

\* setCallback starts a poll thread only after the last one has ended.
LEMMA LifeStep ==
    ASSUME TypeOK, LifeInv, Next
    PROVE  LifeInv'
<1>1. CASE Kernel
  BY <1>1, UsbAssumption DEF Kernel, PartnerComes, PartnerGoes, OtherUevent,
     TypecUevent, Send, TypeOK, LifeInv, Alive
<1>2. ASSUME NEW t \in Threads, OpenSocket(t)
      PROVE  LifeInv'
  BY <1>2, UsbAssumption DEF OpenSocket, TypeOK, LifeInv, Alive
<1>3. ASSUME NEW t \in Threads, PollFails(t)
      PROVE  LifeInv'
  BY <1>3, UsbAssumption DEF PollFails, End, TypeOK, LifeInv, Alive
<1>4. ASSUME NEW t \in Threads, CheckDestroy(t)
      PROVE  LifeInv'
  BY <1>4, UsbAssumption DEF CheckDestroy, End, TypeOK, LifeInv, Alive
<1>5. ASSUME NEW t \in Threads, EnterEpoll(t)
      PROVE  LifeInv'
  BY <1>5, UsbAssumption DEF EnterEpoll, TypeOK, LifeInv, Alive
<1>6. ASSUME NEW t \in Threads, ReceiveUevent(t)
      PROVE  LifeInv'
  BY <1>6, UsbAssumption DEF ReceiveUevent, TypeOK, LifeInv, Alive
<1>7. ASSUME NEW t \in Threads, PartnerAdded(t)
      PROVE  LifeInv'
  BY <1>7, UsbAssumption DEF PartnerAdded, MaySignal, TypeOK, LifeInv, Alive
<1>8. ASSUME NEW t \in Threads, TryRoleLock(t)
      PROVE  LifeInv'
  BY <1>8, UsbAssumption DEF TryRoleLock, RoleLockFree, TypeOK, LifeInv, Alive
<1>9. ASSUME NEW t \in Threads, RestoreDrp(t)
      PROVE  LifeInv'
  BY <1>9, UsbAssumption DEF RestoreDrp, TypeOK, LifeInv, Alive
<1>10. ASSUME NEW t \in Threads, SigHandler(t)
      PROVE  LifeInv'
  BY <1>10, UsbAssumption DEF SigHandler, TypeOK, LifeInv, Alive
<1>11. ASSUME NEW a \in Actors, QueryLock(a)
      PROVE  LifeInv'
  BY <1>11, UsbAssumption DEF QueryLock, MayQuery, TypeOK, LifeInv, Alive
<1>12. ASSUME NEW a \in Actors, ListPorts(a)
      PROVE  LifeInv'
  BY <1>12, UsbAssumption DEF ListPorts, TypeOK, LifeInv, Alive
<1>13. ASSUME NEW a \in Actors, ReadRoles(a)
      PROVE  LifeInv'
  BY <1>13, UsbAssumption DEF ReadRoles, TypeOK, LifeInv, Alive
<1>14. ASSUME NEW a \in Actors, Report(a)
      PROVE  LifeInv'
  BY <1>14, UsbAssumption DEF Report, AfterQuery, TypeOK, LifeInv, Alive
<1>15. CASE SetCallback
  BY <1>15, UsbAssumption DEF SetCallback, TypeOK, LifeInv, Alive
<1>16. CASE ReplaceCallback
  BY <1>16, UsbAssumption DEF ReplaceCallback, TypeOK, LifeInv, Alive
<1>17. CASE RegisterCallback
  BY <1>17, UsbAssumption DEF RegisterCallback, TypeOK, LifeInv, Alive
<1>18. CASE UnregisterCallback
  BY <1>18, UsbAssumption DEF UnregisterCallback, TypeOK, LifeInv, Alive
<1>19. CASE KillPoll
  BY <1>19, UsbAssumption DEF KillPoll, TypeOK, LifeInv, Alive
<1>20. CASE JoinPoll
  BY <1>20, UsbAssumption DEF JoinPoll, JoinReturns, TypeOK, LifeInv, Alive
<1>21. CASE ChangeSetting
  BY <1>21, UsbAssumption DEF ChangeSetting, Enter, Change, TypeOK, LifeInv,
     Alive
<1>22. CASE QueryPortStatus
  BY <1>22, UsbAssumption DEF QueryPortStatus, Enter, TypeOK, LifeInv, Alive
<1>23. CASE ResetUsbPort
  BY <1>23, UsbAssumption DEF ResetUsbPort, Enter, TypeOK, LifeInv, Alive
<1>24. CASE CallLimit
  BY <1>24, UsbAssumption DEF CallLimit, Enter, TypeOK, LifeInv, Alive
<1>25. CASE LimitPowerTransfer
  BY <1>25, UsbAssumption DEF LimitPowerTransfer, Change, TypeOK, LifeInv, Alive
<1>26. CASE Notify
  BY <1>26, UsbAssumption DEF Notify, TypeOK, LifeInv, Alive
<1>27. CASE SwitchRole
  BY <1>27, UsbAssumption DEF SwitchRole, TypeOK, LifeInv, Alive
<1>28. CASE RoleLock
  BY <1>28, UsbAssumption DEF RoleLock, TypeOK, LifeInv, Alive
<1>29. CASE Prepare
  BY <1>29, UsbAssumption DEF Prepare, TypeOK, LifeInv, Alive
<1>30. CASE PutPortType
  BY <1>30, UsbAssumption DEF PutPortType, TypeOK, LifeInv, Alive
<1>31. CASE Wait
  BY <1>31, UsbAssumption DEF Wait, TypeOK, LifeInv, Alive
<1>32. CASE Signalled
  BY <1>32, UsbAssumption DEF Signalled, WakeUp, TypeOK, LifeInv, Alive
<1>33. CASE Spurious
  BY <1>33, UsbAssumption DEF Spurious, WakeUp, TypeOK, LifeInv, Alive
<1>34. CASE Timeout
  BY <1>34, UsbAssumption DEF Timeout, WakeUp, TypeOK, LifeInv, Alive
<1>35. CASE Awake
  BY <1>35, UsbAssumption DEF Awake, TypeOK, LifeInv, Alive
<1>36. CASE TimedOut
  BY <1>36, UsbAssumption DEF TimedOut, AfterTimeout, TypeOK, LifeInv, Alive
<1>37. CASE Late
  BY <1>37, UsbAssumption DEF Late, TypeOK, LifeInv, Alive
<1>38. CASE GiveUp
  BY <1>38, UsbAssumption DEF GiveUp, TypeOK, LifeInv, Alive
<1>39. CASE NotifyRole
  BY <1>39, UsbAssumption DEF NotifyRole, TypeOK, LifeInv, Alive
<1> QED
  BY <1>1, <1>2, <1>3, <1>4, <1>5, <1>6, <1>7, <1>8, <1>9, <1>10, <1>11, <1>12,
     <1>13, <1>14, <1>15, <1>16, <1>17, <1>18, <1>19, <1>20, <1>21, <1>22,
     <1>23, <1>24, <1>25, <1>26, <1>27, <1>28, <1>29, <1>30, <1>31, <1>32,
     <1>33, <1>34, <1>35, <1>36, <1>37, <1>38, <1>39
     DEF Next, Poll, Query, Calls, Running

\* While switchRole holds mRoleSwitchLock, nobody else writes the port type.
LEMMA RoleStep ==
    ASSUME TypeOK, LockInv, RoleInv, Next
    PROVE  RoleInv'
<1>1. CASE Kernel
  BY <1>1, UsbAssumption DEF Kernel, PartnerComes, PartnerGoes, OtherUevent,
     TypecUevent, Send, TypeOK, LockInv, HoldsRole, RoleInv, SuccessKeepsType
<1>2. ASSUME NEW t \in Threads, OpenSocket(t)
      PROVE  RoleInv'
  BY <1>2, UsbAssumption DEF OpenSocket, TypeOK, LockInv, HoldsRole, RoleInv,
     SuccessKeepsType
<1>3. ASSUME NEW t \in Threads, PollFails(t)
      PROVE  RoleInv'
  BY <1>3, UsbAssumption DEF PollFails, End, TypeOK, LockInv, HoldsRole,
     RoleInv, SuccessKeepsType
<1>4. ASSUME NEW t \in Threads, CheckDestroy(t)
      PROVE  RoleInv'
  BY <1>4, UsbAssumption DEF CheckDestroy, End, TypeOK, LockInv, HoldsRole,
     RoleInv, SuccessKeepsType
<1>5. ASSUME NEW t \in Threads, EnterEpoll(t)
      PROVE  RoleInv'
  BY <1>5, UsbAssumption DEF EnterEpoll, TypeOK, LockInv, HoldsRole, RoleInv,
     SuccessKeepsType
<1>6. ASSUME NEW t \in Threads, ReceiveUevent(t)
      PROVE  RoleInv'
  BY <1>6, UsbAssumption DEF ReceiveUevent, TypeOK, LockInv, HoldsRole,
     RoleInv, SuccessKeepsType
<1>7. ASSUME NEW t \in Threads, PartnerAdded(t)
      PROVE  RoleInv'
  BY <1>7, UsbAssumption DEF PartnerAdded, MaySignal, TypeOK, LockInv,
     HoldsRole, RoleInv, SuccessKeepsType
<1>8. ASSUME NEW t \in Threads, TryRoleLock(t)
      PROVE  RoleInv'
  BY <1>8, UsbAssumption DEF TryRoleLock, RoleLockFree, TypeOK, LockInv,
     HoldsRole, RoleInv, SuccessKeepsType
<1>9. ASSUME NEW t \in Threads, RestoreDrp(t)
      PROVE  RoleInv'
  BY <1>9, UsbAssumption DEF RestoreDrp, TypeOK, LockInv, HoldsRole, RoleInv,
     SuccessKeepsType
<1>10. ASSUME NEW t \in Threads, SigHandler(t)
      PROVE  RoleInv'
  BY <1>10, UsbAssumption DEF SigHandler, TypeOK, LockInv, HoldsRole, RoleInv,
     SuccessKeepsType
<1>11. ASSUME NEW a \in Actors, QueryLock(a)
      PROVE  RoleInv'
  BY <1>11, UsbAssumption DEF QueryLock, MayQuery, TypeOK, LockInv, HoldsRole,
     RoleInv, SuccessKeepsType
<1>12. ASSUME NEW a \in Actors, ListPorts(a)
      PROVE  RoleInv'
  BY <1>12, UsbAssumption DEF ListPorts, TypeOK, LockInv, HoldsRole, RoleInv,
     SuccessKeepsType
<1>13. ASSUME NEW a \in Actors, ReadRoles(a)
      PROVE  RoleInv'
  BY <1>13, UsbAssumption DEF ReadRoles, TypeOK, LockInv, HoldsRole, RoleInv,
     SuccessKeepsType
<1>14. ASSUME NEW a \in Actors, Report(a)
      PROVE  RoleInv'
  BY <1>14, UsbAssumption DEF Report, AfterQuery, TypeOK, LockInv, HoldsRole,
     RoleInv, SuccessKeepsType
<1>15. CASE SetCallback
  BY <1>15, UsbAssumption DEF SetCallback, TypeOK, LockInv, HoldsRole, RoleInv,
     SuccessKeepsType
<1>16. CASE ReplaceCallback
  BY <1>16, UsbAssumption DEF ReplaceCallback, TypeOK, LockInv, HoldsRole,
     RoleInv, SuccessKeepsType
<1>17. CASE RegisterCallback
  BY <1>17, UsbAssumption DEF RegisterCallback, TypeOK, LockInv, HoldsRole,
     RoleInv, SuccessKeepsType
<1>18. CASE UnregisterCallback
  BY <1>18, UsbAssumption DEF UnregisterCallback, TypeOK, LockInv, HoldsRole,
     RoleInv, SuccessKeepsType
<1>19. CASE KillPoll
  BY <1>19, UsbAssumption DEF KillPoll, TypeOK, LockInv, HoldsRole, RoleInv,
     SuccessKeepsType
<1>20. CASE JoinPoll
  BY <1>20, UsbAssumption DEF JoinPoll, JoinReturns, TypeOK, LockInv,
     HoldsRole, RoleInv, SuccessKeepsType
<1>21. CASE ChangeSetting
  BY <1>21, UsbAssumption DEF ChangeSetting, Enter, Change, TypeOK, LockInv,
     HoldsRole, RoleInv, SuccessKeepsType
<1>22. CASE QueryPortStatus
  BY <1>22, UsbAssumption DEF QueryPortStatus, Enter, TypeOK, LockInv,
     HoldsRole, RoleInv, SuccessKeepsType
<1>23. CASE ResetUsbPort
  BY <1>23, UsbAssumption DEF ResetUsbPort, Enter, TypeOK, LockInv, HoldsRole,
     RoleInv, SuccessKeepsType
<1>24. CASE CallLimit
  BY <1>24, UsbAssumption DEF CallLimit, Enter, TypeOK, LockInv, HoldsRole,
     RoleInv, SuccessKeepsType
<1>25. CASE LimitPowerTransfer
  BY <1>25, UsbAssumption DEF LimitPowerTransfer, Change, TypeOK, LockInv,
     HoldsRole, RoleInv, SuccessKeepsType
<1>26. CASE Notify
  BY <1>26, UsbAssumption DEF Notify, TypeOK, LockInv, HoldsRole, RoleInv,
     SuccessKeepsType
<1>27. CASE SwitchRole
  BY <1>27, UsbAssumption DEF SwitchRole, TypeOK, LockInv, HoldsRole, RoleInv,
     SuccessKeepsType
<1>28. CASE RoleLock
  BY <1>28, UsbAssumption DEF RoleLock, TypeOK, LockInv, HoldsRole, RoleInv,
     SuccessKeepsType
<1>29. CASE Prepare
  BY <1>29, UsbAssumption DEF Prepare, TypeOK, LockInv, HoldsRole, RoleInv,
     SuccessKeepsType
<1>30. CASE PutPortType
  BY <1>30, UsbAssumption DEF PutPortType, TypeOK, LockInv, HoldsRole, RoleInv,
     SuccessKeepsType
<1>31. CASE Wait
  BY <1>31, UsbAssumption DEF Wait, TypeOK, LockInv, HoldsRole, RoleInv,
     SuccessKeepsType
<1>32. CASE Signalled
  BY <1>32, UsbAssumption DEF Signalled, WakeUp, TypeOK, LockInv, HoldsRole,
     RoleInv, SuccessKeepsType
<1>33. CASE Spurious
  BY <1>33, UsbAssumption DEF Spurious, WakeUp, TypeOK, LockInv, HoldsRole,
     RoleInv, SuccessKeepsType
<1>34. CASE Timeout
  BY <1>34, UsbAssumption DEF Timeout, WakeUp, TypeOK, LockInv, HoldsRole,
     RoleInv, SuccessKeepsType
<1>35. CASE Awake
  BY <1>35, UsbAssumption DEF Awake, TypeOK, LockInv, HoldsRole, RoleInv,
     SuccessKeepsType
<1>36. CASE TimedOut
  BY <1>36, UsbAssumption DEF TimedOut, AfterTimeout, TypeOK, LockInv,
     HoldsRole, RoleInv, SuccessKeepsType
<1>37. CASE Late
  BY <1>37, UsbAssumption DEF Late, TypeOK, LockInv, HoldsRole, RoleInv,
     SuccessKeepsType
<1>38. CASE GiveUp
  BY <1>38, UsbAssumption DEF GiveUp, TypeOK, LockInv, HoldsRole, RoleInv,
     SuccessKeepsType
<1>39. CASE NotifyRole
  BY <1>39, UsbAssumption DEF NotifyRole, TypeOK, LockInv, HoldsRole, RoleInv,
     SuccessKeepsType
<1> QED
  BY <1>1, <1>2, <1>3, <1>4, <1>5, <1>6, <1>7, <1>8, <1>9, <1>10, <1>11, <1>12,
     <1>13, <1>14, <1>15, <1>16, <1>17, <1>18, <1>19, <1>20, <1>21, <1>22,
     <1>23, <1>24, <1>25, <1>26, <1>27, <1>28, <1>29, <1>30, <1>31, <1>32,
     <1>33, <1>34, <1>35, <1>36, <1>37, <1>38, <1>39
     DEF Next, Poll, Query, Calls, Running

\* mPartnerUp is set only where the binder thread waits or will look at it.
LEMMA PartnerStep ==
    ASSUME TypeOK, LockInv, PartnerInv, Next
    PROVE  PartnerInv'
<1>1. CASE Kernel
  BY <1>1, UsbAssumption DEF Kernel, PartnerComes, PartnerGoes, OtherUevent,
     TypecUevent, Send, TypeOK, LockInv, PartnerInv, NoLostSignal
<1>2. ASSUME NEW t \in Threads, OpenSocket(t)
      PROVE  PartnerInv'
  BY <1>2, UsbAssumption DEF OpenSocket, TypeOK, LockInv, PartnerInv,
     NoLostSignal
<1>3. ASSUME NEW t \in Threads, PollFails(t)
      PROVE  PartnerInv'
  BY <1>3, UsbAssumption DEF PollFails, End, TypeOK, LockInv, PartnerInv,
     NoLostSignal
<1>4. ASSUME NEW t \in Threads, CheckDestroy(t)
      PROVE  PartnerInv'
  BY <1>4, UsbAssumption DEF CheckDestroy, End, TypeOK, LockInv, PartnerInv,
     NoLostSignal
<1>5. ASSUME NEW t \in Threads, EnterEpoll(t)
      PROVE  PartnerInv'
  BY <1>5, UsbAssumption DEF EnterEpoll, TypeOK, LockInv, PartnerInv,
     NoLostSignal
<1>6. ASSUME NEW t \in Threads, ReceiveUevent(t)
      PROVE  PartnerInv'
  BY <1>6, UsbAssumption DEF ReceiveUevent, TypeOK, LockInv, PartnerInv,
     NoLostSignal
<1>7. ASSUME NEW t \in Threads, PartnerAdded(t)
      PROVE  PartnerInv'
  BY <1>7, UsbAssumption DEF PartnerAdded, MaySignal, TypeOK, LockInv,
     PartnerInv, NoLostSignal
<1>8. ASSUME NEW t \in Threads, TryRoleLock(t)
      PROVE  PartnerInv'
  BY <1>8, UsbAssumption DEF TryRoleLock, RoleLockFree, TypeOK, LockInv,
     PartnerInv, NoLostSignal
<1>9. ASSUME NEW t \in Threads, RestoreDrp(t)
      PROVE  PartnerInv'
  BY <1>9, UsbAssumption DEF RestoreDrp, TypeOK, LockInv, PartnerInv,
     NoLostSignal
<1>10. ASSUME NEW t \in Threads, SigHandler(t)
      PROVE  PartnerInv'
  BY <1>10, UsbAssumption DEF SigHandler, TypeOK, LockInv, PartnerInv,
     NoLostSignal
<1>11. ASSUME NEW a \in Actors, QueryLock(a)
      PROVE  PartnerInv'
  BY <1>11, UsbAssumption DEF QueryLock, MayQuery, TypeOK, LockInv, PartnerInv,
     NoLostSignal
<1>12. ASSUME NEW a \in Actors, ListPorts(a)
      PROVE  PartnerInv'
  BY <1>12, UsbAssumption DEF ListPorts, TypeOK, LockInv, PartnerInv,
     NoLostSignal
<1>13. ASSUME NEW a \in Actors, ReadRoles(a)
      PROVE  PartnerInv'
  BY <1>13, UsbAssumption DEF ReadRoles, TypeOK, LockInv, PartnerInv,
     NoLostSignal
<1>14. ASSUME NEW a \in Actors, Report(a)
      PROVE  PartnerInv'
  BY <1>14, UsbAssumption DEF Report, AfterQuery, TypeOK, LockInv, PartnerInv,
     NoLostSignal
<1>15. CASE SetCallback
  BY <1>15, UsbAssumption DEF SetCallback, TypeOK, LockInv, PartnerInv,
     NoLostSignal
<1>16. CASE ReplaceCallback
  BY <1>16, UsbAssumption DEF ReplaceCallback, TypeOK, LockInv, PartnerInv,
     NoLostSignal
<1>17. CASE RegisterCallback
  BY <1>17, UsbAssumption DEF RegisterCallback, TypeOK, LockInv, PartnerInv,
     NoLostSignal
<1>18. CASE UnregisterCallback
  BY <1>18, UsbAssumption DEF UnregisterCallback, TypeOK, LockInv, PartnerInv,
     NoLostSignal
<1>19. CASE KillPoll
  BY <1>19, UsbAssumption DEF KillPoll, TypeOK, LockInv, PartnerInv,
     NoLostSignal
<1>20. CASE JoinPoll
  BY <1>20, UsbAssumption DEF JoinPoll, JoinReturns, TypeOK, LockInv,
     PartnerInv, NoLostSignal
<1>21. CASE ChangeSetting
  BY <1>21, UsbAssumption DEF ChangeSetting, Enter, Change, TypeOK, LockInv,
     PartnerInv, NoLostSignal
<1>22. CASE QueryPortStatus
  BY <1>22, UsbAssumption DEF QueryPortStatus, Enter, TypeOK, LockInv,
     PartnerInv, NoLostSignal
<1>23. CASE ResetUsbPort
  BY <1>23, UsbAssumption DEF ResetUsbPort, Enter, TypeOK, LockInv, PartnerInv,
     NoLostSignal
<1>24. CASE CallLimit
  BY <1>24, UsbAssumption DEF CallLimit, Enter, TypeOK, LockInv, PartnerInv,
     NoLostSignal
<1>25. CASE LimitPowerTransfer
  BY <1>25, UsbAssumption DEF LimitPowerTransfer, Change, TypeOK, LockInv,
     PartnerInv, NoLostSignal
<1>26. CASE Notify
  BY <1>26, UsbAssumption DEF Notify, TypeOK, LockInv, PartnerInv, NoLostSignal
<1>27. CASE SwitchRole
  BY <1>27, UsbAssumption DEF SwitchRole, TypeOK, LockInv, PartnerInv,
     NoLostSignal
<1>28. CASE RoleLock
  BY <1>28, UsbAssumption DEF RoleLock, TypeOK, LockInv, PartnerInv,
     NoLostSignal
<1>29. CASE Prepare
  BY <1>29, UsbAssumption DEF Prepare, TypeOK, LockInv, PartnerInv, NoLostSignal
<1>30. CASE PutPortType
  BY <1>30, UsbAssumption DEF PutPortType, TypeOK, LockInv, PartnerInv,
     NoLostSignal
<1>31. CASE Wait
  BY <1>31, UsbAssumption DEF Wait, TypeOK, LockInv, PartnerInv, NoLostSignal
<1>32. CASE Signalled
  BY <1>32, UsbAssumption DEF Signalled, WakeUp, TypeOK, LockInv, PartnerInv,
     NoLostSignal
<1>33. CASE Spurious
  BY <1>33, UsbAssumption DEF Spurious, WakeUp, TypeOK, LockInv, PartnerInv,
     NoLostSignal
<1>34. CASE Timeout
  BY <1>34, UsbAssumption DEF Timeout, WakeUp, TypeOK, LockInv, PartnerInv,
     NoLostSignal
<1>35. CASE Awake
  BY <1>35, UsbAssumption DEF Awake, TypeOK, LockInv, PartnerInv, NoLostSignal
<1>36. CASE TimedOut
  BY <1>36, UsbAssumption DEF TimedOut, AfterTimeout, TypeOK, LockInv,
     PartnerInv, NoLostSignal
<1>37. CASE Late
  BY <1>37, UsbAssumption DEF Late, TypeOK, LockInv, PartnerInv, NoLostSignal
<1>38. CASE GiveUp
  BY <1>38, UsbAssumption DEF GiveUp, TypeOK, LockInv, PartnerInv, NoLostSignal
<1>39. CASE NotifyRole
  BY <1>39, UsbAssumption DEF NotifyRole, TypeOK, LockInv, PartnerInv,
     NoLostSignal
<1> QED
  BY <1>1, <1>2, <1>3, <1>4, <1>5, <1>6, <1>7, <1>8, <1>9, <1>10, <1>11, <1>12,
     <1>13, <1>14, <1>15, <1>16, <1>17, <1>18, <1>19, <1>20, <1>21, <1>22,
     <1>23, <1>24, <1>25, <1>26, <1>27, <1>28, <1>29, <1>30, <1>31, <1>32,
     <1>33, <1>34, <1>35, <1>36, <1>37, <1>38, <1>39
     DEF Next, Poll, Query, Calls, Running

-----------------------------------------------------------------------------
(* The invariant.                                                           *)

LEMMA InitIInv ==
    ASSUME Init
    PROVE  IInv
<1>1. TypeOK
  <2>1. queue \in [Threads -> Seq({"add", "typec", "other"})]
    BY DEF Init
  <2>2. pc \in [Actors -> Labels] /\ owner \in [Mutexes -> Actors \cup {NoOne}]
    BY DEF Init, Labels
  <2>3. seen \in [Actors -> Statuses] /\ reported \in Statuses
    BY ConstantTypes DEF Init
  <2> QED
    BY <2>1, <2>2, <2>3, ConstantTypes DEF Init, TypeOK, Ops
<1>2. LockInv /\ LifeInv /\ RoleInv /\ PartnerInv
  BY UsbAssumption DEF Init, LockInv, HoldsRole, LifeInv, Alive, RoleInv,
                       SuccessKeepsType, PartnerInv, NoLostSignal
<1> QED
  BY <1>1, <1>2 DEF IInv

LEMMA StutterIInv ==
    ASSUME IInv, UNCHANGED vars
    PROVE  IInv'
  BY DEF vars, IInv, TypeOK, LockInv, LifeInv, Alive, RoleInv,
         SuccessKeepsType, PartnerInv, NoLostSignal

\* The mutexes are held where the labels say, at most one poll thread lives,
\* and neither the port type nor the partner's signal is lost meanwhile.
THEOREM Invariance == Spec => []IInv
<1>1. Init => IInv
  BY InitIInv
<1>2. IInv /\ [Next]_vars => IInv'
  <2> SUFFICES ASSUME IInv, Next
               PROVE  IInv'
    BY StutterIInv
  <2>1. TypeOK' /\ LockInv' /\ LifeInv'
    BY TypeStep, LockStep, LifeStep DEF IInv
  <2>2. RoleInv' /\ PartnerInv'
    BY RoleStep, PartnerStep DEF IInv
  <2> QED
    BY <2>1, <2>2 DEF IInv
<1> QED
  BY <1>1, <1>2, PTL DEF Spec

-----------------------------------------------------------------------------
(* The properties.                                                          *)

\* Every variable keeps its type.
THEOREM TypeCorrect == Spec => []TypeOK
<1>1. IInv => TypeOK
  BY DEF IInv
<1> QED
  BY <1>1, Invariance, PTL

\* A role switch that is reported as a success is not undone by the poll
\* thread, which restores dual role only with mRoleSwitchLock.
THEOREM KeepsPortType == Spec => []SuccessKeepsType
<1>1. IInv => SuccessKeepsType
  BY DEF IInv, RoleInv
<1> QED
  BY <1>1, Invariance, PTL

\* A partner that comes up while switchMode waits always wakes it.
THEOREM LosesNoSignal == Spec => []NoLostSignal
<1>1. IInv => NoLostSignal
  BY DEF IInv, PartnerInv
<1> QED
  BY <1>1, Invariance, PTL

\* However often a callback is registered and unregistered, there are never
\* two poll threads.
THEOREM AtMostOnePollThread == Spec => []OnePollThread
<1>1. ASSUME IInv
      PROVE  OnePollThread
  <2> DEFINE S == {t \in Threads : Alive(t)}
  <2>1. S \subseteq {mPoll}
    BY <1>1 DEF IInv, LifeInv
  <2>2. IsFiniteSet({mPoll}) /\ Cardinality({mPoll}) = 1
    BY FS_Singleton
  <2>3. Cardinality(S) <= 1
    BY <2>1, <2>2, FS_Subset
  <2> QED
    BY <2>3 DEF OnePollThread
<1> QED
  BY <1>1, Invariance, PTL

-----------------------------------------------------------------------------
(* The status: what was told is right, or is about to be told anew.         *)

\* A signal is pending only while the thread it is for is being joined.
LEMMA SignalStep ==
    ASSUME TypeOK, LifeInv, SignalInv, Next
    PROVE  SignalInv'
<1>1. CASE PartnerComes
  BY <1>1, UsbAssumption DEF PartnerComes, Send, TypeOK, LifeInv, SignalInv,
     Alive
<1>2. CASE PartnerGoes
  BY <1>2, UsbAssumption DEF PartnerGoes, Send, TypeOK, LifeInv, SignalInv,
     Alive
<1>3. CASE OtherUevent
  BY <1>3, UsbAssumption DEF OtherUevent, Send, TypeOK, LifeInv, SignalInv,
     Alive
<1>4. CASE TypecUevent
  BY <1>4, UsbAssumption DEF TypecUevent, Send, TypeOK, LifeInv, SignalInv,
     Alive
<1>5. ASSUME NEW t \in Threads, OpenSocket(t)
      PROVE  SignalInv'
  BY <1>5, UsbAssumption DEF OpenSocket, TypeOK, LifeInv, SignalInv, Alive
<1>6. ASSUME NEW t \in Threads, PollFails(t)
      PROVE  SignalInv'
  BY <1>6, UsbAssumption DEF PollFails, End, TypeOK, LifeInv, SignalInv, Alive
<1>7. ASSUME NEW t \in Threads, CheckDestroy(t)
      PROVE  SignalInv'
  BY <1>7, UsbAssumption DEF CheckDestroy, End, TypeOK, LifeInv, SignalInv,
     Alive
<1>8. ASSUME NEW t \in Threads, EnterEpoll(t)
      PROVE  SignalInv'
  BY <1>8, UsbAssumption DEF EnterEpoll, TypeOK, LifeInv, SignalInv, Alive
<1>9. ASSUME NEW t \in Threads, ReceiveUevent(t)
      PROVE  SignalInv'
  BY <1>9, UsbAssumption DEF ReceiveUevent, TypeOK, LifeInv, SignalInv, Alive
<1>10. ASSUME NEW t \in Threads, PartnerAdded(t)
      PROVE  SignalInv'
  BY <1>10, UsbAssumption DEF PartnerAdded, MaySignal, TypeOK, LifeInv,
     SignalInv, Alive
<1>11. ASSUME NEW t \in Threads, TryRoleLock(t)
      PROVE  SignalInv'
  BY <1>11, UsbAssumption DEF TryRoleLock, RoleLockFree, TypeOK, LifeInv,
     SignalInv, Alive
<1>12. ASSUME NEW t \in Threads, RestoreDrp(t)
      PROVE  SignalInv'
  BY <1>12, UsbAssumption DEF RestoreDrp, TypeOK, LifeInv, SignalInv, Alive
<1>13. ASSUME NEW t \in Threads, SigHandler(t)
      PROVE  SignalInv'
  BY <1>13, UsbAssumption DEF SigHandler, TypeOK, LifeInv, SignalInv, Alive
<1>14. ASSUME NEW a \in Actors, QueryLock(a)
      PROVE  SignalInv'
  BY <1>14, UsbAssumption DEF QueryLock, MayQuery, TypeOK, LifeInv, SignalInv,
     Alive
<1>15. ASSUME NEW a \in Actors, ListPorts(a)
      PROVE  SignalInv'
  BY <1>15, UsbAssumption DEF ListPorts, TypeOK, LifeInv, SignalInv, Alive
<1>16. ASSUME NEW a \in Actors, ReadRoles(a)
      PROVE  SignalInv'
  BY <1>16, UsbAssumption DEF ReadRoles, TypeOK, LifeInv, SignalInv, Alive
<1>17. ASSUME NEW a \in Actors, Report(a)
      PROVE  SignalInv'
  BY <1>17, UsbAssumption DEF Report, AfterQuery, TypeOK, LifeInv, SignalInv,
     Alive
<1>18. CASE SetCallback
  BY <1>18, UsbAssumption DEF SetCallback, TypeOK, LifeInv, SignalInv, Alive
<1>19. CASE ReplaceCallback
  BY <1>19, UsbAssumption DEF ReplaceCallback, TypeOK, LifeInv, SignalInv,
     Alive
<1>20. CASE RegisterCallback
  BY <1>20, UsbAssumption DEF RegisterCallback, TypeOK, LifeInv, SignalInv,
     Alive
<1>21. CASE UnregisterCallback
  BY <1>21, UsbAssumption DEF UnregisterCallback, TypeOK, LifeInv, SignalInv,
     Alive
<1>22. CASE KillPoll
  <2>1. CASE Alive(mPoll)
    <3>1. /\ pc[Binder] = "kill" /\ pc' = [pc EXCEPT ![Binder] = "join"]
          /\ sig' = [sig EXCEPT ![mPoll] = TRUE]
          /\ UNCHANGED <<mCallback, destroyThread>>
      BY <1>22, <2>1 DEF KillPoll
    <3>2. pc'[Binder] = "join" /\ \A t \in Threads : pc'[t] = pc[t]
      BY <3>1, UsbAssumption DEF TypeOK
    <3>3. \A t \in Threads : sig'[t] => t = mPoll \/ sig[t]
      BY <3>1 DEF TypeOK
    <3> QED
      BY <2>1, <3>1, <3>2, <3>3 DEF SignalInv, Alive
  <2>2. CASE ~ Alive(mPoll)
    BY <1>22, <2>2, UsbAssumption DEF KillPoll, TypeOK, LifeInv, SignalInv, Alive
  <2> QED
    BY <2>1, <2>2
<1>23. CASE JoinPoll
  BY <1>23, UsbAssumption DEF JoinPoll, JoinReturns, TypeOK, LifeInv,
     SignalInv, Alive
<1>24. CASE ChangeSetting
  BY <1>24, UsbAssumption DEF ChangeSetting, Enter, Change, TypeOK, LifeInv,
     SignalInv, Alive
<1>25. CASE QueryPortStatus
  BY <1>25, UsbAssumption DEF QueryPortStatus, Enter, TypeOK, LifeInv,
     SignalInv, Alive
<1>26. CASE ResetUsbPort
  BY <1>26, UsbAssumption DEF ResetUsbPort, Enter, TypeOK, LifeInv, SignalInv,
     Alive
<1>27. CASE CallLimit
  BY <1>27, UsbAssumption DEF CallLimit, Enter, TypeOK, LifeInv, SignalInv,
     Alive
<1>28. CASE LimitPowerTransfer
  BY <1>28, UsbAssumption DEF LimitPowerTransfer, Change, TypeOK, LifeInv,
     SignalInv, Alive
<1>29. CASE Notify
  BY <1>29, UsbAssumption DEF Notify, TypeOK, LifeInv, SignalInv, Alive
<1>30. CASE SwitchRole
  BY <1>30, UsbAssumption DEF SwitchRole, TypeOK, LifeInv, SignalInv, Alive
<1>31. CASE RoleLock
  BY <1>31, UsbAssumption DEF RoleLock, TypeOK, LifeInv, SignalInv, Alive
<1>32. CASE Prepare
  BY <1>32, UsbAssumption DEF Prepare, TypeOK, LifeInv, SignalInv, Alive
<1>33. CASE PutPortType
  BY <1>33, UsbAssumption DEF PutPortType, TypeOK, LifeInv, SignalInv, Alive
<1>34. CASE Wait
  BY <1>34, UsbAssumption DEF Wait, TypeOK, LifeInv, SignalInv, Alive
<1>35. CASE Signalled
  BY <1>35, UsbAssumption DEF Signalled, WakeUp, TypeOK, LifeInv, SignalInv,
     Alive
<1>36. CASE Spurious
  BY <1>36, UsbAssumption DEF Spurious, WakeUp, TypeOK, LifeInv, SignalInv,
     Alive
<1>37. CASE Timeout
  BY <1>37, UsbAssumption DEF Timeout, WakeUp, TypeOK, LifeInv, SignalInv,
     Alive
<1>38. CASE Awake
  BY <1>38, UsbAssumption DEF Awake, TypeOK, LifeInv, SignalInv, Alive
<1>39. CASE TimedOut
  BY <1>39, UsbAssumption DEF TimedOut, AfterTimeout, TypeOK, LifeInv,
     SignalInv, Alive
<1>40. CASE Late
  BY <1>40, UsbAssumption DEF Late, TypeOK, LifeInv, SignalInv, Alive
<1>41. CASE GiveUp
  BY <1>41, UsbAssumption DEF GiveUp, TypeOK, LifeInv, SignalInv, Alive
<1>42. CASE NotifyRole
  BY <1>42, UsbAssumption DEF NotifyRole, TypeOK, LifeInv, SignalInv, Alive
<1> QED
  BY <1>1, <1>2, <1>3, <1>4, <1>5, <1>6, <1>7, <1>8, <1>9, <1>10, <1>11,
     <1>12, <1>13, <1>14, <1>15, <1>16, <1>17, <1>18, <1>19, <1>20, <1>21,
     <1>22, <1>23, <1>24, <1>25, <1>26, <1>27, <1>28, <1>29, <1>30, <1>31,
     <1>32, <1>33, <1>34, <1>35, <1>36, <1>37, <1>38, <1>39, <1>40, <1>41,
     <1>42
     DEF Next, Kernel, Poll, Query, Calls, Running

\* mLock lets one thread read a status at a time.
LEMMA HoldsOnce ==
    ASSUME TypeOK, LockInv, NEW a \in Actors, NEW b \in Actors, a # b,
           pc[a] \in {"list", "roles", "report"}
    PROVE  pc[b] \notin {"list", "roles", "report"}
  BY UsbAssumption DEF TypeOK, LockInv

\* A step that moves one thread, neither to nor from the reading of a status,
\* and takes back no reading to come, leaves StatusInv alone.
LEMMA Moves ==
    ASSUME TypeOK, StatusInv, NEW a \in Actors, NEW l,
           pc' = [pc EXCEPT ![a] = l],
           {pc[a], l} \cap {"roles", "report"} = {},
           Looks(a) => l \in {"partner", "query", "list"},
           a = Binder /\ pc[a] = "notify" /\ op = "setting" => l = "query",
           op' = op \/ a = Binder,
           UNCHANGED <<queue, partner, conf, seen, reported, unseen, mCallback>>
    PROVE  StatusInv'
<1>1. Pending => Pending'
  <2>1. ASSUME NEW b \in Actors, Looks(b)
        PROVE  Pending'
    BY <2>1 DEF Pending, Looks, TypeOK
  <2>2. ASSUME pc[Binder] = "notify" /\ op = "setting"
        PROVE  Pending'
    BY <2>2 DEF Pending, Looks, TypeOK
  <2> QED
    BY <2>1, <2>2 DEF Pending
<1>2. \A b \in Actors : /\ pc'[b] = "roles" <=> pc[b] = "roles"
                        /\ pc'[b] = "report" <=> pc[b] = "report"
  BY DEF TypeOK
<1> QED
  BY <1>1, <1>2 DEF StatusInv, Now, NoReport

\* No step leaves the callback with an outdated status that nobody will mend.
LEMMA StatusStep ==
    ASSUME TypeOK, LockInv, LifeInv, SignalInv, StatusInv, Next
    PROVE  StatusInv'
<1>1. CASE PartnerComes
  <2>1. ASSUME NEW t \in Threads, Listens(t)
        PROVE  Pending'
    <3>1. queue'[t] = Append(queue[t], "add") /\ queue[t] \in Seq({"add", "typec", "other"})
      BY <1>1, <2>1 DEF PartnerComes, Send, TypeOK
    <3>2. Len(queue[t]) + 1 \in DOMAIN queue'[t] /\ queue'[t][Len(queue[t]) + 1] # "other"
      BY <3>1
    <3> QED
      BY <3>2 DEF Pending
  <2>2. CASE ~ (\E t \in Threads : Listens(t)) /\ mCallback
    BY <1>1, <2>2 DEF PartnerComes, Unnoticed, StatusInv
  <2>3. CASE ~ mCallback
    BY <1>1, <2>3 DEF PartnerComes, StatusInv
  <2>4. CASE mCallback /\ \E t \in Threads : Listens(t)
    BY <1>1, <2>1, <2>4 DEF PartnerComes, StatusInv
  <2> QED
    BY <2>2, <2>3, <2>4
<1>2. CASE PartnerGoes
  <2>1. ASSUME NEW t \in Threads, Listens(t)
        PROVE  Pending'
    <3>1. queue'[t] = Append(queue[t], "typec") /\ queue[t] \in Seq({"add", "typec", "other"})
      BY <1>2, <2>1 DEF PartnerGoes, Send, TypeOK
    <3>2. Len(queue[t]) + 1 \in DOMAIN queue'[t] /\ queue'[t][Len(queue[t]) + 1] # "other"
      BY <3>1
    <3> QED
      BY <3>2 DEF Pending
  <2>2. CASE ~ (\E t \in Threads : Listens(t)) /\ mCallback
    BY <1>2, <2>2 DEF PartnerGoes, Unnoticed, StatusInv
  <2>3. CASE ~ mCallback
    BY <1>2, <2>3 DEF PartnerGoes, StatusInv
  <2>4. CASE mCallback /\ \E t \in Threads : Listens(t)
    BY <1>2, <2>1, <2>4 DEF PartnerGoes, StatusInv
  <2> QED
    BY <2>2, <2>3, <2>4
<1>3. CASE OtherUevent
  <2>1. ASSUME NEW t \in Threads, NEW i \in DOMAIN queue[t]
        PROVE  i \in DOMAIN queue'[t] /\ queue'[t][i] = queue[t][i]
    BY <1>3, <2>1 DEF OtherUevent, Send, TypeOK
  <2>2. Pending => Pending'
    BY <1>3, <2>1 DEF OtherUevent, Pending, Looks
  <2> QED
    BY <1>3, <2>2 DEF OtherUevent, StatusInv, Now, NoReport
<1>4. CASE TypecUevent
  <2>1. ASSUME NEW t \in Threads, NEW i \in DOMAIN queue[t]
        PROVE  i \in DOMAIN queue'[t] /\ queue'[t][i] = queue[t][i]
    BY <1>4, <2>1 DEF TypecUevent, Send, TypeOK
  <2>2. Pending => Pending'
    BY <1>4, <2>1 DEF TypecUevent, Pending, Looks
  <2> QED
    BY <1>4, <2>2 DEF TypecUevent, StatusInv, Now, NoReport
<1>5. ASSUME NEW t \in Threads, OpenSocket(t)
      PROVE  StatusInv'
  BY <1>5, Moves, UsbAssumption DEF OpenSocket, Looks
<1>6. ASSUME NEW t \in Threads, PollFails(t)
      PROVE  StatusInv'
  <2>1. CASE mCallback
    BY <1>6, <2>1 DEF PollFails, End, StatusInv
  <2>2. CASE ~ mCallback
    BY <1>6, <2>2 DEF PollFails, End, StatusInv
  <2> QED
    BY <2>1, <2>2
<1>7. ASSUME NEW t \in Threads, CheckDestroy(t)
      PROVE  StatusInv'
  <2>1. CASE destroyThread
    BY <1>7, <2>1 DEF CheckDestroy, SignalInv, StatusInv
  <2>2. CASE ~ destroyThread
    BY <1>7, <2>2, Moves, UsbAssumption DEF CheckDestroy, Looks
  <2> QED
    BY <2>1, <2>2
<1>8. ASSUME NEW t \in Threads, EnterEpoll(t)
      PROVE  StatusInv'
  BY <1>8, Moves, UsbAssumption DEF EnterEpoll, Looks
<1>9. ASSUME NEW t \in Threads, ReceiveUevent(t)
      PROVE  StatusInv'
  <2>1. /\ pc[t] = "epoll" /\ queue[t] # <<>> /\ queue[t] \in Seq({"add", "typec", "other"})
        /\ queue' = [queue EXCEPT ![t] = Tail(@)]
        /\ UNCHANGED <<op, partner, conf, seen, reported, unseen, mCallback>>
    BY <1>9 DEF ReceiveUevent, TypeOK
  <2>2. PICK l \in {"partner", "query", "check"} :
           /\ pc' = [pc EXCEPT ![t] = l]
           /\ l = "check" => Head(queue[t]) = "other"
    BY <1>9 DEF ReceiveUevent
  <2>3. \A a \in Actors : /\ pc'[a] = "roles" <=> pc[a] = "roles"
                          /\ pc'[a] = "report" <=> pc[a] = "report"
                          /\ Looks(a) => Looks(a)'
    BY <2>1, <2>2 DEF Looks, TypeOK
  <2>4. CASE l # "check"
    <3>1. Looks(t)'
      BY <2>2, <2>4 DEF Looks, TypeOK
    <3> QED
      BY <2>1, <3>1 DEF StatusInv, Pending
  <2>5. CASE l = "check"
    <3>1. ASSUME NEW i \in DOMAIN queue[t], queue[t][i] # "other"
          PROVE  i - 1 \in DOMAIN Tail(queue[t]) /\ Tail(queue[t])[i - 1] # "other"
      <4>1. queue[t] \in Seq({"add", "typec", "other"}) /\ queue[t] # <<>>
        BY <2>1
      <4>2. i \in 1..Len(queue[t]) /\ i # 1
        BY <2>2, <2>5, <3>1, <4>1
      <4>3. Len(Tail(queue[t])) = Len(queue[t]) - 1 /\ Tail(queue[t])[i - 1] = queue[t][i]
        BY <4>1, <4>2
      <4>4. DOMAIN Tail(queue[t]) = 1..Len(Tail(queue[t])) /\ i - 1 \in 1..(Len(queue[t]) - 1)
        BY <4>1, <4>2
      <4> QED
        BY <3>1, <4>3, <4>4
    <3>2. ASSUME NEW u \in Threads, NEW i \in DOMAIN queue[u], queue[u][i] # "other"
          PROVE  Pending'
      <4>1. CASE u = t
        <5>1. queue'[t] = Tail(queue[t])
          BY <2>1 DEF TypeOK
        <5>2. i - 1 \in DOMAIN queue'[t] /\ queue'[t][i - 1] # "other"
          BY <3>1, <3>2, <4>1, <5>1
        <5> QED
          BY <5>2 DEF Pending
      <4>2. CASE u # t
        BY <2>1, <3>2, <4>2 DEF Pending, TypeOK
      <4> QED
        BY <4>1, <4>2
    <3>3. pc'[Binder] = pc[Binder]
      BY <2>2, UsbAssumption DEF TypeOK
    <3>4. Pending => Pending'
      BY <2>1, <2>3, <3>2, <3>3 DEF Pending
    <3> QED
      BY <2>1, <2>3, <3>4 DEF StatusInv, Now, NoReport
  <2> QED
    BY <2>4, <2>5
<1>10. ASSUME NEW t \in Threads, PartnerAdded(t)
      PROVE  StatusInv'
  BY <1>10, Moves, UsbAssumption DEF PartnerAdded, MaySignal, Looks
<1>11. ASSUME NEW t \in Threads, TryRoleLock(t)
      PROVE  StatusInv'
  <2>1. PICK l \in {"drp", "check"} : pc' = [pc EXCEPT ![t] = l]
    BY <1>11 DEF TryRoleLock, RoleLockFree
  <2>2. pc[t] = "try" /\ UNCHANGED <<queue, partner, conf, seen, reported, unseen, mCallback>>
    BY <1>11 DEF TryRoleLock, RoleLockFree
  <2>3. op' = op
    BY <1>11 DEF TryRoleLock, RoleLockFree
  <2> QED
    BY <2>1, <2>2, <2>3, Moves, UsbAssumption DEF Looks
<1>12. ASSUME NEW t \in Threads, RestoreDrp(t)
      PROVE  StatusInv'
  BY <1>12, Moves, UsbAssumption DEF RestoreDrp, Looks
<1>13. ASSUME NEW t \in Threads, SigHandler(t)
      PROVE  StatusInv'
  <2>1. CASE pc[t] = "epoll"
    BY <1>13, <2>1, Moves, UsbAssumption DEF SigHandler, Looks
  <2>2. CASE pc[t] # "epoll"
    <3>1. pc' = pc
      BY <1>13, <2>2 DEF SigHandler, TypeOK
    <3> QED
      BY <1>13, <3>1 DEF SigHandler, StatusInv, Pending, Looks, Now, NoReport
  <2> QED
    BY <2>1, <2>2
<1>14. ASSUME NEW a \in Actors, QueryLock(a)
      PROVE  StatusInv'
  BY <1>14, Moves, UsbAssumption DEF QueryLock, MayQuery, Looks
<1>15. ASSUME NEW a \in Actors, ListPorts(a)
      PROVE  StatusInv'
  <2>1. \A b \in Actors \ {a} : pc[b] \notin {"list", "roles", "report"}
    BY <1>15, HoldsOnce DEF ListPorts
  <2>2. /\ pc' = [pc EXCEPT ![a] = "roles"]
        /\ seen'[a].connected = partner /\ partner' = partner
        /\ UNCHANGED <<reported, mCallback>>
    BY <1>15 DEF ListPorts, TypeOK, Statuses
  <2>3. \A b \in Actors \ {a} : pc'[b] \notin {"roles", "report"}
    BY <2>1, <2>2 DEF TypeOK
  <2>4. pc'[a] = "roles"
    BY <2>2 DEF TypeOK
  <2> QED
    BY <2>2, <2>3, <2>4 DEF StatusInv
<1>16. ASSUME NEW a \in Actors, ReadRoles(a)
      PROVE  StatusInv'
  <2>1. \A b \in Actors \ {a} : pc[b] \notin {"list", "roles", "report"}
    BY <1>16, HoldsOnce DEF ReadRoles
  <2>2. /\ pc[a] = "roles" /\ pc' = [pc EXCEPT ![a] = "report"]
        /\ seen[a].connected = partner => seen'[a] = Now
        /\ UNCHANGED <<op, queue, partner, conf, reported, mCallback, unseen>>
    BY <1>16 DEF ReadRoles, TypeOK, Statuses, Now
  <2>3. \A b \in Actors \ {a} : pc'[b] = pc[b]
    BY <2>2 DEF TypeOK
  <2>4. pc'[a] = "report"
    BY <2>2 DEF TypeOK
  <2>5. Pending => Pending'
    BY <2>2, <2>3 DEF Pending, Looks
  <2>6. Now' = Now
    BY <2>2 DEF Now
  <2> QED
    BY <2>1, <2>2, <2>3, <2>4, <2>5, <2>6 DEF StatusInv
<1>17. ASSUME NEW a \in Actors, Report(a)
      PROVE  StatusInv'
  <2>1. \A b \in Actors \ {a} : pc[b] \notin {"list", "roles", "report"}
    BY <1>17, HoldsOnce DEF Report
  <2>2. /\ pc[a] = "report"
        /\ reported' = IF mCallback THEN seen[a] ELSE reported
        /\ UNCHANGED <<queue, partner, conf, mCallback, unseen>>
    BY <1>17 DEF Report
  <2>3. PICK l \in {"try", "notify", "idle"} :
           pc' = [pc EXCEPT ![a] = l] /\ (op' = op \/ a = Binder)
    BY <1>17, UsbAssumption DEF Report, AfterQuery
  <2>4. \A b \in Actors : pc'[b] \notin {"roles", "report"} /\ (b # a => pc'[b] = pc[b])
    BY <2>1, <2>3 DEF TypeOK
  <2>5. Pending => Pending'
    BY <2>2, <2>3, <2>4 DEF Pending, Looks
  <2>6. Now' = Now
    BY <2>2 DEF Now
  <2> QED
    BY <2>2, <2>4, <2>5, <2>6 DEF StatusInv
<1>18. CASE SetCallback
  BY <1>18, Moves, UsbAssumption DEF SetCallback, Looks
<1>19. CASE ReplaceCallback
  <2>1. \A a \in Actors : pc[a] \notin {"roles", "report"}
    BY <1>19, UsbAssumption DEF ReplaceCallback, LockInv
  <2>2. reported' = NoReport /\ \A a \in Actors : pc'[a] \notin {"roles", "report"}
    BY <1>19, <2>1 DEF ReplaceCallback, TypeOK
  <2> QED
    BY <2>2 DEF StatusInv, NoReport
<1>20. CASE RegisterCallback
  <2>1. \A a \in Actors : pc[a] \notin {"roles", "report"}
    BY <1>20, UsbAssumption DEF RegisterCallback, LockInv
  <2>2. reported' = NoReport /\ \A a \in Actors : pc'[a] \notin {"roles", "report"}
    BY <1>20, <2>1 DEF RegisterCallback, TypeOK
  <2> QED
    BY <2>2 DEF StatusInv, NoReport
<1>21. CASE UnregisterCallback
  <2>1. reported' = NoReport /\ ~ mCallback'
    BY <1>21 DEF UnregisterCallback
  <2> QED
    BY <2>1 DEF StatusInv, NoReport
<1>22. CASE KillPoll
  <2>1. PICK l \in {"join", "idle"} : pc' = [pc EXCEPT ![Binder] = l]
    BY <1>22 DEF KillPoll
  <2>2. pc[Binder] = "kill" /\ UNCHANGED <<queue, partner, conf, seen, reported, unseen, mCallback>>
    BY <1>22 DEF KillPoll
  <2> QED
    BY <2>1, <2>2, Moves, UsbAssumption DEF Looks
<1>23. CASE JoinPoll
  BY <1>23, Moves, UsbAssumption DEF JoinPoll, JoinReturns, Looks
<1>24. CASE ChangeSetting
  <2>1. pc'[Binder] = "notify" /\ op' = "setting"
    BY <1>24 DEF ChangeSetting, Enter, TypeOK
  <2>2. reported' = reported /\ mCallback' = mCallback
    BY <1>24 DEF ChangeSetting, Enter
  <2> QED
    BY <2>1, <2>2 DEF StatusInv, Pending, NoReport
<1>25. CASE QueryPortStatus
  BY <1>25, Moves, UsbAssumption DEF QueryPortStatus, Enter, Looks
<1>26. CASE ResetUsbPort
  BY <1>26, Moves, UsbAssumption DEF ResetUsbPort, Enter, Looks
<1>27. CASE CallLimit
  BY <1>27, Moves, UsbAssumption DEF CallLimit, Enter, Looks
<1>28. CASE LimitPowerTransfer
  <2>1. pc'[Binder] = "query" /\ reported' = reported /\ mCallback' = mCallback
    BY <1>28 DEF LimitPowerTransfer, TypeOK
  <2> QED
    BY <2>1 DEF StatusInv, Pending, Looks, NoReport
<1>29. CASE Notify
  <2>1. PICK l \in {"query", "idle"} : pc' = [pc EXCEPT ![Binder] = l] /\ (op = "setting" => l = "query")
    BY <1>29 DEF Notify
  <2>2. pc[Binder] = "notify" /\ UNCHANGED <<queue, partner, conf, seen, reported, unseen, mCallback>>
    BY <1>29 DEF Notify
  <2> QED
    BY <2>1, <2>2, Moves, UsbAssumption DEF Looks
<1>30. CASE SwitchRole
  BY <1>30, Moves, UsbAssumption DEF SwitchRole, Looks
<1>31. CASE RoleLock
  <2>1. PICK l \in {"prepare", "giveup", "told"} : pc' = [pc EXCEPT ![Binder] = l]
    BY <1>31 DEF RoleLock
  <2>2. pc[Binder] = "role" /\ UNCHANGED <<queue, partner, conf, seen, reported, unseen, mCallback>>
    BY <1>31 DEF RoleLock
  <2> QED
    BY <2>1, <2>2, Moves, UsbAssumption DEF Looks
<1>32. CASE Prepare
  BY <1>32, Moves, UsbAssumption DEF Prepare, Looks
<1>33. CASE PutPortType
  <2>1. PICK l \in {"arm", "giveup"} : pc' = [pc EXCEPT ![Binder] = l]
    BY <1>33 DEF PutPortType
  <2>2. pc[Binder] = "put" /\ UNCHANGED <<queue, partner, conf, seen, reported, unseen, mCallback>>
    BY <1>33 DEF PutPortType
  <2> QED
    BY <2>1, <2>2, Moves, UsbAssumption DEF Looks
<1>34. CASE Wait
  BY <1>34, Moves, UsbAssumption DEF Wait, Looks
<1>35. CASE Signalled
  BY <1>35, Moves, UsbAssumption DEF Signalled, WakeUp, Looks
<1>36. CASE Spurious
  BY <1>36, Moves, UsbAssumption DEF Spurious, WakeUp, Looks
<1>37. CASE Timeout
  BY <1>37, Moves, UsbAssumption DEF Timeout, WakeUp, Looks
<1>38. CASE Awake
  <2>1. PICK l \in {"told", "arm"} : pc' = [pc EXCEPT ![Binder] = l]
    BY <1>38 DEF Awake
  <2>2. pc[Binder] = "awake" /\ UNCHANGED <<queue, partner, conf, seen, reported, unseen, mCallback>>
    BY <1>38 DEF Awake
  <2> QED
    BY <2>1, <2>2, Moves, UsbAssumption DEF Looks
<1>39. CASE TimedOut
  BY <1>39, Moves, UsbAssumption DEF TimedOut, AfterTimeout, Looks
<1>40. CASE Late
  BY <1>40, Moves, UsbAssumption DEF Late, Looks
<1>41. CASE GiveUp
  BY <1>41, Moves, UsbAssumption DEF GiveUp, Looks
<1>42. CASE NotifyRole
  BY <1>42, Moves, UsbAssumption DEF NotifyRole, Looks
<1> QED
  BY <1>1, <1>2, <1>3, <1>4, <1>5, <1>6, <1>7, <1>8, <1>9, <1>10, <1>11,
     <1>12, <1>13, <1>14, <1>15, <1>16, <1>17, <1>18, <1>19, <1>20, <1>21,
     <1>22, <1>23, <1>24, <1>25, <1>26, <1>27, <1>28, <1>29, <1>30, <1>31,
     <1>32, <1>33, <1>34, <1>35, <1>36, <1>37, <1>38, <1>39, <1>40, <1>41,
     <1>42
     DEF Next, Kernel, Poll, Query, Calls, Running

LEMMA InitFreshInv ==
    ASSUME Init
    PROVE  FreshInv
  BY UsbAssumption DEF Init, FreshInv, SignalInv, StatusInv, Alive

LEMMA StutterFreshInv ==
    ASSUME FreshInv, UNCHANGED vars
    PROVE  FreshInv'
  BY DEF vars, FreshInv, SignalInv, StatusInv, Pending, Looks, Alive, Now, NoReport

\* When everything has come to rest, the framework was told the state of the
\* port as it is, however uevents, calls and the two threads interleaved.
THEOREM KeepsStatusFresh == Spec => []StatusFresh
<1>1. Init => FreshInv
  BY InitFreshInv
<1>2. IInv /\ FreshInv /\ [Next]_vars => FreshInv'
  <2> SUFFICES ASSUME IInv, FreshInv, Next
               PROVE  FreshInv'
    BY StutterFreshInv
  <2> QED
    BY SignalStep, StatusStep DEF IInv, FreshInv
<1>3. ASSUME IInv, FreshInv
      PROVE  StatusFresh
  <2> SUFFICES ASSUME Quiet, reported # NoReport, ~ unseen
               PROVE  reported = Now
    BY DEF StatusFresh, Now
  <2>1. \A a \in Actors : pc[a] \notin {"partner", "query", "list", "roles", "report"}
    BY DEF Quiet
  <2>2. \A t \in Threads : DOMAIN queue[t] = {}
    BY DEF Quiet
  <2>3. ~ Pending
    BY <2>1, <2>2 DEF Pending, Looks, Quiet
  <2> QED
    BY <1>3, <2>1, <2>3 DEF FreshInv, StatusInv
<1> QED
  BY <1>1, <1>2, <1>3, Invariance, PTL DEF Spec
=============================================================================
