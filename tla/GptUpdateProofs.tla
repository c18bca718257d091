--------------------------- MODULE GptUpdateProofs ---------------------------
(***************************************************************************)
(* The safety of the failsafe boot update for any number of LUNs and       *)
(* images: IInv of GptUpdate is inductive, and implies the properties.     *)
(*                                                                         *)
(* Whatever a step does to the flash is one of the outcomes of             *)
(* InterruptedWrite, a step that completes included; so the flash part of  *)
(* IInv is proved once, for InterruptedWrite, in LunInvStep and TornStep.  *)
(***************************************************************************)
EXTENDS GptUpdate, TLAPS

USE DEF NoStage, UPDATE_MAIN, UPDATE_BACKUP, UPDATE_FINALIZE

-----------------------------------------------------------------------------
(* What a write does to the flash, without EXCEPT.                          *)

LEMMA NewHeaderType ==
    ASSUME TypeOK, AtHeaderWrite
    PROVE  /\ NewHeader \in Headers
           /\ TornHeader \in Headers
           /\ HeaderGpt \in Gpts
<1>1. HeaderGpt \in Gpts
  BY DEF HeaderGpt, Gpts
<1>2. hdr[cur][HeaderGpt] \in Headers
  BY <1>1 DEF TypeOK
<1>3. SecondaryLayout(cur) \in Layouts
  BY DEF TypeOK, SecondaryLayout, Swap, Layouts, Gpts
<1>4. NewHeader \in Headers
  BY <1>2, <1>3 DEF NewHeader, Headers
<1>5. TornHeader \in Headers
  BY DEF TornHeader, Headers, Layouts
<1> QED
  BY <1>1, <1>4, <1>5

LEMMA PutHeaderFacts ==
    ASSUME TypeOK, NEW h \in Headers, HeaderGpt \in Gpts, PutHeader(h)
    PROVE  /\ hdr' \in [Luns -> [Gpts -> Headers]]
           /\ hdr'[cur][HeaderGpt] = h
           /\ \A d \in Luns, g \in Gpts :
                 d # cur \/ g # HeaderGpt => hdr'[d][g] = hdr[d][g]
<1>1. cur \in Luns /\ hdr \in [Luns -> [Gpts -> Headers]]
  BY DEF TypeOK
<1>2. hdr' = [hdr EXCEPT ![cur][HeaderGpt] = h]
  BY DEF PutHeader
<1> QED
  BY <1>1, <1>2

LEMMA PutArrayFacts ==
    ASSUME TypeOK, NEW a \in Layouts, PutArray(a)
    PROVE  /\ arr' \in [Luns -> [Gpts -> Layouts]]
           /\ arr'[cur]["sec"] = a
           /\ \A d \in Luns, g \in Gpts :
                 d # cur \/ g # "sec" => arr'[d][g] = arr[d][g]
<1>1. cur \in Luns /\ arr \in [Luns -> [Gpts -> Layouts]] /\ "sec" \in Gpts
  BY DEF TypeOK, Gpts
<1>2. arr' = [arr EXCEPT ![cur]["sec"] = a]
  BY DEF PutArray
<1> QED
  BY <1>1, <1>2

LEMMA SecondaryLayoutType ==
    ASSUME TypeOK
    PROVE  SecondaryLayout(cur) \in Layouts /\ "torn" \in Layouts
BY DEF TypeOK, SecondaryLayout, Swap, Layouts, Gpts

LEMMA FlashType ==
    ASSUME TypeOK, InterruptedWrite
    PROVE  /\ hdr' \in [Luns -> [Gpts -> Headers]]
           /\ arr' \in [Luns -> [Gpts -> Layouts]]
           /\ bootLun' \in {"A", "B"}
<1>1. CASE UNCHANGED flash
  BY <1>1 DEF flash, TypeOK
<1>2. CASE pc = "lun" /\ bootLun' = NewBootLun /\ UNCHANGED <<hdr, arr>>
  BY <1>2 DEF TypeOK, NewBootLun
<1>3. CASE AtHeaderWrite /\ UNCHANGED <<arr, bootLun>>
           /\ \E h \in {NewHeader} \cup (IF SectorAtomic THEN {} ELSE {TornHeader}) :
                 PutHeader(h)
  <2>1. PICK h \in Headers : PutHeader(h)
    BY <1>3, NewHeaderType
  <2> QED
    BY <1>3, <2>1, NewHeaderType, PutHeaderFacts DEF TypeOK
<1>4. CASE pc = "arr2" /\ UNCHANGED <<hdr, bootLun>>
           /\ \E a \in {SecondaryLayout(cur), "torn"} : PutArray(a)
  <2>1. PICK a \in Layouts : PutArray(a)
    BY <1>4, SecondaryLayoutType
  <2> QED
    BY <1>4, <2>1, PutArrayFacts DEF TypeOK
<1> QED
  BY <1>1, <1>2, <1>3, <1>4 DEF InterruptedWrite

-----------------------------------------------------------------------------
(* LUNs that a step leaves alone.                                           *)

LEMMA SameLun ==
    ASSUME NEW d \in Luns,
           \A g \in Gpts : hdr'[d][g] = hdr[d][g] /\ arr'[d][g] = arr[d][g]
    PROVE  /\ \A g \in Gpts : GptState(d, g)' = GptState(d, g)
           /\ \A g \in Gpts : Valid(d, g)' = Valid(d, g)
           /\ \A g \in Gpts : BadSignature(d, g)' = BadSignature(d, g)
           /\ LunInv(d)' = LunInv(d)
           /\ \A s : Prepared(s, d)' = Prepared(s, d)
<1>1. \A g \in Gpts : GptState(d, g)' = GptState(d, g)
  BY DEF GptState
<1>2. \A g \in Gpts : Valid(d, g)' = Valid(d, g)
  BY <1>1 DEF Valid
<1>3. \A g \in Gpts : BadSignature(d, g)' = BadSignature(d, g)
  BY <1>1 DEF BadSignature
<1>4. Bootable(d)' = Bootable(d)
  BY <1>2 DEF Bootable
<1>5. "prim" \in Gpts /\ "sec" \in Gpts
  BY DEF Gpts
<1>6. LunInv(d)' = LunInv(d)
  BY <1>2, <1>3, <1>4, <1>5 DEF LunInv
<1>7. ASSUME NEW s PROVE Prepared(s, d)' = Prepared(s, d)
  BY <1>2, <1>3, <1>5 DEF Prepared, HasBackup
<1> QED
  BY <1>1, <1>2, <1>3, <1>6, <1>7

LEMMA OtherLuns ==
    ASSUME TypeOK, InterruptedWrite, NEW d \in Luns,
           d # cur \/ ~ (AtHeaderWrite \/ pc = "arr2")
    PROVE  \A g \in Gpts : hdr'[d][g] = hdr[d][g] /\ arr'[d][g] = arr[d][g]
<1>1. CASE UNCHANGED <<hdr, arr>>
  BY <1>1
<1>2. CASE AtHeaderWrite /\ UNCHANGED <<arr, bootLun>>
           /\ \E h \in {NewHeader} \cup (IF SectorAtomic THEN {} ELSE {TornHeader}) :
                 PutHeader(h)
  <2>1. PICK h \in Headers : PutHeader(h)
    BY <1>2, NewHeaderType
  <2> QED
    BY <1>2, <2>1, NewHeaderType, PutHeaderFacts
<1>3. CASE pc = "arr2" /\ UNCHANGED <<hdr, bootLun>>
           /\ \E a \in {SecondaryLayout(cur), "torn"} : PutArray(a)
  <2>1. PICK a \in Layouts : PutArray(a)
    BY <1>3, SecondaryLayoutType
  <2> QED
    BY <1>3, <2>1, PutArrayFacts
<1> QED
  BY <1>1, <1>2, <1>3 DEF InterruptedWrite, flash

-----------------------------------------------------------------------------
(* The LUN being worked on, write by write.                                 *)

\* Before the secondary header or array is written the primary GPT is good.
LEMMA PrimaryGoodBefore ==
    ASSUME TypeOK, LunInv(cur), WorkInv
    PROVE  /\ pc = "hdr2" /\ AtHeaderWrite =>
                  Valid(cur, "prim") /\ hdr[cur]["sec"].crc
           /\ pc \in {"arr2", "sec"} => Valid(cur, "prim")
           /\ Valid(cur, "prim") => arr[cur]["prim"] = "main"
           /\ pc = "sec" => hdr[cur]["sec"].crc
           /\ pc = "prim" => Valid(cur, "sec") /\ arr[cur]["sec"] = "bak"
                             /\ hdr[cur]["prim"].crc
<1>1. Valid(cur, "prim") => arr[cur]["prim"] = "main"
  BY DEF LunInv, Valid
<1>2. pc \in {"arr2", "sec"} => Valid(cur, "prim")
  BY DEF WorkInv
<1>3. ASSUME pc = "hdr2", AtHeaderWrite
      PROVE  Valid(cur, "prim") /\ hdr[cur]["sec"].crc
  <2>1. CASE stage = UPDATE_MAIN /\ InternalStage(cur) = UPDATE_MAIN
    <3>1. GptState(cur, "prim") = "OK" /\ GptState(cur, "sec") = "OK"
      BY <2>1 DEF InternalStage
    <3>2. PrimaryArrayGood(cur)
      BY <1>3 DEF AtHeaderWrite
    <3>3. hdr[cur]["prim"].crc /\ hdr[cur]["sec"].crc
      BY <3>1 DEF GptState
    <3>4. arr[cur]["prim"] = "main"
      BY <3>2, <3>3 DEF LunInv, PrimaryArrayGood
    <3> QED
      BY <3>1, <3>2, <3>3, <3>4 DEF Valid, PrimaryArrayGood
  <2>2. CASE stage = UPDATE_FINALIZE /\ BadSignature(cur, "sec")
    BY <2>2 DEF LunInv, BadSignature, GptState
  <2> QED
    BY <1>3, <2>1, <2>2 DEF WorkInv
<1>4. pc = "sec" => hdr[cur]["sec"].crc
  BY DEF WorkInv, GptState, BadSignature
<1>5. pc = "prim" => Valid(cur, "sec") /\ arr[cur]["sec"] = "bak"
                     /\ hdr[cur]["prim"].crc
  BY DEF WorkInv, LunInv, Valid, GptState, BadSignature
<1> QED
  BY <1>1, <1>2, <1>3, <1>4, <1>5

LEMMA HeaderStep ==
    ASSUME TypeOK, LunInv(cur), WorkInv, AtHeaderWrite,
           arr' = arr, cur' = cur,
           NEW h \in {NewHeader, TornHeader}, PutHeader(h)
    PROVE  LunInv(cur)'
<1> USE NewHeaderType, PutHeaderFacts, PrimaryGoodBefore
<1>1. cur \in Luns /\ "prim" \in Gpts /\ "sec" \in Gpts
  BY DEF TypeOK, Gpts
<1>2. hdr'[cur][HeaderGpt] = h
  BY <1>1
<1>3. CASE pc = "hdr2"
  <2>1. hdr'[cur]["prim"] = hdr[cur]["prim"]
    BY <1>1, <1>3 DEF HeaderGpt
  <2>2. Valid(cur, "prim")'
    BY <1>3, <2>1 DEF Valid, GptState
  <2>3. ~ BadSignature(cur, "prim")'
    BY <2>2 DEF Valid, BadSignature
  <2> QED
    BY <1>1, <2>1, <2>2, <2>3 DEF LunInv, Bootable
<1>4. CASE pc = "sec"
  <2>1. hdr'[cur]["prim"] = hdr[cur]["prim"]
    BY <1>1, <1>4 DEF HeaderGpt
  <2>2. Valid(cur, "prim")'
    BY <1>4, <2>1 DEF Valid, GptState
  <2>3. ~ BadSignature(cur, "prim")'
    BY <2>2 DEF Valid, BadSignature
  <2> QED
    BY <1>1, <2>1, <2>2, <2>3 DEF LunInv, Bootable
<1>5. CASE pc = "prim"
  <2>1. hdr'[cur]["sec"] = hdr[cur]["sec"] /\ hdr'[cur]["prim"] = h
    BY <1>1, <1>2, <1>5 DEF HeaderGpt
  <2>2. Valid(cur, "sec")' /\ arr'[cur]["sec"] = "bak"
    BY <1>5, <2>1 DEF Valid, GptState
  <2>3. ~ BadSignature(cur, "sec")'
    BY <2>2 DEF Valid, BadSignature
  <2>4. arr[cur]["prim"] = "main" /\ hdr[cur]["prim"].ecrc = "main"
    BY <1>5 DEF WorkInv, LunInv
  <2>5. h.crc => h.ecrc = "main"
    <3>1. hdr[cur]["prim"] \in Headers
      BY <1>1 DEF TypeOK
    <3>2. CASE h = TornHeader
      BY <3>2 DEF TornHeader
    <3>3. CASE h = NewHeader
      BY <1>5, <2>4, <3>1, <3>3 DEF NewHeader, HeaderGpt, Headers
    <3> QED
      BY <3>2, <3>3
  <2> QED
    BY <1>1, <2>1, <2>2, <2>3, <2>4, <2>5 DEF LunInv, Bootable
<1> QED
  BY <1>3, <1>4, <1>5 DEF AtHeaderWrite

LEMMA ArrayStep ==
    ASSUME TypeOK, LunInv(cur), WorkInv, pc = "arr2",
           hdr' = hdr, cur' = cur,
           NEW a \in Layouts, PutArray(a)
    PROVE  LunInv(cur)'
<1>1. cur \in Luns /\ "prim" \in Gpts /\ "sec" \in Gpts
  BY DEF TypeOK, Gpts
<1>2. arr'[cur]["prim"] = arr[cur]["prim"]
  BY <1>1, PutArrayFacts
<1>3. Valid(cur, "prim")
  BY PrimaryGoodBefore
<1>4. Valid(cur, "prim")'
  BY <1>2, <1>3 DEF Valid, GptState
<1>5. ~ BadSignature(cur, "prim")'
  BY <1>4 DEF Valid, BadSignature
<1> QED
  BY <1>1, <1>2, <1>4, <1>5 DEF LunInv, Bootable

LEMMA LunInvStep ==
    ASSUME TypeOK, \A d \in Luns : LunInv(d), WorkInv,
           InterruptedWrite, cur' = cur
    PROVE  \A d \in Luns : LunInv(d)'
<1>1. cur \in Luns /\ LunInv(cur)
  BY DEF TypeOK
<1>2. ASSUME NEW d \in Luns, d # cur \/ ~ (AtHeaderWrite \/ pc = "arr2")
      PROVE  LunInv(d)'
  BY <1>2, OtherLuns, SameLun
<1>3. ASSUME AtHeaderWrite \/ pc = "arr2" PROVE LunInv(cur)'
  <2>1. CASE UNCHANGED flash
    BY <1>1, <2>1, SameLun DEF flash
  <2>2. CASE pc = "lun" /\ bootLun' = NewBootLun /\ UNCHANGED <<hdr, arr>>
    BY <1>1, <2>2, SameLun
  <2>3. CASE AtHeaderWrite /\ UNCHANGED <<arr, bootLun>>
             /\ \E h \in {NewHeader} \cup (IF SectorAtomic THEN {} ELSE {TornHeader}) :
                   PutHeader(h)
    BY <1>1, <2>3, HeaderStep
  <2>4. CASE pc = "arr2" /\ UNCHANGED <<hdr, bootLun>>
             /\ \E a \in {SecondaryLayout(cur), "torn"} : PutArray(a)
    BY <1>1, <2>4, ArrayStep, SecondaryLayoutType
  <2> QED
    BY <2>1, <2>2, <2>3, <2>4 DEF InterruptedWrite
<1> QED
  <2> SUFFICES ASSUME NEW d \in Luns PROVE LunInv(d)'
    OBVIOUS
  <2>1. CASE d = cur /\ (AtHeaderWrite \/ pc = "arr2")
    BY <1>3, <2>1
  <2> QED
    BY <1>2, <2>1

\* A LUN with a half-written copy is not written to, whatever the running call.
LEMMA TornStep ==
    ASSUME TypeOK, \A d \in Luns : LunInv(d), WorkInv, TornInv,
           InterruptedWrite, img' = img
    PROVE  \A i \in Images :
              /\ img'[i]["main"] = "torn" => BadSignature(LunOf[i], "prim")'
              /\ img'[i]["bak"] = "torn" => BadSignature(LunOf[i], "sec")'
<1> SUFFICES ASSUME NEW i \in Images,
                    NEW c \in Copies, NEW g \in Gpts,
                    \/ c = "main" /\ g = "prim"
                    \/ c = "bak" /\ g = "sec",
                    img[i][c] = "torn"
             PROVE  BadSignature(LunOf[i], g)'
  BY DEF Copies, Gpts
<1>1. LunOf[i] \in Luns /\ i \in Protected
  BY ConstantsAssumption DEF Protected
<1>2. BadSignature(LunOf[i], g)
  BY DEF TornInv
<1>3. ASSUME AtHeaderWrite \/ pc = "arr2", LunOf[i] = cur
      PROVE  FALSE
  <2>1. /\ Valid(cur, "prim") => ~ BadSignature(cur, "prim")
        /\ Valid(cur, "sec") => ~ BadSignature(cur, "sec")
    BY DEF Valid, BadSignature
  <2>2. pc # "idle"
    BY <1>3 DEF AtHeaderWrite
  <2>3. LunInv(cur)
    BY <1>1, <1>3
  <2>4. CASE stage = UPDATE_MAIN
    <3>1. pc \in {"hdr2", "arr2", "prim"}
      BY <1>3, <2>4 DEF AtHeaderWrite, WorkInv
    <3>2. CASE pc = "hdr2"
      <4>1. InternalStage(cur) = UPDATE_MAIN
        BY <2>4, <3>2 DEF WorkInv
      <4> QED
        BY <1>2, <1>3, <4>1 DEF InternalStage, BadSignature, Gpts
    <3>3. CASE pc = "arr2"
      BY <1>2, <1>3, <2>1, <2>4, <3>3 DEF WorkInv, BadSignature
    <3>4. CASE pc = "prim"
      BY <1>2, <1>3, <2>1, <2>4, <3>4 DEF WorkInv
    <3> QED
      BY <3>1, <3>2, <3>3, <3>4
  <2>5. CASE stage = UPDATE_BACKUP
    <3>1. c = "bak"
      BY <1>1, <2>2, <2>5 DEF TornInv, MayRequest, StageCopy
    <3>2. BadSignature(cur, "sec")
      BY <1>2, <1>3, <3>1
    <3>3. pc \in {"prim", "sec"}
      BY <1>3, <2>5 DEF AtHeaderWrite, WorkInv
    <3>4. CASE pc = "prim"
      BY <2>1, <2>3, <2>5, <3>2, <3>4 DEF WorkInv, LunInv
    <3>5. CASE pc = "sec"
      BY <2>5, <3>2, <3>5 DEF WorkInv, BadSignature
    <3> QED
      BY <3>3, <3>4, <3>5
  <2>6. CASE stage = UPDATE_FINALIZE
    <3>1. c = "main"
      BY <1>1, <2>2, <2>6 DEF TornInv, MayRequest, StageCopy
    <3>2. pc \in {"hdr2", "arr2", "sec"}
      BY <1>3, <2>6 DEF AtHeaderWrite, WorkInv
    <3>3. Valid(cur, "prim")
      BY <1>3, <2>3, <3>2, PrimaryGoodBefore
    <3> QED
      BY <1>2, <1>3, <2>1, <3>1, <3>3
  <2> QED
    BY <2>2, <2>4, <2>5, <2>6 DEF WorkInv, Stages
<1> QED
  BY <1>1, <1>2, <1>3, OtherLuns, SameLun

-----------------------------------------------------------------------------
(* Every step is an InterruptedWrite to the flash.                          *)

LEMMA StepFlash ==
    ASSUME [Next]_vars
    PROVE  /\ InterruptedWrite
           /\ cur' # cur => UNCHANGED flash
<1> USE DEF At
<1>1. CASE NextLun
  BY <1>1 DEF NextLun, InterruptedWrite
<1>2. CASE Return
  BY <1>2 DEF Return, InterruptedWrite
<1>3. CASE CheckStage
  BY <1>3 DEF CheckStage, InterruptedWrite
<1>4. CASE SetBootLun
  BY <1>4 DEF SetBootLun, InterruptedWrite
<1>5. CASE ChainRefused \/ NoBackupFound
  BY <1>5 DEF ChainRefused, NoBackupFound, InterruptedWrite
<1>6. CASE WriteHeader
  BY <1>6 DEF WriteHeader, InterruptedWrite
<1>7. CASE WriteArray
  BY <1>7 DEF WriteArray, InterruptedWrite
<1>8. CASE IoError
  BY <1>8 DEF IoError
<1>9. CASE PowerLoss
  BY <1>9 DEF PowerLoss
<1>10. CASE \E s \in Stages : Request(s)
  BY <1>10 DEF Request, InterruptedWrite
<1>11. CASE WriteStart \/ WriteEnd \/ Rewrite
  BY <1>11 DEF WriteStart, WriteEnd, Rewrite, WriteCopy, InterruptedWrite, call
<1>12. CASE NewPackage
  BY <1>12 DEF NewPackage, InterruptedWrite, call
<1>13. CASE UNCHANGED vars
  BY <1>13 DEF vars, InterruptedWrite, call
<1> QED
  BY <1>1, <1>2, <1>3, <1>4, <1>5, <1>6, <1>7, <1>8, <1>9, <1>10, <1>11,
     <1>12, <1>13 DEF Next, Call, Fault

LEMMA StepLunInv ==
    ASSUME IInv, [Next]_vars
    PROVE  \A d \in Luns : LunInv(d)'
<1>1. CASE cur' = cur
  BY <1>1, StepFlash, LunInvStep DEF IInv
<1>2. CASE UNCHANGED flash
  BY <1>2, SameLun DEF IInv, flash
<1> QED
  BY <1>1, <1>2, StepFlash

-----------------------------------------------------------------------------
(* Type correctness.                                                        *)

LEMMA TypeStep ==
    ASSUME TypeOK, [Next]_vars
    PROVE  TypeOK'
<1> USE DEF TypeOK, At
<1>1. /\ hdr' \in [Luns -> [Gpts -> Headers]]
      /\ arr' \in [Luns -> [Gpts -> Layouts]]
      /\ bootLun' \in {"A", "B"}
  BY StepFlash, FlashType
<1>2. img' \in [Protected -> [Copies -> Content]]
  <2>1. ASSUME NEW from \in Content, NEW to \in Content, WriteCopy(from, to)
        PROVE  img' \in [Protected -> [Copies -> Content]]
    <3>1. PICK i \in Protected :
             img' = [img EXCEPT ![i][StageCopy(ready)] = to]
      BY <2>1 DEF WriteCopy
    <3>2. StageCopy(ready) \in Copies
      BY DEF StageCopy, Copies
    <3> QED
      BY <3>1, <3>2
  <2>2. "old" \in Content /\ "torn" \in Content /\ "new" \in Content
    BY DEF Content
  <2>3. CASE WriteStart \/ WriteEnd \/ Rewrite
    BY <2>1, <2>2, <2>3 DEF WriteStart, WriteEnd, Rewrite
  <2>4. CASE NewPackage
    BY <2>2, <2>4 DEF NewPackage
  <2>5. CASE img' = img
    BY <2>5
  <2> QED
    BY <2>3, <2>4, <2>5
    DEF Next, Call, Fault, NextLun, Return, CheckStage, SetBootLun, ChainRefused,
        NoBackupFound, WriteHeader, WriteArray, IoError, PowerLoss, Request,
        caller, vars
<1>3. /\ pc' \in {"idle", "next", "check", "lun", "hdr2", "arr2", "prim", "sec"}
      /\ stage' \in Stages \cup {NoStage}
      /\ todo' \subseteq Luns
      /\ cur' \in Luns
      /\ isError' \in BOOLEAN
      /\ ready' \in Stages \cup {NoStage}
  <2> USE DEF Goto, LunDone, LunFailed
  <2>1. CASE Call
    BY <2>1 DEF Call, NextLun, Return, CheckStage, SetBootLun, ChainRefused,
        NoBackupFound, WriteHeader, WriteArray, AfterHeader, caller
  <2>2. CASE Fault
    BY <2>2 DEF Fault, IoError, PowerLoss
  <2>3. CASE \E s \in Stages : Request(s)
    BY <2>3 DEF Request
  <2>4. CASE WriteStart \/ WriteEnd \/ Rewrite \/ NewPackage \/ UNCHANGED vars
    BY <2>4 DEF WriteStart, WriteEnd, Rewrite, WriteCopy, NewPackage, call, caller, vars
  <2> QED
    BY <2>1, <2>2, <2>3, <2>4 DEF Next
<1> QED
  BY <1>1, <1>2, <1>3

LEMMA TypeInit ==
    ASSUME Init PROVE TypeOK
<1> USE DEF Init
<1>1. [sig |-> "ok", crc |-> TRUE, ecrc |-> "main"] \in Headers
  BY DEF Headers, Layouts
<1>2. hdr \in [Luns -> [Gpts -> Headers]]
  BY <1>1
<1>3. arr \in [Luns -> [Gpts -> Layouts]]
  BY DEF Layouts
<1>4. img \in [Protected -> [Copies -> Content]]
  BY DEF Content
<1> QED
  BY <1>2, <1>3, <1>4 DEF TypeOK

\* The variables keep their types in every behaviour of the update.
THEOREM TypeCorrect == Spec => []TypeOK
<1>1. Init => TypeOK
  BY TypeInit
<1>2. TypeOK /\ [Next]_vars => TypeOK'
  BY TypeStep
<1> QED
  BY <1>1, <1>2, PTL DEF Spec

-----------------------------------------------------------------------------
(* The running call.                                                        *)

\* WorkInv is about the LUN being worked on only, so a step that leaves pc at
\* "idle" or at the head of the loop has only the stage to care about.
LEMMA AtLoopHead ==
    ASSUME pc' \in {"idle", "next", "check"},
           pc' # "idle" => stage' \in Stages
    PROVE  WorkInv'
BY DEF WorkInv

LEMMA NoLabelNoWork ==
    ASSUME WorkInv, pc' = pc, stage' = stage, cur' = cur,
           UNCHANGED <<hdr, arr>>
    PROVE  WorkInv'
BY DEF WorkInv, InternalStage, GptState, BadSignature, Valid

LEMMA WorkStep ==
    ASSUME IInv, [Next]_vars
    PROVE  WorkInv'
<1> USE DEF At, Goto, LunDone, LunFailed
<1>0. TypeOK /\ WorkInv /\ LunInv(cur) /\ cur \in Luns /\ "prim" \in Gpts /\ "sec" \in Gpts
  BY DEF IInv, TypeOK, Gpts
<1>1. CASE NextLun \/ Return \/ IoError \/ PowerLoss \/ ChainRefused \/ NoBackupFound
  <2>1. pc' \in {"idle", "next", "check"}
    BY <1>1 DEF NextLun, Return, IoError, PowerLoss, ChainRefused, NoBackupFound
  <2>2. pc' # "idle" => stage' \in Stages
    BY <1>0, <1>1 DEF NextLun, Return, IoError, PowerLoss, ChainRefused,
        NoBackupFound, WorkInv
  <2> QED
    BY <2>1, <2>2, AtLoopHead
<1>2. CASE \E s \in Stages : Request(s)
  BY <1>2, AtLoopHead DEF Request
<1>3. CASE WriteStart \/ WriteEnd \/ Rewrite \/ NewPackage \/ UNCHANGED vars
  <2>1. pc' = pc /\ stage' = stage /\ cur' = cur /\ UNCHANGED <<hdr, arr>>
    BY <1>3 DEF WriteStart, WriteEnd, Rewrite, WriteCopy, NewPackage, vars, call, flash
  <2> QED
    BY <1>0, <2>1, NoLabelNoWork
<1>4. CASE CheckStage
  <2>1. stage \in Stages /\ stage' = stage /\ cur' = cur /\ UNCHANGED <<hdr, arr>>
    BY <1>0, <1>4 DEF CheckStage, flash, WorkInv
  <2>2. CASE pc' = "next"
    BY <2>1, <2>2, AtLoopHead
  <2>3. CASE InternalStage(cur) = stage
             /\ pc' = IF stage = UPDATE_FINALIZE THEN "hdr2" ELSE "lun"
    <3>1. InternalStage(cur)' = stage'
      BY <2>1, <2>3 DEF InternalStage, GptState
    <3>2. /\ stage' = UPDATE_BACKUP => BadSignature(cur, "prim")'
          /\ stage' = UPDATE_FINALIZE => BadSignature(cur, "sec")'
      BY <3>1 DEF InternalStage, BadSignature
    <3> QED
      BY <2>1, <2>3, <3>1, <3>2 DEF WorkInv, Stages
  <2> QED
    BY <1>4, <2>2, <2>3 DEF CheckStage
<1>5. CASE SetBootLun
  <2>1. stage \in Stages /\ stage' = stage /\ cur' = cur /\ UNCHANGED <<hdr, arr>>
    BY <1>0, <1>5 DEF SetBootLun, WorkInv
  <2>2. \/ stage = UPDATE_MAIN /\ InternalStage(cur)' = UPDATE_MAIN /\ pc' = "hdr2"
        \/ stage = UPDATE_BACKUP /\ BadSignature(cur, "prim")' /\ pc' = "prim"
    BY <1>0, <1>5, <2>1 DEF SetBootLun, WorkInv, InternalStage, BadSignature, GptState
  <2> QED
    BY <2>1, <2>2 DEF WorkInv
<1>6. CASE WriteHeader
  <2>1. /\ stage \in Stages /\ stage' = stage /\ cur' = cur /\ arr' = arr
        /\ AtHeaderWrite /\ PutHeader(NewHeader) /\ pc' = AfterHeader
    BY <1>0, <1>6 DEF WriteHeader, WorkInv, AtHeaderWrite
  <2>2. /\ hdr'[cur][HeaderGpt] = NewHeader
        /\ \A g \in Gpts : g # HeaderGpt => hdr'[cur][g] = hdr[cur][g]
    BY <1>0, <2>1, NewHeaderType, PutHeaderFacts
  <2>3. hdr[cur]["prim"] \in Headers /\ hdr[cur]["sec"] \in Headers
    BY <1>0 DEF TypeOK
  <2>4. CASE pc = "hdr2"
    <3>1. Valid(cur, "prim") /\ hdr[cur]["sec"].crc /\ arr[cur]["prim"] = "main"
      BY <1>0, <2>1, <2>4, PrimaryGoodBefore
    <3>2. Valid(cur, "prim")'
      BY <1>0, <2>1, <2>2, <2>4, <3>1 DEF Valid, GptState, HeaderGpt
    <3>3. /\ hdr'[cur]["sec"].sig = hdr[cur]["sec"].sig
          /\ hdr'[cur]["sec"].crc
          /\ hdr'[cur]["sec"].ecrc = SecondaryLayout(cur)
      BY <2>2, <2>3, <2>4 DEF NewHeader, HeaderGpt, Headers
    <3>4. GptState(cur, "sec")' = GptState(cur, "sec")
      BY <2>1, <3>1, <3>3 DEF GptState
    <3>5. \/ stage = UPDATE_MAIN /\ GptState(cur, "sec") = "OK"
          \/ stage = UPDATE_FINALIZE /\ BadSignature(cur, "sec")
      BY <1>0, <2>4 DEF WorkInv, InternalStage
    <3>6. SecondaryLayout(cur) = IF stage = UPDATE_MAIN THEN "bak" ELSE "main"
      BY <3>1 DEF SecondaryLayout, Swap
    <3>7. pc' = "arr2"
      BY <2>1, <2>4 DEF AfterHeader
    <3> QED
      BY <2>1, <3>2, <3>3, <3>4, <3>5, <3>6, <3>7 DEF WorkInv, BadSignature
  <2>5. CASE pc = "prim" /\ stage = UPDATE_BACKUP
    <3>1. BadSignature(cur, "prim") /\ pc' = "sec"
      BY <1>0, <2>1, <2>5 DEF WorkInv, AfterHeader
    <3>2. /\ arr[cur]["prim"] = "main" /\ hdr[cur]["prim"].ecrc = "main"
          /\ Valid(cur, "sec")
      BY <1>0, <3>1 DEF LunInv, BadSignature, GptState
    <3>3. /\ hdr'[cur]["prim"].sig = "ok"
          /\ hdr'[cur]["prim"].crc
          /\ hdr'[cur]["prim"].ecrc = "main"
      <4>1. HeaderGpt = "prim" /\ ~ SpoilsSignature
        BY <2>5 DEF HeaderGpt, SpoilsSignature
      <4> QED
        BY <2>2, <2>3, <2>5, <3>2, <4>1 DEF NewHeader, Headers
    <3>4. Valid(cur, "prim")'
      BY <2>1, <3>2, <3>3 DEF Valid, GptState
    <3>5. hdr'[cur]["sec"] = hdr[cur]["sec"]
      BY <1>0, <2>2, <2>5 DEF HeaderGpt
    <3>6. GptState(cur, "sec")' = "OK"
      BY <2>1, <3>2, <3>5 DEF Valid, GptState
    <3> QED
      BY <2>1, <2>5, <3>1, <3>4, <3>6 DEF WorkInv
  <2>6. CASE (pc = "prim" /\ stage # UPDATE_BACKUP) \/ pc = "sec"
    <3>1. pc' = "next"
      BY <2>1, <2>6 DEF AfterHeader
    <3> QED
      BY <2>1, <3>1, AtLoopHead
  <2> QED
    BY <2>1, <2>4, <2>5, <2>6 DEF AtHeaderWrite
<1>7. CASE WriteArray
  <2>1. /\ stage' = stage /\ cur' = cur /\ hdr' = hdr /\ pc = "arr2"
        /\ PutArray(SecondaryLayout(cur))
        /\ pc' = IF stage = UPDATE_MAIN THEN "prim" ELSE "sec"
    BY <1>7 DEF WriteArray
  <2>2. /\ arr'[cur]["sec"] = SecondaryLayout(cur)
        /\ arr'[cur]["prim"] = arr[cur]["prim"]
    BY <1>0, <2>1, SecondaryLayoutType, PutArrayFacts
  <2>3. Valid(cur, "prim") /\ arr[cur]["prim"] = "main"
    BY <1>0, <2>1, PrimaryGoodBefore
  <2>4. Valid(cur, "prim")'
    BY <2>1, <2>2, <2>3 DEF Valid, GptState
  <2>5. CASE stage = UPDATE_MAIN
    <3>1. GptState(cur, "sec") = "OK" /\ hdr[cur]["sec"].ecrc = "bak"
      BY <1>0, <2>1, <2>5 DEF WorkInv
    <3>2. arr'[cur]["sec"] = "bak"
      BY <2>2, <2>3, <2>5 DEF SecondaryLayout, Swap
    <3>3. Valid(cur, "sec")'
      BY <2>1, <3>1, <3>2 DEF Valid, GptState
    <3> QED
      BY <2>1, <2>4, <2>5, <3>2, <3>3 DEF WorkInv, Stages
  <2>6. CASE stage = UPDATE_FINALIZE
    <3>1. BadSignature(cur, "sec") /\ hdr[cur]["sec"].ecrc = "main"
      BY <1>0, <2>1, <2>6 DEF WorkInv
    <3>2. arr'[cur]["sec"] = "main"
      BY <2>2, <2>3, <2>6 DEF SecondaryLayout
    <3>3. BadSignature(cur, "sec")'
      BY <2>1, <3>1 DEF BadSignature, GptState
    <3> QED
      BY <2>1, <2>4, <2>6, <3>1, <3>2, <3>3 DEF WorkInv, Stages
  <2> QED
    BY <1>0, <2>1, <2>5, <2>6 DEF WorkInv
<1> QED
  BY <1>1, <1>2, <1>3, <1>4, <1>5, <1>6, <1>7 DEF Next, Call, Fault

\* When prepare_partitions reports no error for a LUN, the LUN is prepared.
LEMMA LunPrepared ==
    ASSUME IInv, pc' = "next", ~ isError',
           CheckStage \/ NoBackupFound \/ WriteHeader
    PROVE  Prepared(stage, cur)'
<1> USE DEF At, Goto, LunDone
<1>0. /\ TypeOK /\ WorkInv /\ LunInv(cur) /\ cur \in Luns
      /\ "prim" \in Gpts /\ "sec" \in Gpts
      /\ pc # "idle" /\ stage \in Stages /\ stage' = stage /\ cur' = cur
  BY DEF IInv, TypeOK, Gpts, CheckStage, NoBackupFound, WriteHeader,
         AtHeaderWrite, WorkInv
<1>1. CASE CheckStage
  <2>1. AlreadySet(cur) /\ UNCHANGED <<hdr, arr>>
    BY <1>1 DEF CheckStage, LunFailed, flash
  <2>2. \/ stage = UPDATE_MAIN /\ InternalStage(cur) = UPDATE_BACKUP
        \/ stage = UPDATE_BACKUP /\ InternalStage(cur) = UPDATE_FINALIZE
    BY <1>0, <2>1 DEF AlreadySet, InternalStage, Stages
  <2>3. Prepared(stage, cur)
    BY <2>2 DEF InternalStage, Prepared, BadSignature
  <2> QED
    BY <1>0, <2>1, <2>3, SameLun
<1>2. CASE NoBackupFound
  BY <1>0, <1>2 DEF NoBackupFound, NothingToSwap, Prepared, HasBackup
<1>3. CASE WriteHeader
  <2>1. /\ arr' = arr /\ AtHeaderWrite /\ PutHeader(NewHeader)
        /\ AfterHeader = "next"
    BY <1>3 DEF WriteHeader
  <2>2. /\ hdr'[cur][HeaderGpt] = NewHeader
        /\ \A g \in Gpts : g # HeaderGpt => hdr'[cur][g] = hdr[cur][g]
    BY <1>0, <2>1, NewHeaderType, PutHeaderFacts
  <2>3. hdr[cur]["prim"] \in Headers /\ hdr[cur]["sec"] \in Headers
    BY <1>0 DEF TypeOK
  <2>4. CASE pc = "prim"
    <3>1. stage = UPDATE_MAIN
      BY <1>0, <2>1, <2>4 DEF AfterHeader, WorkInv
    <3>2. HeaderGpt = "prim" /\ SpoilsSignature
      BY <2>4, <3>1 DEF HeaderGpt, SpoilsSignature
    <3>3. hdr'[cur]["prim"].sig = "bad" /\ hdr'[cur]["prim"].crc
      BY <2>2, <2>3, <2>4, <3>2 DEF NewHeader, Headers
    <3> QED
      BY <1>0, <3>1, <3>3 DEF Prepared, BadSignature, GptState
  <2>5. CASE pc = "sec" /\ stage = UPDATE_BACKUP
    <3>1. HeaderGpt = "sec" /\ SpoilsSignature
      BY <2>5 DEF HeaderGpt, SpoilsSignature
    <3>2. hdr'[cur]["sec"].sig = "bad" /\ hdr'[cur]["sec"].crc
      BY <2>2, <2>3, <2>5, <3>1 DEF NewHeader, Headers
    <3> QED
      BY <1>0, <2>5, <3>2 DEF Prepared, BadSignature, GptState
  <2>6. CASE pc = "sec" /\ stage = UPDATE_FINALIZE
    <3>1. HeaderGpt = "sec" /\ ~ SpoilsSignature
      BY <2>6 DEF HeaderGpt, SpoilsSignature
    <3>2. /\ Valid(cur, "prim")
          /\ hdr[cur]["sec"].ecrc = "main" /\ arr[cur]["sec"] = "main"
      BY <1>0, <2>6 DEF WorkInv
    <3>3. /\ hdr'[cur]["sec"].sig = "ok" /\ hdr'[cur]["sec"].crc
          /\ hdr'[cur]["sec"].ecrc = "main"
      BY <2>2, <2>3, <2>6, <3>1, <3>2 DEF NewHeader, Headers
    <3>4. hdr'[cur]["prim"] = hdr[cur]["prim"]
      BY <1>0, <2>2, <3>1
    <3>5. Valid(cur, "prim")' /\ Valid(cur, "sec")'
      BY <1>0, <2>1, <3>2, <3>3, <3>4 DEF Valid, GptState
    <3> QED
      BY <1>0, <2>1, <2>6, <3>2, <3>5 DEF Prepared
  <2> QED
    BY <1>0, <2>1, <2>4, <2>5, <2>6 DEF AfterHeader, AtHeaderWrite, WorkInv
<1> QED
  BY <1>1, <1>2, <1>3

LEMMA DoneStep ==
    ASSUME IInv, [Next]_vars
    PROVE  DoneInv'
<1> USE DEF At, Goto, LunDone, LunFailed
<1>0. TypeOK /\ WorkInv /\ DoneInv /\ cur \in Luns
  BY DEF IInv, TypeOK
<1>1. CASE Return
  <2>1. UNCHANGED <<hdr, arr>> /\ pc' = "idle" /\ pc = "next" /\ todo = {}
        /\ ready' = IF isError THEN NoStage ELSE stage
    BY <1>1 DEF Return, flash
  <2>2. ~ isError => \A d \in Luns : Prepared(stage, d)
    BY <1>0, <2>1 DEF DoneInv
  <2>3. ~ isError => \A d \in Luns : Prepared(ready, d)'
    BY <2>1, <2>2, SameLun
  <2> QED
    BY <2>1, <2>3 DEF DoneInv
<1>2. CASE NextLun
  <2>1. /\ UNCHANGED <<hdr, arr, stage, isError, ready>>
        /\ pc = "next" /\ pc' = "check" /\ todo' = todo \ {cur'}
    BY <1>2 DEF NextLun, flash, caller
  <2>2. ~ isError => \A d \in Luns \ todo : Prepared(stage, d)
    BY <1>0, <2>1 DEF DoneInv
  <2>3. ~ isError => \A d \in Luns \ todo' : d # cur' => Prepared(stage, d)'
    BY <2>1, <2>2, SameLun
  <2>4. ready' = NoStage
    BY <1>0, <2>1 DEF DoneInv
  <2> QED
    BY <2>1, <2>3, <2>4 DEF DoneInv
<1>3. CASE PowerLoss
  BY <1>3 DEF PowerLoss, DoneInv
<1>4. CASE \E s \in Stages : Request(s)
  <2>1. todo' = Luns /\ ready' = NoStage
    BY <1>4 DEF Request
  <2> QED
    BY <2>1 DEF DoneInv
<1>5. CASE WriteStart \/ WriteEnd \/ Rewrite \/ NewPackage \/ UNCHANGED vars
  <2>1. UNCHANGED <<hdr, arr, pc, stage, todo, cur, isError, ready>>
    BY <1>5 DEF WriteStart, WriteEnd, Rewrite, WriteCopy, NewPackage, vars, flash, call, caller
  <2>2. \A d \in Luns, s \in Stages : Prepared(s, d)' = Prepared(s, d)
    BY <2>1, SameLun
  <2>3. ready # NoStage => ready \in Stages
    BY <1>0 DEF TypeOK
  <2>4. pc # "idle" => stage \in Stages
    BY <1>0 DEF WorkInv
  <2> QED
    BY <1>0, <2>1, <2>2, <2>3, <2>4 DEF DoneInv
<1>6. CASE IoError
  <2>1. isError' = TRUE /\ pc # "idle" /\ ready' = ready
    BY <1>6 DEF IoError
  <2> QED
    BY <1>0, <2>1 DEF DoneInv
<1>7. CASE CheckStage \/ SetBootLun \/ ChainRefused \/ NoBackupFound
           \/ WriteHeader \/ WriteArray
  <2>1. /\ UNCHANGED <<stage, todo, cur, ready>> /\ pc # "idle"
        /\ isError' = isError \/ isError' = TRUE
        /\ pc' = "next" => pc # "next"
    BY <1>0, <1>7 DEF CheckStage, SetBootLun, ChainRefused, NoBackupFound,
        WriteHeader, WriteArray, AtHeaderWrite
  <2>2. pc # "next"
    BY <1>7 DEF CheckStage, SetBootLun, ChainRefused, NoBackupFound,
        WriteHeader, WriteArray, AtHeaderWrite
  <2>3. ready' = NoStage
    BY <1>0, <2>1 DEF DoneInv
  <2>4. ASSUME ~ isError', NEW d \in Luns \ todo, d # cur
        PROVE  Prepared(stage, d)'
    <3>1. Prepared(stage, d)
      BY <1>0, <2>1, <2>4 DEF DoneInv
    <3> QED
      BY <1>0, <2>1, <2>4, <3>1, StepFlash, OtherLuns, SameLun
  <2>5. ASSUME ~ isError', pc' = "next" PROVE Prepared(stage, cur)'
    <3>1. CheckStage \/ NoBackupFound \/ WriteHeader
      BY <1>7, <2>5 DEF SetBootLun, ChainRefused, WriteArray
    <3> QED
      BY <2>5, <3>1, LunPrepared
  <2>6. ASSUME pc' # "idle", ~ isError', NEW d \in Luns \ todo',
               pc' = "next" \/ d # cur'
        PROVE  Prepared(stage, d)'
    BY <2>1, <2>4, <2>5, <2>6
  <2> QED
    BY <2>1, <2>3, <2>6 DEF DoneInv
<1> QED
  BY <1>1, <1>2, <1>3, <1>4, <1>5, <1>6, <1>7 DEF Next, Call, Fault

-----------------------------------------------------------------------------
(* Half-written copies.                                                     *)

\* A copy the caller is let write belongs to a LUN whose signatures say so.
LEMMA WritableCopy ==
    ASSUME IInv, ready \in {UPDATE_MAIN, UPDATE_BACKUP}, NEW i \in Images
    PROVE  /\ ready = UPDATE_MAIN => BadSignature(LunOf[i], "prim")
           /\ ready = UPDATE_BACKUP => BadSignature(LunOf[i], "sec")
<1>1. LunOf[i] \in Luns /\ HasBackup(LunOf[i])
  BY ConstantsAssumption DEF HasBackup
<1>2. Prepared(ready, LunOf[i])
  BY <1>1 DEF IInv, DoneInv
<1> QED
  BY <1>1, <1>2 DEF Prepared

LEMMA TornInvStep ==
    ASSUME IInv, [Next]_vars
    PROVE  TornInv'
<1> USE DEF At
<1>0. /\ TypeOK /\ WorkInv /\ TornInv /\ \A d \in Luns : LunInv(d)
      /\ \A i \in Images : i \in Protected /\ LunOf[i] \in Luns
      /\ "main" \in Copies /\ "bak" \in Copies
  BY ConstantsAssumption DEF IInv, Protected, Copies
<1>1. ASSUME img' = img
      PROVE  \A i \in Images :
                /\ img'[i]["main"] = "torn" => BadSignature(LunOf[i], "prim")'
                /\ img'[i]["bak"] = "torn" => BadSignature(LunOf[i], "sec")'
  BY <1>0, <1>1, StepFlash, TornStep
<1>2. CASE \E s \in Stages : Request(s)
  <2>1. PICK s \in Stages : Request(s)
    BY <1>2
  <2>2. img' = img /\ stage' = s /\ MayRequest(s)
    BY <2>1 DEF Request
  <2>3. MayRequest(stage)'
    BY <2>2 DEF MayRequest
  <2> QED
    BY <1>1, <2>2, <2>3 DEF TornInv
<1>3. CASE Call \/ IoError \/ PowerLoss
  <2>1. img' = img
    BY <1>3 DEF Call, NextLun, Return, CheckStage, SetBootLun, ChainRefused,
        NoBackupFound, WriteHeader, WriteArray, IoError, PowerLoss, caller
  <2>2. pc' # "idle" => stage' = stage /\ pc # "idle"
    BY <1>3 DEF Call, NextLun, Return, CheckStage, SetBootLun, ChainRefused,
        NoBackupFound, WriteHeader, WriteArray, IoError, PowerLoss, AtHeaderWrite
  <2>3. pc' # "idle" => MayRequest(stage)'
    BY <1>0, <2>1, <2>2 DEF TornInv, MayRequest
  <2> QED
    BY <1>1, <2>1, <2>3 DEF TornInv
<1>4. CASE WriteStart \/ WriteEnd \/ Rewrite
  <2>1. PICK from \in Content, to \in Content : WriteCopy(from, to)
    BY <1>4 DEF WriteStart, WriteEnd, Rewrite, Content
  <2>2. /\ ready \in {UPDATE_MAIN, UPDATE_BACKUP}
        /\ UNCHANGED <<hdr, arr>> /\ pc' = "idle"
    BY <2>1 DEF WriteCopy, flash, call
  <2>3. PICK j \in Protected : img' = [img EXCEPT ![j][StageCopy(ready)] = to]
    BY <2>1 DEF WriteCopy
  <2>4. ASSUME NEW i \in Images, NEW c \in Copies, c # StageCopy(ready)
        PROVE  img'[i][c] = img[i][c]
    BY <1>0, <2>3, <2>4 DEF TypeOK
  <2>5. ASSUME NEW i \in Images
        PROVE  /\ img'[i]["main"] = "torn" => BadSignature(LunOf[i], "prim")
               /\ img'[i]["bak"] = "torn" => BadSignature(LunOf[i], "sec")
    <3>1. CASE ready = UPDATE_MAIN
      BY <1>0, <2>2, <2>4, <3>1, WritableCopy DEF StageCopy, TornInv
    <3>2. CASE ready = UPDATE_BACKUP
      BY <1>0, <2>2, <2>4, <3>2, WritableCopy DEF StageCopy, TornInv
    <3> QED
      BY <2>2, <3>1, <3>2
  <2>6. \A d \in Luns, g \in Gpts : BadSignature(d, g)' = BadSignature(d, g)
    BY <2>2, SameLun
  <2> QED
    BY <1>0, <2>2, <2>5, <2>6 DEF TornInv, Gpts
<1>5. CASE NewPackage
  <2>1. /\ UNCHANGED <<hdr, arr>> /\ pc' = "idle"
        /\ \A i \in Images, c \in Copies : img'[i][c] = "torn" => img[i][c] = "torn"
    BY <1>0, <1>5 DEF NewPackage, flash, call
  <2>2. \A d \in Luns, g \in Gpts : BadSignature(d, g)' = BadSignature(d, g)
    BY <2>1, SameLun
  <2> QED
    BY <1>0, <2>1, <2>2 DEF TornInv, Gpts
<1>6. CASE UNCHANGED vars
  <2>1. UNCHANGED <<img, pc, stage>>
    BY <1>6 DEF vars, caller, call
  <2>2. MayRequest(stage)' = MayRequest(stage)
    BY <2>1 DEF MayRequest
  <2> QED
    BY <1>0, <1>1, <2>1, <2>2 DEF TornInv
<1> QED
  BY <1>2, <1>3, <1>4, <1>5, <1>6 DEF Next, Fault

-----------------------------------------------------------------------------
(* The invariant and what follows from it.                                  *)

LEMMA InvInit ==
    ASSUME Init PROVE IInv
<1> USE DEF Init
<1>1. TypeOK
  BY TypeInit
<1>2. ASSUME NEW d \in Luns PROVE LunInv(d)
  <2>1. /\ hdr[d]["prim"] = [sig |-> "ok", crc |-> TRUE, ecrc |-> "main"]
        /\ hdr[d]["sec"] = [sig |-> "ok", crc |-> TRUE, ecrc |-> "main"]
    BY DEF Gpts
  <2>2. arr[d]["prim"] \in {"main", "torn"} /\ arr[d]["sec"] = "main"
    BY DEF Gpts
  <2>3. GptState(d, "prim") = "OK" /\ GptState(d, "sec") = "OK"
    BY <2>1 DEF GptState
  <2>4. Valid(d, "sec")
    BY <2>1, <2>2, <2>3 DEF Valid
  <2> QED
    BY <2>1, <2>2, <2>3, <2>4 DEF LunInv, Bootable, BadSignature, Gpts
<1>3. WorkInv /\ DoneInv
  BY DEF WorkInv, DoneInv
<1>4. TornInv
  <2>1. \A i \in Images : i \in Protected
    BY DEF Protected
  <2> QED
    BY <2>1 DEF TornInv, Copies
<1> QED
  BY <1>1, <1>2, <1>3, <1>4 DEF IInv

LEMMA InvStep ==
    ASSUME IInv, [Next]_vars
    PROVE  IInv'
<1>1. TypeOK
  BY DEF IInv
<1> QED
  BY <1>1, TypeStep, StepLunInv, WorkStep, DoneStep, TornInvStep DEF IInv

\* The inductive invariant holds throughout every behaviour.
THEOREM Invariance == Spec => []IInv
<1>1. Init => IInv
  BY InvInit
<1>2. IInv /\ [Next]_vars => IInv'
  BY InvStep
<1> QED
  BY <1>1, <1>2, PTL DEF Spec

\* Every LUN keeps a GPT the boot loader accepts, whatever is cut short.
THEOREM KeepsBootable == Spec => []AlwaysBootable
<1>1. IInv => AlwaysBootable
  BY DEF IInv, LunInv, AlwaysBootable
<1> QED
  BY <1>1, Invariance, PTL

-----------------------------------------------------------------------------
(* LUNs without backed-up images.                                           *)

LEMMA UnwrittenLun ==
    ASSUME IInv, UnbackedInv, [Next]_vars, NEW d \in Luns, ~ HasBackup(d)
    PROVE  \A g \in Gpts : hdr'[d][g] = hdr[d][g] /\ arr'[d][g] = arr[d][g]
<1>1. TypeOK /\ InterruptedWrite
  BY StepFlash DEF IInv
<1>2. ~ (d = cur /\ pc \in {"arr2", "prim", "sec"})
  BY DEF UnbackedInv
<1>3. ASSUME d = cur, pc = "hdr2" PROVE NothingToSwap(cur)
  <2>1. "sec" \in Gpts /\ ~ BadSignature(cur, "sec")
    BY <1>3 DEF UnbackedInv, BadSignature, Gpts
  <2> QED
    BY <1>3, <2>1 DEF IInv, WorkInv, NothingToSwap
<1>4. d # cur \/ ~ (AtHeaderWrite \/ pc = "arr2")
  BY <1>2, <1>3 DEF AtHeaderWrite
<1> QED
  BY <1>1, <1>4, OtherLuns

LEMMA UnbackedStep ==
    ASSUME IInv, UnbackedInv, [Next]_vars
    PROVE  UnbackedInv'
<1> USE DEF At
<1>1. ASSUME NEW d \in Luns, NEW g \in Gpts, ~ HasBackup(d)
      PROVE  GptState(d, g)' = "OK"
  BY <1>1, UnwrittenLun DEF UnbackedInv, GptState
<1>2. \A d \in Luns : HasBackup(d)' = HasBackup(d)
  BY DEF HasBackup
<1>3. ASSUME pc' \in {"arr2", "prim", "sec"} PROVE HasBackup(cur)'
  <2> SUFFICES cur' = cur /\ HasBackup(cur)
    BY DEF HasBackup
  <2>1. CASE SetBootLun
    <3>1. pc = "lun" /\ pc' = "prim" /\ stage = UPDATE_BACKUP
      BY <1>3, <2>1 DEF SetBootLun, Goto, IInv, WorkInv
    <3>2. "prim" \in Gpts /\ cur \in Luns /\ BadSignature(cur, "prim")
      BY <3>1 DEF IInv, TypeOK, WorkInv, Gpts
    <3>3. HasBackup(cur)
      BY <3>2 DEF UnbackedInv, BadSignature
    <3> QED
      BY <2>1, <3>3 DEF SetBootLun
  <2>2. CASE WriteHeader
    <3>1. AtHeaderWrite /\ cur' = cur
      BY <2>2 DEF WriteHeader
    <3>2. CASE pc = "hdr2"
      <4>1. ~ NothingToSwap(cur) /\ "sec" \in Gpts /\ cur \in Luns
        BY <3>1, <3>2 DEF AtHeaderWrite, IInv, TypeOK, Gpts
      <4>2. stage = UPDATE_MAIN \/ BadSignature(cur, "sec")
        BY <3>2 DEF IInv, WorkInv
      <4> QED
        BY <3>1, <4>1, <4>2 DEF NothingToSwap, UnbackedInv, BadSignature
    <3> QED
      BY <3>1, <3>2 DEF AtHeaderWrite, UnbackedInv
  <2>3. CASE WriteArray
    BY <2>3 DEF WriteArray, UnbackedInv
  <2>4. CASE UNCHANGED <<pc, cur>>
    BY <1>3, <2>4 DEF UnbackedInv
  <2>5. CASE NextLun \/ Return
    BY <1>3, <2>5 DEF NextLun, Return
  <2>6. CASE CheckStage \/ ChainRefused \/ NoBackupFound \/ IoError
    BY <1>3, <2>6 DEF CheckStage, ChainRefused, NoBackupFound, IoError, LunDone,
                      LunFailed, Goto
  <2>7. CASE PowerLoss \/ \E s \in Stages : Request(s)
    BY <1>3, <2>7 DEF PowerLoss, Request
  <2>8. CASE WriteStart \/ WriteEnd \/ Rewrite \/ NewPackage
    <3>1. UNCHANGED call
      BY <2>8 DEF WriteStart, WriteEnd, Rewrite, WriteCopy, NewPackage
    <3> QED
      BY <2>4, <3>1 DEF call
  <2>9. CASE UNCHANGED vars
    BY <2>4, <2>9 DEF vars, call
  <2> QED
    BY <2>1, <2>2, <2>3, <2>5, <2>6, <2>7, <2>8, <2>9 DEF Next, Call, Fault
<1> QED
  BY <1>1, <1>2, <1>3 DEF UnbackedInv

LEMMA UnbackedInit == Init => UnbackedInv
<1> SUFFICES ASSUME Init PROVE UnbackedInv
  OBVIOUS
<1>1. \A d \in Luns, g \in Gpts : GptState(d, g) = "OK"
  BY DEF Init, GptState
<1> QED
  BY <1>1 DEF Init, UnbackedInv

\* "No backup partitions - do not corrupt GPT": no stage and no fault ever
\* changes a GPT of a LUN without backed-up images.
THEOREM LeavesUnbackedAlone == Spec => UnbackedUntouched
<1>1. ASSUME IInv, UnbackedInv, [Next]_vars
      PROVE  [\A d \in Luns : ~ HasBackup(d) => UNCHANGED <<hdr[d], arr[d]>>]_vars
  <2> SUFFICES ASSUME NEW d \in Luns, ~ HasBackup(d)
               PROVE  hdr'[d] = hdr[d] /\ arr'[d] = arr[d]
    OBVIOUS
  <2>1. /\ hdr[d] \in [Gpts -> Headers] /\ hdr'[d] \in [Gpts -> Headers]
        /\ arr[d] \in [Gpts -> Layouts] /\ arr'[d] \in [Gpts -> Layouts]
    BY <1>1, TypeStep DEF IInv, TypeOK
  <2>2. \A g \in Gpts : hdr'[d][g] = hdr[d][g] /\ arr'[d][g] = arr[d][g]
    BY <1>1, UnwrittenLun
  <2> QED
    BY <2>1, <2>2
<1>2. Init => UnbackedInv
  BY UnbackedInit
<1>3. IInv /\ UnbackedInv /\ [Next]_vars => UnbackedInv'
  BY UnbackedStep
<1>4. IInv /\ UnbackedInv /\ [Next]_vars
        => [\A d \in Luns : ~ HasBackup(d) => UNCHANGED <<hdr[d], arr[d]>>]_vars
  BY <1>1
<1> QED
  BY <1>2, <1>3, <1>4, Invariance, PTL DEF Spec, UnbackedUntouched

-----------------------------------------------------------------------------
(* What boots.                                                              *)

LEMMA BootedBySignature ==
    ASSUME TypeOK, NEW d \in Luns, LunInv(d)
    PROVE  /\ BootedLayout(d) \in Copies
           /\ BadSignature(d, "prim") => BootedLayout(d) = "bak"
           /\ BadSignature(d, "sec") => BootedLayout(d) = "main"
<1>1. Valid(d, "prim") => arr[d]["prim"] = "main" /\ ~ BadSignature(d, "prim")
  BY DEF LunInv, Valid, BadSignature
<1>2. Valid(d, "sec") => arr[d]["sec"] \in Copies
  BY DEF TypeOK, Valid, Gpts, Layouts, Copies
<1>3. Valid(d, "prim") \/ Valid(d, "sec")
  BY DEF LunInv, Bootable, Gpts
<1>4. BadSignature(d, "prim") => Valid(d, "sec") /\ arr[d]["sec"] = "bak"
  BY DEF LunInv
<1>5. BadSignature(d, "sec") => Valid(d, "prim")
  BY DEF LunInv
<1> QED
  BY <1>1, <1>2, <1>3, <1>4, <1>5 DEF BootedLayout, Copies

\* The copy the boot loader would load is never half written, wherever a power
\* loss or an error cut a call or the caller short.
THEOREM KeepsBootSafe == Spec => []BootSafe
<1>1. ASSUME IInv PROVE BootSafe
  <2> SUFFICES ASSUME NEW i \in Images
               PROVE  /\ BootedCopy(i) \in Copies
                      /\ img[i][BootedCopy(i)] # "torn"
    BY DEF BootSafe
  <2>1. LunOf[i] \in Luns /\ BootedCopy(i) = BootedLayout(LunOf[i])
    BY ConstantsAssumption DEF BootedCopy
  <2>2. /\ BootedCopy(i) \in Copies
        /\ BadSignature(LunOf[i], "prim") => BootedCopy(i) = "bak"
        /\ BadSignature(LunOf[i], "sec") => BootedCopy(i) = "main"
    BY <1>1, <2>1, BootedBySignature DEF IInv
  <2>3. CASE BootedCopy(i) = "main"
    BY <1>1, <2>2, <2>3 DEF IInv, TornInv
  <2>4. CASE BootedCopy(i) = "bak"
    BY <1>1, <2>2, <2>4 DEF IInv, TornInv
  <2> QED
    BY <2>2, <2>3, <2>4 DEF Copies
<1> QED
  BY <1>1, Invariance, PTL

\* A stage reported ready is one whose copies no image that a GPT chooses boots
\* from, and of these images the comment "Stage already set" is right.
THEOREM KeepsReady == Spec => []ReadyForUpdate
<1>1. ASSUME IInv PROVE ReadyForUpdate
  <2> SUFFICES ASSUME ready \in {UPDATE_MAIN, UPDATE_BACKUP},
                      NEW i \in Images
               PROVE  BootedCopy(i) # StageCopy(ready)
    BY DEF ReadyForUpdate
  <2>1. LunOf[i] \in Luns /\ BootedCopy(i) = BootedLayout(LunOf[i])
    BY ConstantsAssumption DEF BootedCopy
  <2>2. /\ BadSignature(LunOf[i], "prim") => BootedCopy(i) = "bak"
        /\ BadSignature(LunOf[i], "sec") => BootedCopy(i) = "main"
    BY <1>1, <2>1, BootedBySignature DEF IInv
  <2> QED
    BY <1>1, <2>2, WritableCopy DEF StageCopy
<1> QED
  BY <1>1, Invariance, PTL

\* A successful UPDATE_FINALIZE leaves both GPTs of every LUN good and
\* describing the main copies.
THEOREM FinalizeRestores == Spec => []FinalizeUndoesMain
<1>1. ASSUME IInv PROVE FinalizeUndoesMain
  <2> SUFFICES ASSUME ready = UPDATE_FINALIZE, NEW d \in Luns, NEW g \in Gpts
               PROVE  Valid(d, g) /\ arr[d][g] = "main"
    BY DEF FinalizeUndoesMain
  <2>1. /\ Valid(d, "prim") /\ Valid(d, "sec")
        /\ arr[d]["sec"] = "main"
    BY <1>1 DEF IInv, DoneInv, Prepared
  <2>2. arr[d]["prim"] = "main"
    BY <1>1, <2>1 DEF IInv, LunInv, Valid
  <2> QED
    BY <2>1, <2>2 DEF Gpts
<1> QED
  BY <1>1, Invariance, PTL

-----------------------------------------------------------------------------
(* GptUpdate implements BootGuard.                                          *)

LEMMA SafeNow ==
    ASSUME IInv, NEW i \in Images
    PROVE  /\ LunOf[i] \in Luns
           /\ BootedCopy(i) = BootedLayout(LunOf[i])
           /\ BootedCopy(i) \in Copies
           /\ img[i][BootedCopy(i)] # "torn"
           /\ ready \in {UPDATE_MAIN, UPDATE_BACKUP} =>
                 BootedCopy(i) # StageCopy(ready)
<1>1. LunOf[i] \in Luns /\ BootedCopy(i) = BootedLayout(LunOf[i])
  BY ConstantsAssumption DEF BootedCopy
<1>2. /\ BootedCopy(i) \in Copies
      /\ BadSignature(LunOf[i], "prim") => BootedCopy(i) = "bak"
      /\ BadSignature(LunOf[i], "sec") => BootedCopy(i) = "main"
  BY <1>1, BootedBySignature DEF IInv
<1>3. img[i][BootedCopy(i)] # "torn"
  BY <1>2 DEF IInv, TornInv, Copies
<1>4. ready \in {UPDATE_MAIN, UPDATE_BACKUP} => BootedCopy(i) # StageCopy(ready)
  BY <1>2, WritableCopy DEF StageCopy
<1> QED
  BY <1>1, <1>2, <1>3, <1>4

LEMMA SameBooted ==
    ASSUME IInv, UNCHANGED <<hdr, arr>>
    PROVE  BootedNow' = BootedNow
<1>1. ASSUME NEW i \in Images PROVE BootedCopy(i)' = BootedCopy(i)
  <2>1. LunOf[i] \in Luns
    BY ConstantsAssumption
  <2>2. Valid(LunOf[i], "prim")' = Valid(LunOf[i], "prim")
        /\ Valid(LunOf[i], "sec")' = Valid(LunOf[i], "sec")
    BY DEF Valid, GptState
  <2> QED
    BY <2>1, <2>2 DEF BootedCopy, BootedLayout
<1> QED
  BY <1>1 DEF BootedNow

\* Every step of the update is a step of BootGuard or invisible to it.
LEMMA GuardStep ==
    ASSUME IInv, BootSafe', [Next]_vars
    PROVE  Guard!Next \/ UNCHANGED <<BootedNow, ImageNow>>
<1>0. TypeOK /\ \A i \in Images : i \in Protected
  BY DEF IInv, Protected
<1>1. CASE img' = img
  <2>1. ImageNow' = ImageNow
    BY <1>1 DEF ImageNow
  <2>2. \A i \in Images : /\ BootedCopy(i)' \in Copies
                          /\ img[i][BootedCopy(i)'] # "torn"
    BY <1>1 DEF BootSafe
  <2>3. BootedNow' \in [Images -> Copies]
    BY <2>2 DEF BootedNow
  <2>4. \A i \in Images : ImageNow[i][BootedNow'[i]] # "torn"
    BY <2>2 DEF BootedNow, ImageNow
  <2>5. Guard!Switch
    BY <2>1, <2>3, <2>4 DEF Guard!Switch, Guard!Copies, Copies
  <2> QED
    BY <2>5 DEF Guard!Next
<1>2. CASE WriteStart \/ WriteEnd \/ Rewrite
  <2>1. PICK from \in Content, to \in {"torn", "new"} : WriteCopy(from, to)
    BY <1>2 DEF WriteStart, WriteEnd, Rewrite, Content
  <2>2. ready \in {UPDATE_MAIN, UPDATE_BACKUP} /\ UNCHANGED <<hdr, arr>>
    BY <2>1 DEF WriteCopy, flash
  <2>3. PICK j \in Protected : img' = [img EXCEPT ![j][StageCopy(ready)] = to]
    BY <2>1 DEF WriteCopy
  <2>4. BootedNow' = BootedNow
    BY <2>2, SameBooted
  <2>5. CASE j \in Images
    <3>1. StageCopy(ready) \in Copies /\ BootedNow[j] # StageCopy(ready)
      BY <2>2, <2>5, SafeNow DEF BootedNow, StageCopy, Copies
    <3>2. ImageNow' = [ImageNow EXCEPT ![j][StageCopy(ready)] = to]
      BY <1>0, <2>3, <2>5 DEF ImageNow, TypeOK
    <3>3. Guard!Overwrite(j, StageCopy(ready))
      BY <2>1, <2>4, <3>1, <3>2 DEF Guard!Overwrite
    <3> QED
      BY <2>5, <3>1, <3>3 DEF Guard!Next, Guard!Copies, Copies
  <2>6. CASE j \notin Images
    <3>1. ImageNow' = ImageNow
      BY <1>0, <2>3, <2>6 DEF ImageNow, TypeOK
    <3> QED
      BY <2>4, <3>1
  <2> QED
    BY <2>5, <2>6
<1>3. CASE NewPackage
  <2>1. UNCHANGED <<hdr, arr>>
    BY <1>3 DEF NewPackage, flash
  <2>2. img' = [i \in Protected |-> [c \in Copies |->
                   IF img[i][c] = "torn" THEN "torn" ELSE "old"]]
    BY <1>3 DEF NewPackage
  <2>3. ImageNow' = [i \in Images |-> [c \in Copies |->
                        IF ImageNow[i][c] = "torn" THEN "torn" ELSE "old"]]
    BY <1>0, <2>2 DEF ImageNow
  <2>4. Guard!Supersede
    BY <2>1, <2>3, SameBooted DEF Guard!Supersede, Guard!Copies, Copies
  <2> QED
    BY <2>4 DEF Guard!Next
<1> QED
  BY <1>1, <1>2, <1>3
  DEF Next, Call, Fault, NextLun, Return, CheckStage, SetBootLun, ChainRefused,
      NoBackupFound, WriteHeader, WriteArray, IoError, PowerLoss, Request, At,
      caller, vars

LEMMA GuardInit ==
    ASSUME Init PROVE Guard!Init
<1>1. IInv
  BY InvInit
<1>2. ASSUME NEW i \in Images PROVE BootedCopy(i) = "main"
  <2>1. LunOf[i] \in Luns /\ BootedCopy(i) = BootedLayout(LunOf[i])
    BY <1>1, SafeNow
  <2>2. \A g \in Gpts : Valid(LunOf[i], g) => arr[LunOf[i]][g] = "main"
    BY <2>1 DEF Init, Valid, Gpts
  <2>3. BootedLayout(LunOf[i]) \in Copies
    BY <1>1, <2>1, SafeNow
  <2> QED
    BY <2>1, <2>2, <2>3 DEF BootedLayout, Gpts, Copies
<1>3. BootedNow = [i \in Images |-> "main"]
  BY <1>2 DEF BootedNow
<1>4. ImageNow = [i \in Images |-> [c \in Copies |-> "old"]]
  BY DEF Init, ImageNow, Protected
<1> QED
  BY <1>3, <1>4 DEF Guard!Init, Guard!Copies, Copies

\* Whatever happens to power and I/O, the update is an instance of BootGuard:
\* images are only overwritten where they are not booted and only switched to
\* complete copies.
THEOREM Refinement == Spec => ImplementsBootGuard
<1>1. Init => Guard!Init
  BY GuardInit
<1>2. IInv /\ BootSafe' /\ [Next]_vars => [Guard!Next]_<<BootedNow, ImageNow>>
  BY GuardStep
<1> QED
  BY <1>1, <1>2, Invariance, KeepsBootSafe, PTL
  DEF Spec, ImplementsBootGuard, Guard!Spec, Guard!vars

-----------------------------------------------------------------------------
(* The backup of xbl, which the boot LUN chooses and no GPT.                *)

\* When every secondary GPT is spoiled LUN A boots, and the backup of xbl is
\* half written only then.
XblInv ==
    UsesBootLun =>
        /\ (\A d \in Luns : BadSignature(d, "sec")) => bootLun = "A"
        /\ pc \in {"prim", "sec"} /\ stage = UPDATE_BACKUP => bootLun = "A"
        /\ img[Xbl]["bak"] = "torn" => \A d \in Luns : BadSignature(d, "sec")

\* LUN B is selected only for a LUN whose secondary GPT is good.
LEMMA BootLunStep ==
    ASSUME IInv, UsesBootLun, InterruptedWrite, bootLun' # bootLun
    PROVE  /\ UNCHANGED <<hdr, arr>> /\ pc = "lun" /\ bootLun' = NewBootLun
           /\ \/ stage = UPDATE_BACKUP /\ bootLun' = "A"
              \/ ~ BadSignature(cur, "sec")
<1>1. UNCHANGED <<hdr, arr>> /\ pc = "lun" /\ bootLun' = NewBootLun
  BY DEF InterruptedWrite, flash
<1>2. stage = UPDATE_BACKUP \/ InternalStage(cur) = UPDATE_MAIN
  BY <1>1 DEF IInv, WorkInv
<1>3. InternalStage(cur) = UPDATE_MAIN => ~ BadSignature(cur, "sec")
  BY DEF InternalStage, BadSignature, UPDATE_MAIN, UPDATE_BACKUP, UPDATE_FINALIZE, NoStage
<1>4. stage = UPDATE_BACKUP => bootLun' = "A"
  BY <1>1 DEF NewBootLun, UPDATE_MAIN, UPDATE_BACKUP
<1> QED
  BY <1>1, <1>2, <1>3, <1>4

\* The last secondary GPT is spoiled when LUN A boots.
LEMMA SpoilsLastForA ==
    ASSUME IInv, XblInv, UsesBootLun, InterruptedWrite,
           \A d \in Luns : BadSignature(d, "sec")'
    PROVE  bootLun' = "A"
<1>0. TypeOK /\ cur \in Luns /\ WorkInv /\ "prim" \in Gpts /\ "sec" \in Gpts
  BY DEF IInv, TypeOK, Gpts
<1>1. CASE \A d \in Luns : hdr'[d]["sec"] = hdr[d]["sec"]
  <2>1. \A d \in Luns : BadSignature(d, "sec")
    BY <1>1 DEF BadSignature, GptState
  <2> QED
    BY <1>0, <2>1, BootLunStep DEF XblInv
<1>2. CASE ~ \A d \in Luns : hdr'[d]["sec"] = hdr[d]["sec"]
  <2>1. /\ AtHeaderWrite /\ bootLun' = bootLun
        /\ \E h \in {NewHeader} \cup (IF SectorAtomic THEN {} ELSE {TornHeader}) :
               PutHeader(h)
    BY <1>2 DEF InterruptedWrite, flash
  <2>2. PICK h \in {NewHeader, TornHeader} : PutHeader(h)
    BY <2>1
  <2>3. /\ hdr'[cur][HeaderGpt] = h
        /\ \A d \in Luns, g \in Gpts : d # cur \/ g # HeaderGpt => hdr'[d][g] = hdr[d][g]
    BY <1>0, <2>1, <2>2, NewHeaderType, PutHeaderFacts
  <2>4. HeaderGpt = "sec" /\ pc # "prim"
    BY <1>0, <1>2, <2>3 DEF HeaderGpt
  <2>5. h.crc /\ h.sig = "bad"
    BY <1>0, <2>3, <2>4 DEF BadSignature, GptState
  <2>6. h = NewHeader
    BY <2>2, <2>5 DEF TornHeader
  <2>7. CASE pc = "hdr2"
    <3>1. hdr[cur]["sec"].sig = "bad"
      <4>1. NewHeader = [hdr[cur]["sec"] EXCEPT !.crc = TRUE, !.ecrc = SecondaryLayout(cur)]
        BY <2>4, <2>7 DEF NewHeader
      <4>2. hdr[cur]["sec"] \in Headers
        BY <1>0 DEF TypeOK
      <4>3. NewHeader.sig = hdr[cur]["sec"].sig
        BY <4>1, <4>2 DEF Headers
      <4> QED
        BY <2>5, <2>6, <4>3
    <3>2. stage = UPDATE_MAIN => GptState(cur, "sec") = "OK"
      BY <1>0, <2>7 DEF WorkInv, InternalStage, UPDATE_MAIN, UPDATE_BACKUP,
                        UPDATE_FINALIZE, NoStage
    <3>3. stage # UPDATE_MAIN
      BY <3>1, <3>2 DEF GptState
    <3>4. BadSignature(cur, "sec")
      BY <1>0, <2>7, <3>3 DEF WorkInv
    <3>5. \A d \in Luns : BadSignature(d, "sec")
      <4>1. ASSUME NEW d \in Luns, d # cur PROVE BadSignature(d, "sec")
        <5>1. hdr'[d]["sec"] = hdr[d]["sec"]
          BY <1>0, <2>3, <4>1
        <5> QED
          BY <5>1 DEF BadSignature, GptState
      <4> QED
        BY <3>4, <4>1
    <3> QED
      BY <2>1, <3>5 DEF XblInv
  <2>8. CASE pc # "hdr2"
    <3>1. pc = "sec"
      BY <2>1, <2>4, <2>8 DEF AtHeaderWrite
    <3>2. stage = UPDATE_BACKUP
      <4>1. NewHeader.sig = IF SpoilsSignature THEN "bad" ELSE "ok"
        <5>1. NewHeader = [hdr[cur]["sec"] EXCEPT !.crc = TRUE,
                              !.sig = IF SpoilsSignature THEN "bad" ELSE "ok"]
          BY <2>4, <3>1 DEF NewHeader
        <5>2. hdr[cur]["sec"] \in Headers
          BY <1>0 DEF TypeOK
        <5> QED
          BY <5>1, <5>2 DEF Headers
      <4>2. SpoilsSignature
        BY <2>5, <2>6, <4>1
      <4> QED
        BY <3>1, <4>2 DEF SpoilsSignature
    <3> QED
      BY <2>1, <3>1, <3>2 DEF XblInv
  <2> QED
    BY <2>7, <2>8
<1> QED
  BY <1>1, <1>2

\* While the backup of xbl is half written no call writes a header.
LEMMA TornXblKeepsHeaders ==
    ASSUME IInv, XblInv, UsesBootLun, InterruptedWrite, img[Xbl]["bak"] = "torn"
    PROVE  hdr' = hdr
<1>0. /\ TypeOK /\ cur \in Luns /\ WorkInv /\ TornInv /\ LunInv(cur)
      /\ "prim" \in Gpts /\ "sec" \in Gpts /\ Xbl \in Protected
  BY DEF IInv, TypeOK, Gpts, Protected
<1>1. BadSignature(cur, "sec") /\ GptState(cur, "sec") # "OK" /\ ~ Valid(cur, "sec")
  BY <1>0 DEF XblInv, BadSignature, Valid
<1>2. pc # "idle" => stage # UPDATE_FINALIZE
  <2>1. StageCopy(UPDATE_FINALIZE - 1) = "bak" /\ UPDATE_FINALIZE # UPDATE_MAIN
    BY DEF StageCopy, UPDATE_FINALIZE, UPDATE_MAIN
  <2> QED
    BY <1>0, <2>1 DEF TornInv, MayRequest
<1>3. InternalStage(cur) # UPDATE_MAIN
  BY <1>1 DEF InternalStage, UPDATE_MAIN, UPDATE_BACKUP, UPDATE_FINALIZE, NoStage
<1>4. pc # "hdr2"
  BY <1>0, <1>2, <1>3 DEF WorkInv
<1>5. pc # "prim"
  BY <1>0, <1>1 DEF WorkInv, LunInv
<1>6. pc # "sec"
  BY <1>0, <1>1, <1>2 DEF WorkInv
<1>7. ~ AtHeaderWrite
  BY <1>4, <1>5, <1>6 DEF AtHeaderWrite
<1> QED
  BY <1>7 DEF InterruptedWrite, flash

LEMMA XblStep ==
    ASSUME IInv, XblInv, [Next]_vars
    PROVE  XblInv'
<1> SUFFICES ASSUME UsesBootLun PROVE XblInv'
  BY DEF XblInv, UsesBootLun
<1>0. /\ InterruptedWrite /\ TypeOK /\ WorkInv /\ DoneInv /\ cur \in Luns
      /\ Xbl \in Protected /\ "bak" \in Copies
  BY StepFlash DEF IInv, TypeOK, Protected, Copies
<1>1. (\A d \in Luns : BadSignature(d, "sec")') => bootLun' = "A"
  BY <1>0, SpoilsLastForA
<1>2. ASSUME pc' \in {"prim", "sec"}, stage' = UPDATE_BACKUP PROVE bootLun' = "A"
  <2>1. CASE SetBootLun
    BY <1>2, <2>1 DEF SetBootLun, At, NewBootLun, UPDATE_MAIN, UPDATE_BACKUP
  <2>2. CASE WriteHeader
    <3>1. stage = UPDATE_BACKUP /\ bootLun' = bootLun /\ AtHeaderWrite
      BY <1>2, <2>2 DEF WriteHeader, At
    <3>2. pc # "hdr2"
      BY <1>2, <2>2 DEF WriteHeader, AfterHeader, Goto
    <3> QED
      BY <3>1, <3>2 DEF AtHeaderWrite, XblInv
  <2>3. CASE WriteArray
    BY <1>0, <1>2, <2>3 DEF WriteArray, At, WorkInv, UPDATE_MAIN, UPDATE_BACKUP,
                            UPDATE_FINALIZE
  <2>4. CASE UNCHANGED <<pc, stage, bootLun>>
    BY <1>2, <2>4 DEF XblInv
  <2>5. CASE NextLun \/ Return \/ PowerLoss \/ \E s \in Stages : Request(s)
    BY <1>2, <2>5 DEF NextLun, Return, PowerLoss, Request
  <2>6. CASE CheckStage \/ ChainRefused \/ NoBackupFound \/ IoError
    BY <1>2, <2>6 DEF CheckStage, ChainRefused, NoBackupFound, IoError, LunDone,
                      LunFailed, Goto
  <2>7. CASE WriteStart \/ WriteEnd \/ Rewrite \/ NewPackage
    <3>1. UNCHANGED <<flash, call>>
      BY <2>7 DEF WriteStart, WriteEnd, Rewrite, WriteCopy, NewPackage
    <3> QED
      BY <2>4, <3>1 DEF flash, call
  <2>8. CASE UNCHANGED vars
    BY <2>4, <2>8 DEF vars, flash, call
  <2> QED
    BY <2>1, <2>2, <2>3, <2>5, <2>6, <2>7, <2>8 DEF Next, Call, Fault
<1>3. ASSUME img'[Xbl]["bak"] = "torn" PROVE \A d \in Luns : BadSignature(d, "sec")'
  <2>1. CASE img[Xbl]["bak"] = "torn"
    <3>1. hdr' = hdr /\ \A d \in Luns : BadSignature(d, "sec")
      BY <1>0, <2>1, TornXblKeepsHeaders DEF XblInv
    <3> QED
      BY <3>1 DEF BadSignature, GptState
  <2>2. CASE img[Xbl]["bak"] # "torn"
    <3>1. img \in [Protected -> [Copies -> Content]] /\ img' # img
      BY <1>0, <1>3, <2>2 DEF TypeOK
    <3>2. WriteStart \/ WriteEnd \/ Rewrite \/ NewPackage
      BY <3>1 DEF Next, Call, Fault, NextLun, Return, CheckStage, SetBootLun, ChainRefused,
                  NoBackupFound, WriteHeader, WriteArray, At, IoError, PowerLoss, Request,
                  vars, caller
    <3>3. ~ NewPackage
      BY <1>0, <1>3, <2>2 DEF NewPackage
    <3>4. /\ ready \in {UPDATE_MAIN, UPDATE_BACKUP} /\ UNCHANGED flash
          /\ \E i \in Protected, v \in Content :
                 img' = [img EXCEPT ![i][StageCopy(ready)] = v]
      BY <3>2, <3>3 DEF WriteStart, WriteEnd, Rewrite, WriteCopy, Content
    <3>5. StageCopy(ready) = "bak"
      <4>1. PICK i \in Protected, v \in Content :
                img' = [img EXCEPT ![i][StageCopy(ready)] = v]
        BY <3>4
      <4>2. StageCopy(ready) # "bak" => img'[Xbl]["bak"] = img[Xbl]["bak"]
        BY <1>0, <3>1, <4>1
      <4> QED
        BY <1>3, <2>2, <4>2
    <3>6. ready = UPDATE_BACKUP
      BY <3>4, <3>5 DEF StageCopy
    <3>7. \A d \in Luns : BadSignature(d, "sec")
      BY <1>0, <3>6 DEF DoneInv, Prepared, NoStage, UPDATE_BACKUP
    <3> QED
      BY <3>4, <3>7 DEF flash, BadSignature, GptState
  <2> QED
    BY <2>1, <2>2
<1> QED
  BY <1>1, <1>2, <1>3 DEF XblInv

LEMMA XblInit == Init => XblInv
<1> SUFFICES ASSUME Init, UsesBootLun PROVE XblInv
  BY DEF XblInv
<1>1. Xbl \in Protected /\ "bak" \in Copies
  BY DEF Protected, Copies
<1> QED
  BY <1>1 DEF Init, XblInv

\* The backup xbl is never half written while LUN B boots, whatever stages the
\* caller asks for, on any number of LUNs in different stages.
THEOREM KeepsXblBackupSafe == Spec => []XblBackupSafe
<1>1. ASSUME XblInv PROVE XblBackupSafe
  <2> SUFFICES ASSUME UsesBootLun, bootLun = "B" PROVE img[Xbl]["bak"] # "torn"
    BY DEF XblBackupSafe
  <2> QED
    BY <1>1 DEF XblInv
<1>2. IInv /\ XblInv /\ [Next]_vars => XblInv'
  BY XblStep
<1> QED
  BY <1>1, <1>2, XblInit, Invariance, PTL DEF Spec
=============================================================================
