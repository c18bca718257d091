--------------------------- MODULE ServicesProofs ---------------------------
(***************************************************************************)
(* The safety properties of the rail data provider, for any devices,       *)
(* rails, threads, rates, word size and queue, and of the dump of the      *)
(* board with its modem thread, for any logs and limits.                   *)
(***************************************************************************)
EXTENDS MCServices, FiniteSetTheorems, TLAPS

-----------------------------------------------------------------------------
(* RailStream: RailIInv is inductive.                                       *)

Discovering == {"off", "find", "rails"}
Holding     == {"pass", "answer", "write"}

\* A rail that was found is on a line that was read.
FromLine(r) ==
    \E j \in 1 .. Len(devicePaths) : \E k \in DOMAIN RailsOf[devicePaths[j]] :
        /\ r = RailsOf[devicePaths[j]][k]
        /\ j < at \/ (j = at /\ k < line)

\* No monitor is found twice, and nothing changes after the discovery.
PathsInv ==
    /\ \A j, k \in 1 .. Len(devicePaths) : devicePaths[j] = devicePaths[k] => j = k
    /\ pc[Binder] \in {"off", "find"} =>
          /\ at = 1 /\ line = 1 /\ numRails = 0 /\ DOMAIN railsInfo = {}
          /\ \A j \in 1 .. Len(devicePaths) : devicePaths[j] \notin entries
    /\ hwEnabled => devicePaths # <<>> /\ pc[Binder] \notin Discovering
    /\ \A r \in DOMAIN railsInfo : FromLine(r)

\* The rails found so far have the indices below numRails.
NamedInv ==
    /\ \A r \in DOMAIN railsInfo : railsInfo[r] \in 0 .. numRails - 1
    /\ \A r, s \in DOMAIN railsInfo : railsInfo[r] = railsInfo[s] => r = s
    /\ \A i \in 0 .. numRails - 1 : \E r \in DOMAIN railsInfo : railsInfo[r] = i

\* Whoever makes a pass holds the mutex until it has used what was read.
LockInv ==
    \A a \in Actors :
        /\ pc[a] \in Holding <=> owner = a
        /\ pc[a] \in Holding => hwEnabled

\* What the first n files of a pass contain.
ReadOf(n) ==
    {railsInfo[r] : r \in {s \in DOMAIN railsInfo :
                              \E j \in 1 .. n : s \in RailNames(devicePaths[j])}}
PassInv ==
    \A a \in Actors :
        /\ pc[a] = "pass" =>
              /\ pos[a] \in 0 .. Len(devicePaths) - 1
              /\ blank \/ fresh = ReadOf(pos[a])
        /\ pc[a] \in {"answer", "write"} => blank \/ fresh = ReadOf(Len(devicePaths))

CallInv ==
    /\ pc[Binder] \in {"pass", "answer"} => req.op = "energy"
    /\ pc[Binder] \in Discovering => req.op = "info"

RailIInv == /\ RailTypeOK
            /\ PathsInv /\ NamedInv
            /\ LockInv /\ PassInv
            /\ OneFeeder /\ CallInv /\ TellsAsAsked

-----------------------------------------------------------------------------
(* The arithmetic of numSamples.                                            *)

\* A quotient and a remainder of naturals are naturals.
LEMMA DivNat == \A a \in Nat, b \in Nat \ {0} : /\ a \div b \in Nat
                                                /\ b * (a \div b) <= a
                                                /\ a < b * (a \div b) + b
  OBVIOUS

LEMMA ModNat == \A a \in Nat, b \in Nat \ {0} : /\ a % b \in Nat
                                                /\ a % b < b
                                                /\ a % b <= a
                                                /\ a < b => a % b = a
  OBVIOUS

LEMMA ProductNat == \A a, b \in Nat : a * b \in Nat
  OBVIOUS

\* The number of samples is what the time has room for, unless the product
\* does not fit a word.
LEMMA NumSamplesIs ==
    ASSUME NEW timeMs \in Nat, NEW rate \in Nat
    PROVE  LET product == timeMs * Least(rate, MaxRate)
               n       == NumSamples(timeMs, rate)
           IN  /\ product \in Nat /\ n \in Nat
               /\ product < Word => /\ n * SecondMs <= product
                                    /\ product < (n + 1) * SecondMs
               /\ ~ product < Word => n * SecondMs < product
<1> DEFINE product == timeMs * Least(rate, MaxRate)
           rest    == product % Word
           n       == rest \div SecondMs
<1>1. product \in Nat
  BY RailAssumption, ProductNat DEF Least
<1>2. rest \in Nat /\ rest < Word /\ (product < Word => rest = product)
  <2> HIDE DEF product
  <2> QED
    BY <1>1, ModNat, RailAssumption
<1>3. n \in Nat /\ SecondMs * n <= rest /\ rest < SecondMs * n + SecondMs
  <2> HIDE DEF rest
  <2> QED
    BY <1>2, DivNat, RailAssumption
<1>4. n * SecondMs <= rest /\ rest < (n + 1) * SecondMs
  <2> HIDE DEF rest, n
  <2>1. n * SecondMs = SecondMs * n /\ (n + 1) * SecondMs = SecondMs * n + SecondMs
    BY <1>3, RailAssumption
  <2>2. SecondMs * n \in Nat /\ SecondMs \in Nat
    BY <1>3, ProductNat, RailAssumption
  <2> QED
    BY <1>2, <1>3, <2>1, <2>2
<1>5. Word \in Nat /\ n * SecondMs \in Nat /\ (n + 1) * SecondMs \in Nat
  <2> HIDE DEF n
  <2> QED
    BY <1>3, ProductNat, RailAssumption
<1>6. n = NumSamples(timeMs, rate)
  BY DEF NumSamples
<1> HIDE DEF product, rest, n
<1>7. /\ product < Word => n * SecondMs <= product /\ product < (n + 1) * SecondMs
      /\ ~ product < Word => n * SecondMs < product
  BY <1>1, <1>2, <1>4, <1>5
<1> QED
  BY <1>1, <1>3, <1>6, <1>7 DEF product

-----------------------------------------------------------------------------
(* Types.                                                                   *)

BinderLabels == {"off", "find", "rails", "idle", "call", "pass", "answer"}
ThreadLabels == {"none", "loop", "pass", "write", "sleep", "end"}
Labels       == BinderLabels \cup ThreadLabels

\* The type invariant in three parts.
PcOK ==
    /\ pc \in [Actors -> Labels]
    /\ pc[Binder] \in BinderLabels
    /\ \A t \in Threads : pc[t] \in ThreadLabels
FoundOK ==
    /\ entries \subseteq Devices /\ devicePaths \in Seq(Devices)
    /\ railsInfo \in [DOMAIN railsInfo -> Nat] /\ DOMAIN railsInfo \subseteq Names
    /\ at \in 1 .. Len(devicePaths) + 1 /\ line \in Nat \ {0}
    /\ numRails \in Nat /\ hwEnabled \in BOOLEAN
RestOK ==
    /\ owner \in Actors \cup {Nobody}
    /\ req \in Requests
    /\ status \in {"NONE", "SUCCESS", "NOT_SUPPORTED", "FILESYSTEM_ERROR",
                   "INVALID_INPUT", "INSUFFICIENT_RESOURCES"}
    /\ pos \in [Actors -> Nat] /\ fresh \subseteq Nat /\ blank \in BOOLEAN
    /\ fmq \in Threads \cup {Nobody} /\ queue \in 0 .. QueueSamples
    /\ told \in [Threads -> Nat] /\ count \in [Threads -> Nat]

LEMMA TypeParts == RailTypeOK <=> PcOK /\ FoundOK /\ RestOK
  BY DEF RailTypeOK, PcOK, FoundOK, RestOK, Labels, BinderLabels, ThreadLabels

LEMMA TypePartsNext == PcOK' /\ FoundOK' /\ RestOK' => RailTypeOK'
  BY DEF RailTypeOK, PcOK, FoundOK, RestOK, Labels, BinderLabels, ThreadLabels

-----------------------------------------------------------------------------
(* The initial states.                                                      *)

\* The service has not looked at any device before its constructor.
LEMMA RailInitInvariant == RailInit => RailIInv
<1> SUFFICES ASSUME RailInit PROVE RailIInv
  OBVIOUS
<1> USE RailAssumption DEF RailInit
<1>1. RailTypeOK
  <2>1. /\ pc \in [Actors -> {"off", "none"}] /\ pc[Binder] = "off"
        /\ \A t \in Threads : pc[t] = "none"
    BY DEF Actors
  <2>2. /\ devicePaths \in Seq(Devices) /\ Len(devicePaths) = 0
        /\ railsInfo \in [DOMAIN railsInfo -> Nat] /\ DOMAIN railsInfo = {}
    OBVIOUS
  <2>3. req \in Requests /\ queue \in 0 .. QueueSamples /\ pos \in [Actors -> Nat]
    BY DEF Requests
  <2>4. /\ entries \subseteq Devices /\ at = 1 /\ line = 1 /\ numRails = 0
        /\ hwEnabled = FALSE /\ owner = Nobody /\ status = "NONE" /\ fresh = {}
        /\ blank = FALSE /\ fmq = Nobody
        /\ told \in [Threads -> Nat] /\ count \in [Threads -> Nat]
    OBVIOUS
  <2>5. PcOK
    BY <2>1 DEF PcOK, Labels, BinderLabels, ThreadLabels
  <2>6. FoundOK
    <3> HIDE RailAssumption DEF RailInit
    <3>1. at \in 1 .. Len(devicePaths) + 1 /\ DOMAIN railsInfo \subseteq Names
      BY <2>2, <2>4
    <3>2. line \in Nat \ {0} /\ numRails \in Nat /\ entries \subseteq Devices
      BY <2>4
    <3>3. hwEnabled \in BOOLEAN
      BY <2>4
    <3> QED
      BY <2>2, <3>1, <3>2, <3>3 DEF FoundOK
  <2>7. RestOK
    BY <2>3, <2>4 DEF RestOK
  <2> QED
    BY <2>5, <2>6, <2>7, TypeParts
<1>2. PathsInv /\ NamedInv
  BY DEF PathsInv, NamedInv, Actors
<1>3. LockInv /\ PassInv /\ OneFeeder /\ CallInv /\ TellsAsAsked
  BY DEF LockInv, PassInv, OneFeeder, CallInv, TellsAsAsked, Holding, Discovering, Actors
<1> QED
  BY <1>1, <1>2, <1>3 DEF RailIInv

-----------------------------------------------------------------------------
(* Types are kept.                                                          *)

\* A step of one thread moves no other.
LEMMA GoesOn ==
    ASSUME PcOK, NEW a \in Actors, NEW l, Goes(a, l),
           a = Binder => l \in BinderLabels, a \in Threads => l \in ThreadLabels
    PROVE  PcOK' /\ pc'[a] = l /\ \A b \in Actors \ {a} : pc'[b] = pc[b]
  BY RailAssumption DEF Goes, PcOK, Labels, Actors

\* The constructor keeps the types.
LEMMA DiscoveryType ==
    ASSUME RailTypeOK,
           StartService \/ FindNode \/ FoundNodes \/ ParseLine \/ NextPath \/ ParsedRails
    PROVE  RailTypeOK'
<1>0. PcOK /\ FoundOK /\ RestOK /\ Binder \in Actors
  BY TypeParts DEF Actors
<1>1. CASE StartService
  <2>1. PcOK'
    BY <1>0, <1>1, GoesOn, RailAssumption DEF StartService, BinderLabels
  <2>2. FoundOK' /\ RestOK'
    BY <1>0, <1>1 DEF StartService, FoundOK, RestOK, found, pass, stream
  <2> QED
    BY <2>1, <2>2, TypePartsNext
<1>2. CASE FindNode
  <2>1. PcOK' /\ RestOK'
    BY <1>0, <1>2 DEF FindNode, PcOK, RestOK, pass, stream
  <2>2. FoundOK'
    BY <1>0, <1>2 DEF FindNode, FoundOK
  <2> QED
    BY <2>1, <2>2, TypePartsNext
<1>3. CASE FoundNodes
  <2>1. PcOK'
    BY <1>0, <1>3, GoesOn, RailAssumption DEF FoundNodes, BinderLabels
  <2>2. FoundOK' /\ RestOK'
    BY <1>0, <1>3 DEF FoundNodes, FoundOK, RestOK, pass, stream
  <2> QED
    BY <2>1, <2>2, TypePartsNext
<1>4. CASE ParseLine
  <2>1. PcOK' /\ RestOK'
    BY <1>0, <1>4 DEF ParseLine, PcOK, RestOK, pass, stream
  <2>2. Path \in Devices /\ RailsOf[Path] \in Seq(Names)
    BY <1>0, <1>4, RailAssumption DEF ParseLine, Path, FoundOK
  <2>3. RailsOf[Path][line] \in Names
    BY <1>0, <1>4, <2>2 DEF ParseLine, FoundOK
  <2>4. PICK ok \in BOOLEAN :
           /\ railsInfo' =
                 IF ok THEN [s \in DOMAIN railsInfo \cup {RailsOf[Path][line]} |->
                                IF s \in DOMAIN railsInfo THEN railsInfo[s] ELSE numRails]
                       ELSE railsInfo
           /\ numRails' = NextIndex(ok)
    BY <1>4 DEF ParseLine
  <2>5. numRails' \in Nat /\ numRails \in Nat
    BY <1>0, <2>4 DEF NextIndex, FoundOK
  <2>6. railsInfo' \in [DOMAIN railsInfo' -> Nat] /\ DOMAIN railsInfo' \subseteq Names
    BY <1>0, <2>3, <2>4, <2>5 DEF FoundOK
  <2>7. FoundOK'
    BY <1>0, <1>4, <2>5, <2>6 DEF ParseLine, FoundOK
  <2> QED
    BY <2>1, <2>7, TypePartsNext
<1>5. CASE NextPath
  <2>1. PcOK' /\ RestOK'
    BY <1>0, <1>5 DEF NextPath, PcOK, RestOK, pass, stream
  <2>2. at' \in 1 .. Len(devicePaths) + 1
    BY <1>0, <1>5 DEF NextPath, FoundOK
  <2>3. FoundOK'
    BY <1>0, <1>5, <2>2 DEF NextPath, FoundOK
  <2> QED
    BY <2>1, <2>3, TypePartsNext
<1>6. CASE ParsedRails
  <2>1. PcOK'
    BY <1>0, <1>6, GoesOn, RailAssumption DEF ParsedRails, BinderLabels
  <2>2. FoundOK' /\ RestOK'
    BY <1>0, <1>6 DEF ParsedRails, FoundOK, RestOK, pass, stream
  <2> QED
    BY <2>1, <2>2, TypePartsNext
<1> QED
  BY <1>1, <1>2, <1>3, <1>4, <1>5, <1>6

\* A step of a pass keeps the types.
LEMMA PassType ==
    ASSUME RailTypeOK, NEW a \in Actors, ParseNode(a) \/ ParseNodeFails(a)
    PROVE  RailTypeOK'
<1>0. PcOK /\ FoundOK /\ RestOK
  BY TypeParts
<1>1. CASE ParseNode(a)
  <2>1. PcOK' /\ owner' = owner /\ status' = status
    <3>1. CASE LastFile(a)
      <4>1. Goes(a, IF a = Binder THEN "answer" ELSE "write")
        BY <1>1, <3>1 DEF ParseNode, PassDone
      <4> QED
        BY <1>0, <1>1, <3>1, <4>1, GoesOn, RailAssumption
        DEF ParseNode, PassDone, BinderLabels, ThreadLabels
    <3>2. CASE ~ LastFile(a)
      BY <1>0, <1>1, <3>2 DEF ParseNode, PcOK
    <3> QED
      BY <3>1, <3>2
  <2>2. pos' \in [Actors -> Nat]
    BY <1>0, <1>1 DEF ParseNode, RestOK
  <2>3. fresh' \subseteq Nat /\ blank' \in BOOLEAN
    BY <1>0, <1>1 DEF ParseNode, RestOK, FoundOK
  <2>4. FoundOK' /\ RestOK'
    BY <1>0, <1>1, <2>1, <2>2, <2>3 DEF ParseNode, FoundOK, RestOK, found, stream
  <2> QED
    BY <2>1, <2>4, TypePartsNext
<1>2. CASE ParseNodeFails(a)
  <2>1. PcOK'
    BY <1>0, <1>2, GoesOn, RailAssumption
    DEF ParseNodeFails, PassFailed, Answers, BinderLabels, ThreadLabels
  <2>2. FoundOK' /\ RestOK'
    BY <1>0, <1>2 DEF ParseNodeFails, PassFailed, EndPass, Answers, FoundOK, RestOK,
                      found, stream
  <2> QED
    BY <2>1, <2>2, TypePartsNext
<1> QED
  BY <1>1, <1>2

\* The calls of the binder thread keep the types.
LEMMA CallType ==
    ASSUME RailTypeOK,
           \/ Call \/ GetRailInfo \/ EnergyNotSupported \/ GetEnergyData
           \/ AnswerEnergy \/ StreamRefused \/ StreamEnergyData
    PROVE  RailTypeOK'
<1>0. PcOK /\ FoundOK /\ RestOK /\ Binder \in Actors /\ Binder \notin Threads
  BY TypeParts, RailAssumption DEF Actors
<1>1. FoundOK'
  BY <1>0 DEF Call, GetRailInfo, EnergyNotSupported, GetEnergyData, AnswerEnergy,
              StreamRefused, StreamEnergyData, FoundOK, found
<1>2. CASE ~ StreamEnergyData
  <2>1. PcOK'
    <3>1. PICK l \in BinderLabels : Goes(Binder, l)
      BY <1>2 DEF Call, GetRailInfo, EnergyNotSupported, GetEnergyData, AnswerEnergy,
                  StreamRefused, Answers, BeginPass, BinderLabels
    <3> QED
      BY <1>0, <3>1, GoesOn
  <2>2. RestOK'
    <3>1. CASE Call
      BY <1>0, <3>1 DEF Call, RestOK, pass, stream
    <3>2. CASE GetRailInfo \/ EnergyNotSupported \/ StreamRefused
      BY <1>0, <3>2 DEF GetRailInfo, EnergyNotSupported, StreamRefused, Answers, RestOK,
                        pass, stream
    <3>3. CASE GetEnergyData
      BY <1>0, <3>3 DEF GetEnergyData, BeginPass, RestOK, stream
    <3>4. CASE AnswerEnergy
      BY <1>0, <3>4 DEF AnswerEnergy, Answers, EndPass, RestOK, stream
    <3> QED
      BY <1>2, <3>1, <3>2, <3>3, <3>4
  <2> QED
    BY <1>1, <2>1, <2>2, TypePartsNext
<1>3. CASE StreamEnergyData
  <2>1. req \in Requests /\ req.op = "stream"
    BY <1>0, <1>3 DEF StreamEnergyData, Calls, RestOK
  <2>2. req.timeMs \in Nat /\ req.rate \in Nat
    BY <2>1, RailAssumption DEF Requests
  <2>3. NumSamples(req.timeMs, req.rate) \in Nat
    BY <2>2, NumSamplesIs
  <2>4. PICK t \in Threads :
           /\ pc' = [pc EXCEPT ![t] = "loop", ![Binder] = "idle"]
           /\ fmq' = t
           /\ told' = [told EXCEPT ![t] = NumSamples(req.timeMs, req.rate)]
    BY <1>3 DEF StreamEnergyData
  <2>5. PcOK'
    BY <1>0, <2>4 DEF PcOK, Actors, Labels, BinderLabels, ThreadLabels
  <2>6. fmq' \in Threads /\ told' \in [Threads -> Nat]
    BY <1>0, <2>3, <2>4 DEF RestOK
  <2>7. RestOK'
    BY <1>0, <1>3, <2>6, RailAssumption DEF StreamEnergyData, RestOK, pass
  <2> QED
    BY <1>1, <2>5, <2>7, TypePartsNext
<1> QED
  BY <1>2, <1>3

\* A poll thread and the client keep the types.
LEMMA PollType ==
    ASSUME RailTypeOK, NEW t \in Threads,
           \/ BeginSample(t) \/ SampleNotSupported(t) \/ Write(t) \/ WriteTimesOut(t)
           \/ Sleep(t) \/ LeaveLoop(t) \/ Release(t)
    PROVE  RailTypeOK'
<1>0. PcOK /\ FoundOK /\ RestOK /\ t \in Actors /\ Binder \notin Threads
  BY TypeParts, RailAssumption DEF Actors
<1>1. FoundOK'
  BY <1>0 DEF BeginSample, SampleNotSupported, Write, WriteTimesOut, Sleep, LeaveLoop,
              Release, FoundOK, found
<1>2. PcOK'
  <2>1. PICK l \in ThreadLabels : Goes(t, l)
    BY DEF BeginSample, SampleNotSupported, Write, WriteTimesOut, Sleep, LeaveLoop,
           Release, Sampled, BeginPass, ThreadLabels
  <2> QED
    BY <1>0, <2>1, GoesOn
<1>3. CASE BeginSample(t) \/ SampleNotSupported(t) \/ Sleep(t) \/ LeaveLoop(t)
  <2>1. RestOK'
    <3>1. CASE BeginSample(t)
      BY <1>0, <3>1 DEF BeginSample, BeginPass, Takes, RestOK, stream
    <3>2. CASE SampleNotSupported(t) \/ Sleep(t) \/ LeaveLoop(t)
      BY <1>0, <3>2 DEF SampleNotSupported, Sleep, LeaveLoop, RestOK, pass, stream
    <3> QED
      BY <1>3, <3>1, <3>2
  <2> QED
    BY <1>1, <1>2, <2>1, TypePartsNext
<1>4. CASE Write(t) \/ WriteTimesOut(t)
  <2>1. count' \in [Threads -> Nat] /\ pos' \in [Actors -> Nat]
    BY <1>0, <1>4 DEF Write, WriteTimesOut, Sampled, EndPass, CountAfter, RestOK
  <2>2. queue' \in 0 .. QueueSamples
    <3>1. queue \in 0 .. QueueSamples /\ QueueSamples \in Nat
      BY <1>0, RailAssumption DEF RestOK
    <3>2. queue' = queue \/ (queue' = queue + 1 /\ queue < QueueSamples)
      BY <1>4 DEF Write, WriteTimesOut, HasRoom
    <3> QED
      BY <3>1, <3>2
  <2>3. RestOK'
    BY <1>0, <1>4, <2>1, <2>2 DEF Write, WriteTimesOut, Sampled, EndPass, RestOK
  <2> QED
    BY <1>1, <1>2, <2>3, TypePartsNext
<1>5. CASE Release(t)
  BY <1>0, <1>1, <1>2, <1>5, TypePartsNext DEF Release, Released, RestOK, pass
<1>6. ASSUME RestOK' PROVE RailTypeOK'
  BY <1>1, <1>2, <1>6, TypePartsNext
<1> QED
  BY <1>3, <1>4, <1>5, <1>6

LEMMA RailTypeStep == RailTypeOK /\ [RailNext]_railVars => RailTypeOK'
<1> SUFFICES ASSUME RailTypeOK, [RailNext]_railVars PROVE RailTypeOK'
  OBVIOUS
<1>0. PcOK /\ FoundOK /\ RestOK
  BY TypeParts
<1>1. CASE ReadSample
  <2>1. PcOK' /\ FoundOK'
    BY <1>0, <1>1 DEF ReadSample, PcOK, FoundOK, found
  <2>2. RestOK'
    BY <1>0, <1>1, RailAssumption DEF ReadSample, RestOK, pass
  <2> QED
    BY <2>1, <2>2, TypePartsNext
<1>2. CASE UNCHANGED railVars
  BY <1>0, <1>2, TypePartsNext DEF railVars, found, pass, stream, PcOK, FoundOK, RestOK
<1> QED
  BY <1>1, <1>2, DiscoveryType, PassType, CallType, PollType
  DEF RailNext, BinderStep, PollStep, Actors

-----------------------------------------------------------------------------
(* What was found.                                                          *)

Discovers == FindNode \/ FoundNodes \/ ParseLine \/ NextPath \/ ParsedRails

\* Only the constructor changes what was found, and only it is in its labels.
LEMMA OtherSteps ==
    ASSUME RailTypeOK, [RailNext]_railVars, ~ Discovers
    PROVE  /\ UNCHANGED found
           /\ \/ pc'[Binder] = pc[Binder]
              \/ pc[Binder] = "off" /\ pc'[Binder] = "find"
              \/ pc[Binder] \notin Discovering /\ pc'[Binder] \notin Discovering
<1>0. PcOK /\ Binder \in Actors /\ Binder \notin Threads /\ Threads \subseteq Actors
  BY TypeParts, RailAssumption DEF Actors
<1>1. CASE StartService
  BY <1>0, <1>1, GoesOn DEF StartService, BinderLabels
<1>2. CASE Call \/ GetRailInfo \/ EnergyNotSupported \/ StreamRefused
  <2>1. PICK l \in {"call", "idle"} : Goes(Binder, l)
    BY <1>2 DEF Call, GetRailInfo, EnergyNotSupported, StreamRefused, Answers
  <2>2. pc'[Binder] = l
    BY <1>0, <2>1, GoesOn DEF BinderLabels
  <2>3. pc[Binder] \in {"idle", "call"} /\ UNCHANGED found
    BY <1>2 DEF Call, GetRailInfo, EnergyNotSupported, StreamRefused, Calls
  <2> QED
    BY <2>2, <2>3 DEF Discovering
<1>3. CASE GetEnergyData \/ AnswerEnergy
  <2>1. PICK l \in {"pass", "idle"} : Goes(Binder, l)
    BY <1>3 DEF GetEnergyData, AnswerEnergy, Answers, BeginPass
  <2>2. pc'[Binder] = l
    BY <1>0, <2>1, GoesOn DEF BinderLabels
  <2>3. pc[Binder] \in {"answer", "call"} /\ UNCHANGED found
    BY <1>3 DEF GetEnergyData, AnswerEnergy, Calls
  <2> QED
    BY <2>2, <2>3 DEF Discovering
<1>4. CASE StreamEnergyData
  <2>1. pc'[Binder] = "idle" /\ pc[Binder] = "call" /\ UNCHANGED found
    BY <1>0, <1>4 DEF StreamEnergyData, Calls, PcOK
  <2> QED
    BY <2>1 DEF Discovering
<1>5. CASE ParseNode(Binder) \/ ParseNodeFails(Binder)
  <2>1. \/ pc' = pc
        \/ Goes(Binder, "answer") \/ Goes(Binder, "idle")
    BY <1>0, <1>5 DEF ParseNode, PassDone, ParseNodeFails, PassFailed, Answers
  <2>2. pc'[Binder] \in {"pass", "answer", "idle"}
    BY <1>0, <1>5, <2>1, GoesOn DEF ParseNode, ParseNodeFails, BinderLabels
  <2>3. pc[Binder] = "pass" /\ UNCHANGED found
    BY <1>5 DEF ParseNode, ParseNodeFails
  <2> QED
    BY <2>2, <2>3 DEF Discovering
<1>6. CASE ReadSample \/ UNCHANGED railVars
  BY <1>6 DEF ReadSample, railVars
<1>7. ASSUME NEW t \in Threads, PollStep(t)
      PROVE  UNCHANGED found /\ pc'[Binder] = pc[Binder]
  <2>1. pc' = pc \/ \E l \in ThreadLabels : Goes(t, l)
    BY <1>0, <1>7 DEF PollStep, BeginSample, SampleNotSupported, ParseNode, ParseNodeFails,
       Write, WriteTimesOut, Sleep, LeaveLoop, Release, Sampled, BeginPass, PassDone,
       PassFailed, ThreadLabels
  <2>2. UNCHANGED found
    BY <1>7 DEF PollStep, BeginSample, SampleNotSupported, ParseNode, ParseNodeFails,
       Write, WriteTimesOut, Sleep, LeaveLoop, Release
  <2> QED
    BY <1>0, <2>1, <2>2, GoesOn
<1> QED
  BY <1>1, <1>2, <1>3, <1>4, <1>5, <1>6, <1>7 DEF RailNext, BinderStep, Discovers

LEMMA FoundStep ==
    ASSUME RailTypeOK, PathsInv, NamedInv, [RailNext]_railVars
    PROVE  PathsInv' /\ NamedInv'
<1>0. PcOK /\ FoundOK /\ Binder \in Actors /\ Binder \notin Threads
  BY TypeParts, RailAssumption DEF Actors
<1>1. CASE ~ Discovers
  BY <1>1, OtherSteps DEF PathsInv, NamedInv, FromLine, found, Discovering
<1>2. CASE FindNode
  <2>1. PICK d \in entries : /\ entries' = entries \ {d}
                             /\ devicePaths' \in {devicePaths, Append(devicePaths, d)}
    BY <1>2 DEF FindNode
  <2>2. /\ pc' = pc /\ pc[Binder] = "find"
        /\ UNCHANGED <<railsInfo, at, line, numRails, hwEnabled>>
    BY <1>2 DEF FindNode
  <2>3. /\ at = 1 /\ line = 1 /\ numRails = 0 /\ DOMAIN railsInfo = {} /\ ~ hwEnabled
        /\ \A j \in 1 .. Len(devicePaths) : devicePaths[j] \notin entries
    BY <2>2 DEF PathsInv, Discovering
  <2>4. d \in Devices /\ devicePaths \in Seq(Devices)
    BY <1>0, <2>1 DEF FoundOK
  <2>5. /\ \A j, k \in 1 .. Len(devicePaths') : devicePaths'[j] = devicePaths'[k] => j = k
        /\ \A j \in 1 .. Len(devicePaths') : devicePaths'[j] \notin entries'
    <3>1. CASE devicePaths' = devicePaths
      BY <2>1, <2>3, <3>1 DEF PathsInv
    <3>2. CASE devicePaths' = Append(devicePaths, d)
      <4>1. /\ Len(devicePaths') = Len(devicePaths) + 1 /\ Len(devicePaths) \in Nat
            /\ devicePaths'[Len(devicePaths) + 1] = d
            /\ \A j \in 1 .. Len(devicePaths) : devicePaths'[j] = devicePaths[j]
        BY <2>4, <3>2
      <4>2. \A j \in 1 .. Len(devicePaths') :
               j \in 1 .. Len(devicePaths) \/ j = Len(devicePaths) + 1
        BY <4>1
      <4>3. \A j, k \in 1 .. Len(devicePaths) : devicePaths[j] = devicePaths[k] => j = k
        BY DEF PathsInv
      <4> QED
        BY <2>1, <2>3, <4>1, <4>2, <4>3
    <3> QED
      BY <2>1, <3>1, <3>2
  <2> QED
    BY <2>2, <2>3, <2>5 DEF PathsInv, NamedInv, Discovering
<1>3. CASE FoundNodes
  <2>1. pc'[Binder] = "rails" /\ pc[Binder] = "find"
    BY <1>0, <1>3, GoesOn DEF FoundNodes, BinderLabels
  <2> QED
    BY <1>3, <2>1 DEF FoundNodes, PathsInv, NamedInv, FromLine, Discovering
<1>4. CASE ParseLine
  <2>0. PICK r : r = RailsOf[Path][line]
    OBVIOUS
  <2>1. PICK ok \in BOOLEAN :
           /\ railsInfo' = IF ok THEN [s \in DOMAIN railsInfo \cup {r} |->
                                         IF s \in DOMAIN railsInfo THEN railsInfo[s]
                                                                   ELSE numRails]
                                 ELSE railsInfo
           /\ numRails' = NextIndex(ok)
    BY <1>4, <2>0 DEF ParseLine
  <2>2. /\ pc' = pc /\ pc[Binder] = "rails" /\ line' = line + 1
        /\ UNCHANGED <<devicePaths, at, hwEnabled>>
    BY <1>4 DEF ParseLine
  <2>3. /\ at \in 1 .. Len(devicePaths) /\ line \in DOMAIN RailsOf[Path]
        /\ Path = devicePaths[at] /\ Path \in Devices /\ line \in Nat \ {0}
        /\ \A j \in 1 .. Len(devicePaths) : devicePaths[j] \in Devices
    <3>1. at \in 1 .. Len(devicePaths) /\ Path = devicePaths[at] /\ line \in Nat \ {0}
      BY <1>0, <1>4 DEF ParseLine, FoundOK, Path
    <3>2. \A j \in 1 .. Len(devicePaths) : devicePaths[j] \in Devices
      BY <1>0 DEF FoundOK
    <3>3. RailsOf[Path] \in Seq(Names) /\ line <= Len(RailsOf[Path])
      BY <1>4, <3>1, <3>2, RailAssumption DEF ParseLine
    <3> QED
      BY <3>1, <3>2, <3>3
  <2>4. r \notin DOMAIN railsInfo
    <3> SUFFICES ASSUME r \in DOMAIN railsInfo PROVE FALSE
      OBVIOUS
    <3>0. PICK j \in 1 .. Len(devicePaths) :
             \E k \in DOMAIN RailsOf[devicePaths[j]] :
                 r = RailsOf[devicePaths[j]][k] /\ (j < at \/ (j = at /\ k < line))
      BY DEF PathsInv, FromLine
    <3>1. PICK k \in DOMAIN RailsOf[devicePaths[j]] :
             r = RailsOf[devicePaths[j]][k] /\ (j < at \/ (j = at /\ k < line))
      BY <3>0
    <3>2. devicePaths[j] = Path /\ k = line
      BY <2>0, <2>3, <3>1, RailAssumption
    <3>3. j = at
      BY <2>3, <3>2 DEF PathsInv
    <3> QED
      BY <2>3, <3>1, <3>2, <3>3
  <2>5. \A s \in DOMAIN railsInfo : FromLine(s)'
    <3> SUFFICES ASSUME NEW s \in DOMAIN railsInfo PROVE FromLine(s)'
      OBVIOUS
    <3>0. PICK j \in 1 .. Len(devicePaths) :
             \E k \in DOMAIN RailsOf[devicePaths[j]] :
                 s = RailsOf[devicePaths[j]][k] /\ (j < at \/ (j = at /\ k < line))
      BY DEF PathsInv, FromLine
    <3>1. PICK k \in DOMAIN RailsOf[devicePaths[j]] :
             s = RailsOf[devicePaths[j]][k] /\ (j < at \/ (j = at /\ k < line))
      BY <3>0
    <3>2. k \in Nat
      <4>1. RailsOf[devicePaths[j]] \in Seq(Names)
        BY <2>3, <3>1, RailAssumption
      <4> QED
        BY <3>1, <4>1
    <3>3. j < at \/ (j = at /\ k < line + 1)
      BY <2>3, <3>1, <3>2
    <3> QED
      BY <2>2, <3>1, <3>3 DEF FromLine
  <2>6. FromLine(r)'
    <3>1. line < line + 1
      BY <2>3
    <3>2. r = RailsOf[devicePaths[at]][line]
      BY <2>0, <2>3
    <3> QED
      BY <2>2, <2>3, <3>1, <3>2 DEF FromLine
  <2>7. \A s \in DOMAIN railsInfo' : FromLine(s)'
    BY <2>1, <2>5, <2>6
  <2>8. PathsInv'
    BY <2>2, <2>7 DEF PathsInv, Discovering
  <2>9. NamedInv'
    <3>1. CASE ~ ok
      BY <2>1, <3>1 DEF NamedInv, NextIndex
    <3>2. CASE ok
      <4>1. /\ numRails \in Nat /\ numRails' = numRails + 1
            /\ DOMAIN railsInfo' = DOMAIN railsInfo \cup {r}
            /\ \A s \in DOMAIN railsInfo : railsInfo'[s] = railsInfo[s]
            /\ railsInfo'[r] = numRails
        BY <1>0, <2>1, <2>4, <3>2 DEF FoundOK, NextIndex
      <4>2. /\ \A s \in DOMAIN railsInfo : railsInfo[s] \in 0 .. numRails - 1
            /\ \A s, u \in DOMAIN railsInfo : railsInfo[s] = railsInfo[u] => s = u
            /\ \A i \in 0 .. numRails - 1 : \E s \in DOMAIN railsInfo : railsInfo[s] = i
        BY DEF NamedInv
      <4>3. \A s \in DOMAIN railsInfo' : railsInfo'[s] \in 0 .. numRails' - 1
        BY <4>1, <4>2
      <4>4. \A s, u \in DOMAIN railsInfo' : railsInfo'[s] = railsInfo'[u] => s = u
        BY <4>1, <4>2
      <4>5. \A i \in 0 .. numRails' - 1 : i \in 0 .. numRails - 1 \/ i = numRails
        BY <4>1
      <4>6. \A i \in 0 .. numRails' - 1 : \E s \in DOMAIN railsInfo' : railsInfo'[s] = i
        BY <4>1, <4>2, <4>5
      <4> QED
        BY <4>3, <4>4, <4>6 DEF NamedInv
    <3> QED
      BY <3>1, <3>2
  <2> QED
    BY <2>8, <2>9
<1>5. CASE NextPath
  <2>1. /\ pc' = pc /\ pc[Binder] = "rails" /\ at' = at + 1 /\ at \in Nat
        /\ UNCHANGED <<devicePaths, railsInfo, numRails, hwEnabled>>
    BY <1>0, <1>5 DEF NextPath, FoundOK
  <2>2. \A s \in DOMAIN railsInfo : FromLine(s)'
    <3> SUFFICES ASSUME NEW s \in DOMAIN railsInfo PROVE FromLine(s)'
      OBVIOUS
    <3>0. PICK j \in 1 .. Len(devicePaths) :
             \E k \in DOMAIN RailsOf[devicePaths[j]] :
                 s = RailsOf[devicePaths[j]][k] /\ (j < at \/ (j = at /\ k < line))
      BY DEF PathsInv, FromLine
    <3>1. PICK k \in DOMAIN RailsOf[devicePaths[j]] :
             s = RailsOf[devicePaths[j]][k] /\ (j < at \/ (j = at /\ k < line))
      BY <3>0
    <3>2. j < at + 1
      BY <2>1, <3>1
    <3> QED
      BY <2>1, <3>1, <3>2 DEF FromLine
  <2> QED
    BY <2>1, <2>2 DEF PathsInv, NamedInv, Discovering
<1>6. CASE ParsedRails
  <2>1. pc'[Binder] = "idle"
    BY <1>0, <1>6, GoesOn DEF ParsedRails, BinderLabels
  <2> QED
    BY <1>6, <2>1 DEF ParsedRails, PathsInv, NamedInv, FromLine, Discovering
<1> QED
  BY <1>1, <1>2, <1>3, <1>4, <1>5, <1>6 DEF Discovers

-----------------------------------------------------------------------------
(* The mutex and the passes.                                                *)

\* A step that moves one thread between two labels that both need the mutex,
\* or neither, keeps LockInv if the mutex and hwEnabled stay; so does one that
\* takes it, and one that releases it.
LEMMA LockKept ==
    ASSUME PcOK, LockInv, NEW a \in Actors, NEW l, Goes(a, l),
           a = Binder => l \in BinderLabels, a \in Threads => l \in ThreadLabels,
           hwEnabled' = hwEnabled \/ owner = Nobody,
           \/ owner' = owner /\ (l \in Holding <=> pc[a] \in Holding)
           \/ owner = Nobody /\ owner' = a /\ l \in Holding /\ hwEnabled /\ hwEnabled'
           \/ pc[a] \in Holding /\ owner' = Nobody /\ l \notin Holding
    PROVE  LockInv'
<1>0. pc'[a] = l /\ \A b \in Actors \ {a} : pc'[b] = pc[b]
  BY GoesOn
<1>1. Nobody \notin Actors
  BY RailAssumption
<1>2. CASE owner' = owner /\ (l \in Holding <=> pc[a] \in Holding)
  <2>1. \A b \in Actors : pc'[b] \in Holding <=> owner' = b
    BY <1>0, <1>2 DEF LockInv
  <2>2. \A b \in Actors : pc'[b] \in Holding => hwEnabled'
    BY <1>1, <1>2, <2>1 DEF LockInv
  <2> QED
    BY <2>1, <2>2 DEF LockInv
<1>3. CASE owner = Nobody /\ owner' = a /\ l \in Holding /\ hwEnabled /\ hwEnabled'
  BY <1>0, <1>1, <1>3 DEF LockInv
<1>4. CASE pc[a] \in Holding /\ owner' = Nobody /\ l \notin Holding
  BY <1>0, <1>1, <1>4 DEF LockInv
<1> QED
  BY <1>2, <1>3, <1>4

LEMMA LockStep ==
    ASSUME RailIInv, [RailNext]_railVars
    PROVE  LockInv'
<1>0. /\ PcOK /\ LockInv /\ PathsInv /\ Binder \in Actors /\ Binder \notin Threads
      /\ Threads \subseteq Actors /\ Nobody \notin Actors
  BY TypeParts, RailAssumption DEF RailIInv, Actors
<1>1. CASE StartService \/ FoundNodes
  <2>1. PICK l \in {"find", "rails"} : Goes(Binder, l)
    BY <1>1 DEF StartService, FoundNodes
  <2>2. pc[Binder] \notin Holding /\ l \notin Holding /\ l \in BinderLabels
    BY <1>1, <2>1 DEF StartService, FoundNodes, Holding, BinderLabels
  <2>3. owner' = owner /\ hwEnabled' = hwEnabled
    BY <1>1 DEF StartService, FoundNodes, found
  <2> QED
    BY <1>0, <2>1, <2>2, <2>3, LockKept
<1>2. CASE FindNode \/ ParseLine \/ NextPath \/ ReadSample \/ UNCHANGED railVars
  BY <1>0, <1>2 DEF FindNode, ParseLine, NextPath, ReadSample, railVars, found, LockInv
<1>3. CASE ParsedRails
  <2>1. Goes(Binder, "idle") /\ pc[Binder] = "rails" /\ owner' = owner
    BY <1>3 DEF ParsedRails
  <2>2. ~ hwEnabled
    BY <1>0, <2>1 DEF PathsInv, Discovering
  <2>3. \A b \in Actors : pc[b] \notin Holding /\ owner # b
    BY <1>0, <2>2 DEF LockInv
  <2>4. \A b \in Actors : pc'[b] \notin Holding
    BY <1>0, <2>1, <2>3, GoesOn DEF Holding, BinderLabels
  <2> QED
    BY <2>1, <2>3, <2>4 DEF LockInv
<1>4. CASE Call \/ GetRailInfo \/ EnergyNotSupported \/ StreamRefused
  <2>1. PICK l \in {"call", "idle"} : Goes(Binder, l)
    BY <1>4 DEF Call, GetRailInfo, EnergyNotSupported, StreamRefused, Answers
  <2>2. pc[Binder] \notin Holding /\ l \notin Holding /\ l \in BinderLabels
    BY <1>4, <2>1 DEF Call, GetRailInfo, EnergyNotSupported, StreamRefused, Calls, Holding,
                      BinderLabels
  <2>3. owner' = owner /\ hwEnabled' = hwEnabled
    BY <1>4 DEF Call, GetRailInfo, EnergyNotSupported, StreamRefused, found
  <2> QED
    BY <1>0, <2>1, <2>2, <2>3, LockKept
<1>5. CASE GetEnergyData
  <2>1. /\ Goes(Binder, "pass") /\ owner = Nobody /\ owner' = Binder
        /\ hwEnabled /\ hwEnabled' = hwEnabled
    BY <1>5 DEF GetEnergyData, Calls, BeginPass, found
  <2> QED
    BY <1>0, <2>1, LockKept DEF Holding, BinderLabels
<1>6. CASE AnswerEnergy
  <2>1. /\ Goes(Binder, "idle") /\ pc[Binder] = "answer" /\ owner' = Nobody
        /\ hwEnabled' = hwEnabled
    BY <1>6 DEF AnswerEnergy, Answers, EndPass, found
  <2> QED
    BY <1>0, <2>1, LockKept DEF Holding, BinderLabels
<1>7. CASE StreamEnergyData
  <2>1. PICK t \in Threads :
           pc[t] = "none" /\ pc' = [pc EXCEPT ![t] = "loop", ![Binder] = "idle"]
    BY <1>7 DEF StreamEnergyData
  <2>2. /\ pc[Binder] = "call" /\ owner' = owner /\ hwEnabled' = hwEnabled
    BY <1>7 DEF StreamEnergyData, Calls, found
  <2>3. \A b \in Actors : pc'[b] \in Holding <=> pc[b] \in Holding
    BY <1>0, <2>1, <2>2 DEF PcOK, Holding
  <2> QED
    BY <1>0, <2>2, <2>3 DEF LockInv
<1>8. ASSUME NEW a \in Actors, ParseNode(a) PROVE LockInv'
  <2>1. pc[a] = "pass" /\ hwEnabled' = hwEnabled
    BY <1>8 DEF ParseNode, found
  <2>2. CASE LastFile(a)
    <3>1. owner' = owner /\ Goes(a, IF a = Binder THEN "answer" ELSE "write")
      BY <1>8, <2>2 DEF ParseNode, PassDone
    <3> QED
      BY <1>0, <2>1, <3>1, LockKept DEF Holding, BinderLabels, ThreadLabels
  <2>3. CASE ~ LastFile(a)
    BY <1>0, <1>8, <2>1, <2>3 DEF ParseNode, LockInv
  <2> QED
    BY <2>2, <2>3
<1>9. ASSUME NEW a \in Actors, ParseNodeFails(a) PROVE LockInv'
  <2>1. /\ pc[a] = "pass" /\ hwEnabled' = hwEnabled /\ owner' = Nobody
        /\ (a = Binder /\ Goes(a, "idle")) \/ (a \in Threads /\ Goes(a, "end"))
    BY <1>9 DEF ParseNodeFails, found, PassFailed, Answers, EndPass
  <2> QED
    BY <1>0, <2>1, LockKept DEF Holding, BinderLabels, ThreadLabels
<1>10. ASSUME NEW t \in Threads, BeginSample(t) PROVE LockInv'
  <2>1. /\ Goes(t, "pass") /\ owner = Nobody /\ owner' = t
        /\ hwEnabled /\ hwEnabled' = hwEnabled
    BY <1>10 DEF BeginSample, Takes, BeginPass, found
  <2> QED
    BY <1>0, <2>1, LockKept DEF Holding, ThreadLabels
<1>11. ASSUME NEW t \in Threads, Write(t) \/ WriteTimesOut(t) PROVE LockInv'
  <2>1. /\ Goes(t, "sleep") /\ pc[t] = "write" /\ owner' = Nobody
        /\ hwEnabled' = hwEnabled
    BY <1>11 DEF Write, WriteTimesOut, Sampled, EndPass, found
  <2> QED
    BY <1>0, <2>1, LockKept DEF Holding, ThreadLabels
<1>12. ASSUME NEW t \in Threads,
              SampleNotSupported(t) \/ Sleep(t) \/ LeaveLoop(t) \/ Release(t)
       PROVE  LockInv'
  <2>1. PICK l \in {"loop", "end", "none"} : Goes(t, l)
    BY <1>12 DEF SampleNotSupported, Sleep, LeaveLoop, Release
  <2>2. pc[t] \notin Holding /\ l \notin Holding /\ l \in ThreadLabels
    BY <1>12, <2>1 DEF SampleNotSupported, Sleep, LeaveLoop, Release, Holding, ThreadLabels
  <2>3. owner' = owner /\ hwEnabled' = hwEnabled
    BY <1>12 DEF SampleNotSupported, Sleep, LeaveLoop, Release, found
  <2> QED
    BY <1>0, <2>1, <2>2, <2>3, LockKept
<1> QED
  BY <1>0, <1>1, <1>2, <1>3, <1>4, <1>5, <1>6, <1>7, <1>8, <1>9, <1>10, <1>11, <1>12
  DEF RailNext, BinderStep, PollStep

\* What a pass has read is what the files it is done with contain, whatever the
\* other threads do meanwhile.
LEMMA PassStep ==
    ASSUME RailIInv, [RailNext]_railVars, LockInv'
    PROVE  PassInv'
<1>0. /\ PcOK /\ FoundOK /\ RestOK /\ LockInv /\ PathsInv /\ PassInv
      /\ Binder \in Actors /\ Binder \notin Threads
      /\ Threads \subseteq Actors /\ Nobody \notin Actors
  BY TypeParts, RailAssumption DEF RailIInv, Actors
<1>1. ASSUME UNCHANGED <<found, pass>>,
             \A a \in Actors : pc'[a] \in Holding => pc'[a] = pc[a]
      PROVE  PassInv'
  BY <1>0, <1>1 DEF PassInv, ReadOf, found, pass, Holding
<1>2. CASE Discovers
  <2>1. ~ hwEnabled
    BY <1>0, <1>2 DEF Discovers, FindNode, FoundNodes, ParseLine, NextPath, ParsedRails,
                      PathsInv, Discovering
  <2>2. \A a \in Actors : pc[a] \notin Holding
    BY <1>0, <2>1 DEF LockInv
  <2>3. pc' = pc \/ Goes(Binder, "rails") \/ Goes(Binder, "idle")
    BY <1>2 DEF Discovers, FindNode, FoundNodes, ParseLine, NextPath, ParsedRails
  <2>4. \A a \in Actors : pc'[a] \notin Holding
    BY <1>0, <2>2, <2>3, GoesOn DEF Holding, BinderLabels
  <2> QED
    BY <2>4 DEF PassInv, Holding
<1>3. ASSUME NEW a \in Actors, BeginPass(a), UNCHANGED found, hwEnabled, owner' = a
      PROVE  PassInv'
  <2>1. pos'[a] = 0 /\ fresh' = {} /\ pc'[a] = "pass"
    BY <1>0, <1>3 DEF BeginPass, Goes, PcOK, RestOK
  <2>2. \A b \in Actors \ {a} : pc'[b] \notin Holding
    BY <1>3 DEF LockInv
  <2>3. devicePaths # <<>> /\ devicePaths \in Seq(Devices)
    BY <1>0, <1>3 DEF PathsInv, FoundOK
  <2>4. 0 \in 0 .. Len(devicePaths) - 1
    BY <2>3
  <2>5. ReadOf(0) = {}
    BY DEF ReadOf
  <2>6. ReadOf(0)' = {}
    BY DEF ReadOf
  <2>7. \A b \in Actors : pc'[b] = "pass" => b = a
    BY <2>2 DEF Holding
  <2>8. \A b \in Actors : pc'[b] \notin {"answer", "write"}
    BY <2>1, <2>2 DEF Holding
  <2>9. devicePaths' = devicePaths
    BY <1>3 DEF found
  <2>10. fresh' = ReadOf(pos[a])'
    BY <2>1, <2>6 DEF ReadOf
  <2> QED
    BY <2>1, <2>4, <2>7, <2>8, <2>9, <2>10 DEF PassInv
<1>4. ASSUME NEW a \in Actors, EndPass(a), pc[a] \in Holding
      PROVE  PassInv'
  <2>1. \A b \in Actors : pc'[b] \notin Holding
    BY <1>0, <1>4 DEF EndPass, LockInv
  <2> QED
    BY <2>1 DEF PassInv, Holding
<1>5. ASSUME NEW a \in Actors, ParseNode(a) PROVE PassInv'
  <2>1. /\ pc[a] = "pass" /\ owner = a /\ owner' = owner
        /\ UNCHANGED <<devicePaths, railsInfo>>
    BY <1>0, <1>5 DEF ParseNode, PassDone, LockInv, Holding, found
  <2>2. \A b \in Actors \ {a} : pc'[b] \notin Holding
    BY <2>1 DEF LockInv
  <2>3. /\ pos[a] \in 0 .. Len(devicePaths) - 1 /\ pos'[a] = pos[a] + 1
        /\ blank \/ fresh = ReadOf(pos[a])
    BY <1>0, <1>5, <2>1 DEF PassInv, ParseNode, RestOK
  <2>4. PICK n : n = pos[a] + 1
    OBVIOUS
  <2>5. n \in 1 .. Len(devicePaths) /\ pos[a] = n - 1 /\ pos'[a] = n
    <3>1. Len(devicePaths) \in Nat
      BY <1>0 DEF FoundOK
    <3> QED
      BY <2>3, <2>4, <3>1
  <2>6. ReadOf(n) = ReadOf(n - 1)
               \cup {railsInfo[r] : r \in RailNames(devicePaths[n]) \cap DOMAIN railsInfo}
    <3>1. \A j : j \in 1 .. n <=> j \in 1 .. n - 1 \/ j = n
      BY <2>5
    <3> QED
      BY <3>1 DEF ReadOf
  <2>7. blank' \/ fresh' = ReadOf(n)
    BY <1>5, <2>3, <2>4, <2>5, <2>6 DEF ParseNode
  <2>8. ReadOf(n)' = ReadOf(n)
    BY <2>1 DEF ReadOf
  <2>9. CASE LastFile(a)
    <3>1. n = Len(devicePaths)
      BY <2>4, <2>9 DEF LastFile
    <3>2. pc'[a] # "pass"
      BY <1>0, <1>5, <2>9 DEF ParseNode, PassDone, Goes, PcOK
    <3>3. blank' \/ fresh' = ReadOf(Len(devicePaths))'
      BY <2>1, <2>7, <3>1 DEF ReadOf
    <3> QED
      BY <2>2, <3>2, <3>3 DEF PassInv, Holding
  <2>10. CASE ~ LastFile(a)
    <3>1. n # Len(devicePaths) /\ pc' = pc
      BY <1>5, <2>4, <2>10 DEF LastFile, ParseNode
    <3>2. n \in 0 .. Len(devicePaths) - 1
      BY <2>5, <3>1
    <3>3. blank' \/ fresh' = ReadOf(pos[a])'
      BY <2>1, <2>5, <2>7 DEF ReadOf
    <3> QED
      BY <2>1, <2>2, <2>5, <3>1, <3>2, <3>3 DEF PassInv, Holding
  <2> QED
    BY <2>9, <2>10
<1>6. CASE StartService \/ Call \/ GetRailInfo \/ EnergyNotSupported \/ StreamRefused
  <2>1. PICK l \in {"find", "call", "idle"} : Goes(Binder, l)
    BY <1>6 DEF StartService, Call, GetRailInfo, EnergyNotSupported, StreamRefused, Answers
  <2>2. \A a \in Actors : pc'[a] \in Holding => pc'[a] = pc[a]
    BY <1>0, <2>1, GoesOn DEF BinderLabels, Holding
  <2>3. UNCHANGED <<found, pass>>
    BY <1>6 DEF StartService, Call, GetRailInfo, EnergyNotSupported, StreamRefused
  <2> QED
    BY <1>1, <2>2, <2>3
<1>7. CASE StreamEnergyData
  <2>1. \A a \in Actors : pc'[a] \in Holding => pc'[a] = pc[a]
    BY <1>0, <1>7 DEF StreamEnergyData, PcOK, Holding
  <2>2. UNCHANGED <<found, pass>>
    BY <1>7 DEF StreamEnergyData
  <2> QED
    BY <1>1, <2>1, <2>2
<1>8. CASE ReadSample \/ UNCHANGED railVars
  <2>1. UNCHANGED <<found, pass>> /\ pc' = pc
    BY <1>8 DEF ReadSample, railVars
  <2> QED
    BY <1>1, <2>1
<1>9. CASE GetEnergyData
  <2>1. BeginPass(Binder) /\ UNCHANGED found /\ hwEnabled /\ owner' = Binder
    BY <1>9 DEF GetEnergyData
  <2> QED
    BY <1>0, <1>3, <2>1
<1>10. CASE AnswerEnergy
  <2>1. EndPass(Binder) /\ pc[Binder] \in Holding
    BY <1>10 DEF AnswerEnergy, Holding
  <2> QED
    BY <1>0, <1>4, <2>1
<1>11. ASSUME NEW a \in Actors, ParseNodeFails(a) PROVE PassInv'
  <2>1. EndPass(a) /\ pc[a] \in Holding
    BY <1>11 DEF ParseNodeFails, Holding
  <2> QED
    BY <1>4, <2>1
<1>12. ASSUME NEW t \in Threads, BeginSample(t) PROVE PassInv'
  <2>1. BeginPass(t) /\ UNCHANGED found /\ hwEnabled /\ owner' = t
    BY <1>12 DEF BeginSample, Takes
  <2> QED
    BY <1>0, <1>3, <2>1
<1>13. ASSUME NEW t \in Threads, Write(t) \/ WriteTimesOut(t) PROVE PassInv'
  <2>1. EndPass(t) /\ pc[t] \in Holding
    BY <1>13 DEF Write, WriteTimesOut, Sampled, Holding
  <2> QED
    BY <1>0, <1>4, <2>1
<1>14. ASSUME NEW t \in Threads,
              SampleNotSupported(t) \/ Sleep(t) \/ LeaveLoop(t) \/ Release(t)
       PROVE  PassInv'
  <2>1. PICK l \in {"loop", "end", "none"} : Goes(t, l)
    BY <1>14 DEF SampleNotSupported, Sleep, LeaveLoop, Release
  <2>2. \A a \in Actors : pc'[a] \in Holding => pc'[a] = pc[a]
    BY <1>0, <2>1, GoesOn DEF ThreadLabels, Holding
  <2>3. UNCHANGED <<found, pass>>
    BY <1>14 DEF SampleNotSupported, Sleep, LeaveLoop, Release
  <2> QED
    BY <1>1, <2>2, <2>3
<1> QED
  BY <1>0, <1>2, <1>5, <1>6, <1>7, <1>8, <1>9, <1>10, <1>11, <1>12, <1>13, <1>14
  DEF RailNext, BinderStep, PollStep, Discovers

-----------------------------------------------------------------------------
(* The streams and the calls.                                               *)

\* A stream is handed out to a thread that has none, and only where there is
\* no other; its thread takes it back when it ends.
LEMMA FeederStep ==
    ASSUME RailIInv, [RailNext]_railVars
    PROVE  OneFeeder'
<1>0. /\ PcOK /\ RestOK /\ OneFeeder /\ Binder \in Actors /\ Binder \notin Threads
      /\ Threads \subseteq Actors /\ Nobody \notin Threads
  BY TypeParts, RailAssumption DEF RailIInv, Actors
<1>1. ASSUME UNCHANGED fmq, NEW a \in Actors, NEW l, pc' = pc \/ Goes(a, l),
             a \in Threads => pc[a] # "none" /\ l # "none"
      PROVE  OneFeeder'
  BY <1>0, <1>1 DEF OneFeeder, Goes, PcOK
<1>2. CASE StartService \/ Discovers
  BY <1>0, <1>1, <1>2 DEF StartService, Discovers, FindNode, FoundNodes, ParseLine,
                          NextPath, ParsedRails, stream
<1>3. CASE Call \/ GetRailInfo \/ EnergyNotSupported \/ StreamRefused
  BY <1>0, <1>1, <1>3 DEF Call, GetRailInfo, EnergyNotSupported, StreamRefused, Answers,
                          stream
<1>4. CASE GetEnergyData \/ AnswerEnergy
  BY <1>0, <1>1, <1>4 DEF GetEnergyData, AnswerEnergy, BeginPass, Answers, stream
<1>5. CASE StreamEnergyData
  <2>1. PICK t \in Threads :
           /\ pc[t] = "none" /\ pc' = [pc EXCEPT ![t] = "loop", ![Binder] = "idle"]
           /\ fmq' = t
    BY <1>5 DEF StreamEnergyData
  <2>2. \A u \in Threads : pc[u] = "none"
    BY <1>0, <1>5 DEF StreamEnergyData, NoStream, OneFeeder
  <2>3. pc'[t] = "loop" /\ \A u \in Threads \ {t} : pc'[u] = "none"
    BY <1>0, <2>1, <2>2 DEF PcOK
  <2>4. fmq' = t
    BY <2>1
  <2>5. \A u \in Threads : pc'[u] # "none" <=> fmq' = u
    BY <2>3, <2>4
  <2> QED
    BY <2>5 DEF OneFeeder
<1>6. ASSUME NEW a \in Actors, ParseNode(a) \/ ParseNodeFails(a) PROVE OneFeeder'
  <2>1. PICK l \in {"answer", "write", "idle", "end"} : pc' = pc \/ Goes(a, l)
    BY <1>6 DEF ParseNode, PassDone, ParseNodeFails, PassFailed, Answers
  <2>2. UNCHANGED fmq /\ pc[a] = "pass"
    BY <1>6 DEF ParseNode, ParseNodeFails, stream
  <2> QED
    BY <1>1, <2>1, <2>2
<1>7. ASSUME NEW t \in Threads,
             \/ BeginSample(t) \/ SampleNotSupported(t) \/ Write(t) \/ WriteTimesOut(t)
             \/ Sleep(t) \/ LeaveLoop(t)
      PROVE  OneFeeder'
  <2>1. PICK l \in {"pass", "end", "sleep", "loop"} : Goes(t, l)
    BY <1>7 DEF BeginSample, SampleNotSupported, Write, WriteTimesOut, Sleep, LeaveLoop,
                Sampled, BeginPass
  <2>2. UNCHANGED fmq /\ pc[t] # "none"
    BY <1>7 DEF BeginSample, SampleNotSupported, Write, WriteTimesOut, Sleep, LeaveLoop,
                stream
  <2> QED
    BY <1>0, <1>1, <2>1, <2>2
<1>8. ASSUME NEW t \in Threads, Release(t) PROVE OneFeeder'
  <2>1. pc[t] = "end" /\ Goes(t, "none") /\ fmq' = Nobody
    BY <1>8 DEF Release, Released
  <2>2. \A u \in Threads \ {t} : pc[u] = "none"
    BY <1>0, <2>1 DEF OneFeeder
  <2>3. \A u \in Threads : pc'[u] = "none"
    BY <1>0, <2>1, <2>2 DEF Goes, PcOK
  <2> QED
    BY <1>0, <2>1, <2>3 DEF OneFeeder
<1>9. CASE ReadSample \/ UNCHANGED railVars
  BY <1>0, <1>9 DEF ReadSample, railVars, stream, OneFeeder
<1> QED
  BY <1>0, <1>2, <1>3, <1>4, <1>5, <1>6, <1>7, <1>8, <1>9
  DEF RailNext, BinderStep, PollStep, Discovers

\* A step of a poll thread or of the client leaves the call of the binder
\* thread alone.
LEMMA PollsAlone ==
    ASSUME RailIInv,
           \/ \E t \in Threads : PollStep(t)
           \/ ReadSample
           \/ UNCHANGED railVars
    PROVE  pc'[Binder] = pc[Binder] /\ req' = req /\ status' = status
<1>0. PcOK /\ Binder \in Actors /\ Binder \notin Threads /\ Threads \subseteq Actors
  BY TypeParts, RailAssumption DEF RailIInv, Actors
<1>1. ASSUME NEW t \in Threads, PollStep(t)
      PROVE  pc'[Binder] = pc[Binder] /\ req' = req /\ status' = status
  <2>1. PICK l \in ThreadLabels : pc' = pc \/ Goes(t, l)
    BY <1>0, <1>1
    DEF PollStep, BeginSample, SampleNotSupported, ParseNode, PassDone, ParseNodeFails,
        PassFailed, Write, WriteTimesOut, Sleep, LeaveLoop, Release, Sampled, BeginPass,
        ThreadLabels
  <2>2. pc'[Binder] = pc[Binder]
    BY <1>0, <2>1 DEF Goes, PcOK
  <2>3. req' = req /\ status' = status
    BY <1>0, <1>1
    DEF PollStep, BeginSample, SampleNotSupported, ParseNode, PassDone, ParseNodeFails,
        PassFailed, Write, WriteTimesOut, Sleep, LeaveLoop, Release
  <2> QED
    BY <2>2, <2>3
<1> QED
  BY <1>1 DEF ReadSample, railVars

LEMMA CallStep ==
    ASSUME RailIInv, [RailNext]_railVars
    PROVE  CallInv'
<1>0. PcOK /\ CallInv /\ Binder \in Actors /\ Binder \notin Threads
  BY TypeParts, RailAssumption DEF RailIInv, Actors
<1>1. CASE (\E t \in Threads : PollStep(t)) \/ ReadSample \/ UNCHANGED railVars
  BY <1>0, <1>1, PollsAlone DEF CallInv
<1>2. CASE StartService \/ Discovers
  <2>1. pc[Binder] \in Discovering /\ req' = req
    BY <1>2 DEF StartService, Discovers, FindNode, FoundNodes, ParseLine, NextPath,
                ParsedRails, Discovering
  <2>2. pc' = pc \/ \E l \in {"find", "rails", "idle"} : Goes(Binder, l)
    BY <1>2 DEF StartService, Discovers, FindNode, FoundNodes, ParseLine, NextPath,
                ParsedRails
  <2>3. pc'[Binder] \in {"off", "find", "rails", "idle"}
    BY <1>0, <2>1, <2>2 DEF Goes, PcOK, Discovering
  <2> QED
    BY <1>0, <2>1, <2>3 DEF CallInv
<1>3. CASE Call \/ GetRailInfo \/ EnergyNotSupported \/ AnswerEnergy \/ StreamRefused
  <2>1. PICK l \in {"call", "idle"} : Goes(Binder, l)
    BY <1>3 DEF Call, GetRailInfo, EnergyNotSupported, AnswerEnergy, StreamRefused, Answers
  <2>2. pc'[Binder] = l
    BY <1>0, <2>1 DEF Goes, PcOK
  <2> QED
    BY <2>2 DEF CallInv, Discovering
<1>4. CASE GetEnergyData
  <2>1. req' = req /\ req.op = "energy" /\ pc'[Binder] = "pass"
    BY <1>0, <1>4 DEF GetEnergyData, Calls, BeginPass, Goes, PcOK
  <2> QED
    BY <2>1 DEF CallInv, Discovering
<1>5. CASE StreamEnergyData
  <2>1. pc'[Binder] = "idle"
    BY <1>0, <1>5 DEF StreamEnergyData, PcOK
  <2> QED
    BY <2>1 DEF CallInv, Discovering
<1>6. CASE ParseNode(Binder) \/ ParseNodeFails(Binder)
  <2>1. pc[Binder] = "pass" /\ req' = req
    BY <1>6 DEF ParseNode, ParseNodeFails
  <2>2. pc' = pc \/ Goes(Binder, "answer") \/ Goes(Binder, "idle")
    BY <1>0, <1>6 DEF ParseNode, PassDone, ParseNodeFails, PassFailed, Answers
  <2>3. pc'[Binder] \in {"pass", "answer", "idle"}
    BY <1>0, <2>1, <2>2 DEF Goes, PcOK
  <2> QED
    BY <1>0, <2>1, <2>3 DEF CallInv, Discovering
<1> QED
  BY <1>1, <1>2, <1>3, <1>4, <1>5, <1>6 DEF RailNext, BinderStep, Discovers

\* What a client was told of its stream stays as it was computed until the
\* first sample is taken.
LEMMA TellsStep ==
    ASSUME RailIInv, [RailNext]_railVars
    PROVE  TellsAsAsked'
<1>0. /\ PcOK /\ RestOK /\ CallInv /\ TellsAsAsked
      /\ Binder \in Actors /\ Binder \notin Threads
      /\ Threads \subseteq Actors /\ Nobody \notin Threads
  BY TypeParts, RailAssumption DEF RailIInv, Actors
<1>1. ASSUME pc'[Binder] # "idle" PROVE TellsAsAsked'
  BY <1>1 DEF TellsAsAsked
<1>2. ASSUME req'.op # "stream" \/ status' # "SUCCESS" PROVE TellsAsAsked'
  BY <1>2 DEF TellsAsAsked
<1>3. CASE (\E t \in Threads : PollStep(t)) \/ ReadSample \/ UNCHANGED railVars
  <2>1. pc'[Binder] = pc[Binder] /\ req' = req /\ status' = status
    BY <1>3, PollsAlone
  <2>2. \A u \in Threads :
           fmq' = u /\ count'[u] = 0 =>
               fmq = u /\ count[u] = 0 /\ told'[u] = told[u]
    <3>1. ASSUME NEW t \in Threads, Write(t) \/ WriteTimesOut(t)
          PROVE  \A u \in Threads : count'[u] = 0 => count[u] = 0
      <4>1. count' = [count EXCEPT ![t] = count[t] + 1] /\ count[t] \in Nat
        BY <1>0, <3>1 DEF Write, WriteTimesOut, Sampled, CountAfter, RestOK
      <4> QED
        BY <1>0, <4>1 DEF RestOK
    <3>2. ASSUME NEW t \in Threads, Write(t) \/ WriteTimesOut(t)
          PROVE  fmq' = fmq /\ told' = told
      BY <3>2 DEF Write, WriteTimesOut
    <3>3. ASSUME NEW t \in Threads, PollStep(t), ~ Write(t), ~ WriteTimesOut(t), ~ Release(t)
          PROVE  fmq' = fmq /\ told' = told /\ count' = count
      BY <3>3 DEF PollStep, BeginSample, SampleNotSupported, ParseNode, ParseNodeFails,
                  Sleep, LeaveLoop, stream
    <3>4. ASSUME NEW t \in Threads, Release(t) PROVE fmq' = Nobody
      BY <3>4 DEF Release, Released
    <3>5. CASE ReadSample \/ UNCHANGED railVars
      BY <3>5 DEF ReadSample, railVars, stream
    <3> QED
      BY <1>0, <1>3, <3>1, <3>2, <3>3, <3>4, <3>5 DEF PollStep
  <2> QED
    BY <1>0, <2>1, <2>2 DEF TellsAsAsked
<1>4. CASE StartService \/ FindNode \/ FoundNodes \/ ParseLine \/ NextPath
  <2>1. pc' = pc \/ Goes(Binder, "find") \/ Goes(Binder, "rails")
    BY <1>4 DEF StartService, FindNode, FoundNodes, ParseLine, NextPath
  <2>2. pc[Binder] \in Discovering
    BY <1>4 DEF StartService, FindNode, FoundNodes, ParseLine, NextPath, Discovering
  <2>3. pc'[Binder] # "idle"
    BY <1>0, <2>1, <2>2 DEF Goes, PcOK, Discovering
  <2> QED
    BY <1>1, <2>3
<1>5. CASE ParsedRails
  <2>1. req'.op = "info"
    BY <1>0, <1>5 DEF ParsedRails, CallInv, Discovering
  <2> QED
    BY <1>2, <2>1
<1>6. CASE Call \/ GetEnergyData
  <2>1. Goes(Binder, "call") \/ Goes(Binder, "pass")
    BY <1>6 DEF Call, GetEnergyData, BeginPass
  <2>2. pc'[Binder] # "idle"
    BY <1>0, <2>1 DEF Goes, PcOK
  <2> QED
    BY <1>1, <2>2
<1>7. CASE \/ GetRailInfo \/ EnergyNotSupported \/ AnswerEnergy
           \/ ParseNode(Binder) \/ ParseNodeFails(Binder)
  <2>1. req' = req
    BY <1>7 DEF GetRailInfo, EnergyNotSupported, AnswerEnergy, ParseNode, ParseNodeFails
  <2>2. req.op \in {"info", "energy"}
    BY <1>0, <1>7 DEF GetRailInfo, EnergyNotSupported, AnswerEnergy, ParseNode,
                      ParseNodeFails, Calls, CallInv
  <2> QED
    BY <1>2, <2>1, <2>2
<1>8. CASE StreamRefused
  <2>1. status' # "SUCCESS"
    BY <1>8 DEF StreamRefused, Answers
  <2> QED
    BY <1>2, <2>1
<1>9. CASE StreamEnergyData
  <2>1. req \in Requests /\ req.op = "stream" /\ req' = req
    BY <1>0, <1>9 DEF StreamEnergyData, Calls, RestOK
  <2>2. req.timeMs \in Nat /\ req.rate \in Nat
    BY <2>1, RailAssumption DEF Requests
  <2>3. PICK t \in Threads :
           /\ fmq' = t
           /\ told' = [told EXCEPT ![t] = NumSamples(req.timeMs, req.rate)]
    BY <1>9 DEF StreamEnergyData
  <2>4. told'[t] = NumSamples(req.timeMs, req.rate)
    BY <1>0, <2>3 DEF RestOK
  <2>5. PICK timeMs, rate : timeMs = req.timeMs /\ rate = req.rate
    OBVIOUS
  <2>6. timeMs \in Nat /\ rate \in Nat /\ told'[t] = NumSamples(timeMs, rate)
    BY <2>2, <2>4, <2>5
  <2>7. LET product == timeMs * Least(rate, MaxRate)
        IN  IF product < Word
            THEN told'[t] * SecondMs <= product /\ product < (told'[t] + 1) * SecondMs
            ELSE told'[t] * SecondMs < product
    BY <2>6, NumSamplesIs
  <2>8. req'.timeMs = timeMs /\ req'.rate = rate
    BY <2>1, <2>5
  <2> QED
    BY <2>3, <2>7, <2>8 DEF TellsAsAsked
<1> QED
  BY <1>3, <1>4, <1>5, <1>6, <1>7, <1>8, <1>9 DEF RailNext, BinderStep

-----------------------------------------------------------------------------
(* The theorems.                                                            *)

\* The invariant holds from the start of the service on.
THEOREM RailInvariance == RailSpec => []RailIInv
<1>1. ASSUME RailIInv, [RailNext]_railVars PROVE RailIInv'
  <2>1. RailTypeOK' /\ LockInv'
    BY <1>1, RailTypeStep, LockStep DEF RailIInv
  <2>2. PassInv' /\ OneFeeder' /\ CallInv' /\ TellsAsAsked'
    BY <1>1, <2>1, PassStep, FeederStep, CallStep, TellsStep
  <2>3. PathsInv' /\ NamedInv'
    BY <1>1, FoundStep DEF RailIInv
  <2> QED
    BY <2>1, <2>2, <2>3 DEF RailIInv
<1> QED
  BY <1>1, RailInitInvariant, PTL DEF RailSpec

\* Whatever devices, rails and malformed lines the discovery meets, getRailInfo
\* and getEnergyData fill in every entry they return, each of them once.
THEOREM NamesReadings == RailSpec => []ReadingsAreNamed
<1>1. RailIInv => ReadingsAreNamed
  BY DEF RailIInv, NamedInv, ReadingsAreNamed
<1> QED
  BY <1>1, RailInvariance, PTL

\* A sample that is answered or written is of one pass over all monitors,
\* however the binder thread and the poll threads interleave.
THEOREM SamplesWhole == RailSpec => []SamplesAreWhole
<1>1. ASSUME RailIInv PROVE SamplesAreWhole
  <2>1. FoundOK /\ NamedInv /\ PathsInv /\ PassInv
    BY <1>1, TypeParts DEF RailIInv
  <2>2. \A r \in DOMAIN railsInfo :
           \E j \in 1 .. Len(devicePaths) : r \in RailNames(devicePaths[j])
    BY <2>1 DEF PathsInv, FromLine, RailNames
  <2>3. ReadOf(Len(devicePaths)) = {railsInfo[r] : r \in DOMAIN railsInfo}
    BY <2>2 DEF ReadOf
  <2>4. {railsInfo[r] : r \in DOMAIN railsInfo} = 0 .. numRails - 1
    BY <2>1 DEF NamedInv
  <2> QED
    BY <2>1, <2>3, <2>4 DEF SamplesAreWhole, PassInv
<1> QED
  BY <1>1, RailInvariance, PTL

\* A stream has one feeder, from the call that hands it out to its end, and its
\* client is told of as many samples as its time has room for, for every time,
\* rate and width of the product.
THEOREM FeedsAsAsked == RailSpec => []StreamsAsAsked
<1>1. RailIInv => StreamsAsAsked
  BY DEF RailIInv, StreamsAsAsked
<1> QED
  BY <1>1, RailInvariance, PTL

-----------------------------------------------------------------------------
(* DumpstateModem: DumpIInv is inductive.  Each part of it is proved by a   *)
(* lemma of its own, one step per action.                                   *)

USE DEF logVars, props, files

-----------------------------------------------------------------------------
(* The parts of the invariant.                                              *)

\* The type invariant in parts.
PcTypes ==
    /\ dumpPc \in {"none", "notify", "touch", "raw", "board", "answer"}
    /\ modemPc \in {"none", "begin", "stop", "await", "mkdir", "collect", "poweron",
                    "efs", "ril", "tar", "send", "rmdir", "rmtar"}
PropTypes ==
    /\ verbose \in BOOLEAN /\ enabled \in BOOLEAN
    /\ request \in BOOLEAN /\ daemon \in BOOLEAN /\ started \in BOOLEAN
    /\ efsdump \in BOOLEAN /\ apOwnsBus \in BOOLEAN
LogTypes ==
    /\ names \in Seq(STRING) /\ logAt \in 0 .. Len(names)
    /\ copiedFiles \in Nat /\ maxFileNum \in Nat \cup {-1}
    /\ copied \subseteq 1 .. Len(names)
FileTypes ==
    /\ dir \in {NoDir} \cup SUBSET {"old", "new"}
    /\ tar \subseteq {"old", "new"} /\ sent \subseteq {"old", "new"}

\* The history keeps its type.
Histories == [killed : BOOLEAN, toggled : BOOLEAN, timedOut : BOOLEAN,
              refused : BOOLEAN, wasOn : BOOLEAN, efsWas : BOOLEAN,
              busWas : BOOLEAN, unclean : BOOLEAN]
LEMMA HistoryForms ==
    ASSUME NEW h \in Histories, NEW b \in BOOLEAN
    PROVE  /\ [h EXCEPT !.killed = b] \in Histories
           /\ [h EXCEPT !.toggled = b] \in Histories
           /\ [h EXCEPT !.timedOut = b] \in Histories
           /\ [h EXCEPT !.refused = b] \in Histories
           /\ [h EXCEPT !.wasOn = b] \in Histories
           /\ [h EXCEPT !.unclean = b] \in Histories
  BY DEF Histories

LEMMA HistoryStep ==
    ASSUME DumpTypeOK, DumpNext
    PROVE  history' \in Histories
<1>1. history \in Histories /\ efsdump \in BOOLEAN /\ apOwnsBus \in BOOLEAN
  BY DEF DumpTypeOK, Histories
<1>2. CASE history' = history
  BY <1>1, <1>2
<1>3. CASE DumpstateBoard
  BY <1>1, <1>3 DEF DumpstateBoard, Forget, Histories
<1>4. CASE RestoreBusOwner
  BY <1>1, <1>4, HistoryForms DEF RestoreBusOwner
<1>5. CASE ReadProperties
  <2>1. (enabled /\ daemon) \in BOOLEAN
    OBVIOUS
  <2>2. started' \in BOOLEAN \/ history' = history
    BY <1>5, <2>1 DEF ReadProperties
  <2> QED
    BY <1>1, <1>5, <2>2, HistoryForms DEF ReadProperties
<1>6. CASE AwaitDaemon
  BY <1>1, <1>6, HistoryForms DEF AwaitDaemon
<1>7. CASE RestartDaemon
  BY <1>1, <1>7, HistoryForms DEF RestartDaemon
<1>8. CASE RemoveDir \/ RemoveTar
  BY <1>1, <1>8, HistoryForms DEF RemoveDir, RemoveTar, Unclean
<1>9. CASE Toggle
  BY <1>1, <1>9, HistoryForms DEF Toggle
<1>10. CASE Kill
  <2>1. [history EXCEPT !.killed = TRUE] \in Histories
    BY <1>1, HistoryForms
  <2>2. history' = [[history EXCEPT !.killed = TRUE] EXCEPT !.unclean = TRUE]
    BY <1>10 DEF Kill
  <2> QED
    BY <2>1, <2>2, HistoryForms
<1> QED
  BY <1>2, <1>3, <1>4, <1>5, <1>6, <1>7, <1>8, <1>9, <1>10 DEF DumpNext, BoardStep,
     ModemThread, Configure, CreateThread, ForceBusOwner, JoinThread, Exit, StopDaemon,
     MakeDir, DumpLog, CopyPowerOnLog, EfsDump, CreateTarFile, Send, DaemonStops,
     DaemonStarts

\* Every step keeps the types.
LEMMA DumpTypeStep ==
    ASSUME DumpTypeOK, DumpNext
    PROVE  DumpTypeOK'
<1>1. CASE Configure
  BY <1>1, HistoryStep, DumpAssumption DEF Configure, Histories, DumpTypeOK,
     NoDir
<1>2. CASE DumpstateBoard
  BY <1>2, HistoryStep, DumpAssumption DEF DumpstateBoard, Forget, Histories,
     DumpTypeOK, NoDir
<1>3. CASE CreateThread
  BY <1>3, HistoryStep, DumpAssumption DEF CreateThread, Histories,
     DumpTypeOK, NoDir
<1>4. CASE ForceBusOwner
  <2>1. PcTypes'
    BY <1>4 DEF ForceBusOwner, PcTypes, DumpTypeOK
  <2>2. PropTypes'
    BY <1>4 DEF ForceBusOwner, PropTypes, DumpTypeOK
  <2>3. LogTypes'
    BY <1>4, DumpAssumption DEF ForceBusOwner, LogTypes, DumpTypeOK
  <2>4. FileTypes'
    BY <1>4 DEF ForceBusOwner, FileTypes, DumpTypeOK, NoDir
  <2> QED
    BY <2>1, <2>2, <2>3, <2>4, HistoryStep DEF DumpTypeOK, PcTypes, PropTypes, LogTypes,
       FileTypes, Histories
<1>5. CASE RestoreBusOwner
  <2>1. PcTypes'
    BY <1>5 DEF RestoreBusOwner, PcTypes, DumpTypeOK
  <2>2. PropTypes'
    BY <1>5 DEF RestoreBusOwner, PropTypes, DumpTypeOK
  <2>3. LogTypes'
    BY <1>5, DumpAssumption DEF RestoreBusOwner, LogTypes, DumpTypeOK
  <2>4. FileTypes'
    BY <1>5 DEF RestoreBusOwner, FileTypes, DumpTypeOK, NoDir
  <2> QED
    BY <2>1, <2>2, <2>3, <2>4, HistoryStep DEF DumpTypeOK, PcTypes, PropTypes, LogTypes,
       FileTypes, Histories
<1>6. CASE JoinThread
  BY <1>6, HistoryStep, DumpAssumption DEF JoinThread, Joined, Histories,
     DumpTypeOK, NoDir
<1>7. CASE Exit
  <2>1. PcTypes'
    BY <1>7 DEF Exit, NoLogs, PcTypes, DumpTypeOK
  <2>2. PropTypes'
    BY <1>7 DEF Exit, NoLogs, PropTypes, DumpTypeOK
  <2>3. LogTypes'
    BY <1>7, DumpAssumption DEF Exit, NoLogs, LogTypes, DumpTypeOK
  <2>4. FileTypes'
    BY <1>7 DEF Exit, NoLogs, FileTypes, DumpTypeOK, NoDir
  <2> QED
    BY <2>1, <2>2, <2>3, <2>4, HistoryStep DEF DumpTypeOK, PcTypes, PropTypes, LogTypes,
       FileTypes, Histories
<1>8. CASE ReadProperties
  BY <1>8, HistoryStep, DumpAssumption DEF ReadProperties, ModemStep, Aged,
     Histories, DumpTypeOK, NoDir
<1>9. CASE StopDaemon
  <2>1. PcTypes'
    BY <1>9 DEF StopDaemon, ModemStep, PcTypes, DumpTypeOK
  <2>2. PropTypes'
    BY <1>9 DEF StopDaemon, ModemStep, PropTypes, DumpTypeOK
  <2>3. LogTypes'
    BY <1>9, DumpAssumption DEF StopDaemon, ModemStep, LogTypes, DumpTypeOK
  <2>4. FileTypes'
    BY <1>9 DEF StopDaemon, ModemStep, FileTypes, DumpTypeOK, NoDir
  <2> QED
    BY <2>1, <2>2, <2>3, <2>4, HistoryStep DEF DumpTypeOK, PcTypes, PropTypes, LogTypes,
       FileTypes, Histories
<1>10. CASE AwaitDaemon
  BY <1>10, HistoryStep, DumpAssumption DEF AwaitDaemon, ModemStep, Stopped,
     MayTimeOut, Histories, DumpTypeOK, NoDir
<1>11. CASE MakeDir
  <2>1. PcTypes'
    BY <1>11 DEF MakeDir, ModemStep, ScanLogs, LastOf, PcTypes, DumpTypeOK
  <2>2. PropTypes'
    BY <1>11 DEF MakeDir, ModemStep, ScanLogs, LastOf, PropTypes, DumpTypeOK
  <2>3. LogTypes'
    <3>1. CASE enabled
      <4>1. names' \in Seq(STRING) /\ Len(names') \in Nat
        BY <1>11, <3>1, DumpAssumption DEF MakeDir, ScanLogs
      <4>2. logAt' = Len(names') /\ maxFileNum' \in Nat \cup {-1}
        BY <1>11, <3>1, DumpAssumption DEF MakeDir, ScanLogs, LastOf
      <4>3. copiedFiles' = 0 /\ copied' = {}
        BY <1>11, <3>1 DEF MakeDir, ScanLogs
      <4> QED
        BY <4>1, <4>2, <4>3 DEF LogTypes
    <3>2. CASE ~ enabled
      BY <1>11, <3>2 DEF MakeDir, LogTypes, DumpTypeOK
    <3> QED
      BY <3>1, <3>2
  <2>4. FileTypes'
    BY <1>11 DEF MakeDir, ModemStep, ScanLogs, LastOf, FileTypes, DumpTypeOK,
       NoDir
  <2> QED
    BY <2>1, <2>2, <2>3, <2>4, HistoryStep DEF DumpTypeOK, PcTypes, PropTypes, LogTypes,
       FileTypes, Histories
<1>12. CASE DumpLog
  <2>1. PcTypes'
    BY <1>12 DEF DumpLog, ModemStep, Wanted, CountCopies, CopyFile, PcTypes,
       DumpTypeOK
  <2>2. PropTypes'
    BY <1>12 DEF DumpLog, ModemStep, Wanted, CountCopies, CopyFile, PropTypes,
       DumpTypeOK
  <2>3. LogTypes'
    <3>1. logAt \in 1 .. Len(names) /\ logAt' = logAt - 1 /\ Len(names) \in Nat
      BY <1>12 DEF DumpLog, DumpTypeOK
    <3>2. names' = names /\ maxFileNum' = maxFileNum
      BY <1>12 DEF DumpLog
    <3>3. copiedFiles' \in {copiedFiles, copiedFiles + 1}
      BY <1>12 DEF DumpLog, CountCopies
    <3>4. copied' \in {copied, copied \cup {logAt}}
      BY <1>12 DEF DumpLog
    <3> QED
      BY <3>1, <3>2, <3>3, <3>4 DEF LogTypes, DumpTypeOK
  <2>4. FileTypes'
    BY <1>12 DEF DumpLog, ModemStep, Wanted, CountCopies, CopyFile, FileTypes,
       DumpTypeOK, NoDir
  <2> QED
    BY <2>1, <2>2, <2>3, <2>4, HistoryStep DEF DumpTypeOK, PcTypes, PropTypes, LogTypes,
       FileTypes, Histories
<1>13. CASE RestartDaemon
  <2>1. PcTypes'
    BY <1>13 DEF RestartDaemon, ModemStep, Restarts, NoLogs, PcTypes,
       DumpTypeOK
  <2>2. PropTypes'
    BY <1>13 DEF RestartDaemon, ModemStep, Restarts, NoLogs, PropTypes,
       DumpTypeOK
  <2>3. LogTypes'
    BY <1>13, DumpAssumption DEF RestartDaemon, ModemStep, Restarts, NoLogs,
       LogTypes, DumpTypeOK
  <2>4. FileTypes'
    BY <1>13 DEF RestartDaemon, ModemStep, Restarts, NoLogs, FileTypes,
       DumpTypeOK, NoDir
  <2> QED
    BY <2>1, <2>2, <2>3, <2>4, HistoryStep DEF DumpTypeOK, PcTypes, PropTypes, LogTypes,
       FileTypes, Histories
<1>14. CASE CopyPowerOnLog
  <2>1. PcTypes'
    BY <1>14 DEF CopyPowerOnLog, ModemStep, CopyFile, PcTypes, DumpTypeOK
  <2>2. PropTypes'
    BY <1>14 DEF CopyPowerOnLog, ModemStep, CopyFile, PropTypes, DumpTypeOK
  <2>3. LogTypes'
    BY <1>14 DEF CopyPowerOnLog, ModemStep, CopyFile, LogTypes, DumpTypeOK
  <2>4. FileTypes'
    BY <1>14 DEF CopyPowerOnLog, ModemStep, CopyFile, FileTypes, DumpTypeOK, NoDir
  <2> QED
    BY <2>1, <2>2, <2>3, <2>4, HistoryStep DEF DumpTypeOK, PcTypes, PropTypes, LogTypes,
       FileTypes, Histories
<1>15. CASE EfsDump("efs", "ril", TRUE)
  <2>1. PcTypes'
    BY <1>15 DEF EfsDump, ModemStep, CopyFile, PcTypes, DumpTypeOK
  <2>2. PropTypes'
    BY <1>15 DEF EfsDump, ModemStep, CopyFile, PropTypes, DumpTypeOK
  <2>3. LogTypes'
    BY <1>15 DEF EfsDump, ModemStep, CopyFile, LogTypes, DumpTypeOK
  <2>4. FileTypes'
    BY <1>15 DEF EfsDump, ModemStep, CopyFile, FileTypes, DumpTypeOK, NoDir
  <2> QED
    BY <2>1, <2>2, <2>3, <2>4, HistoryStep DEF DumpTypeOK, PcTypes, PropTypes, LogTypes,
       FileTypes, Histories
<1>16. CASE EfsDump("ril", "tar", FALSE)
  <2>1. PcTypes'
    BY <1>16 DEF EfsDump, ModemStep, CopyFile, PcTypes, DumpTypeOK
  <2>2. PropTypes'
    BY <1>16 DEF EfsDump, ModemStep, CopyFile, PropTypes, DumpTypeOK
  <2>3. LogTypes'
    BY <1>16 DEF EfsDump, ModemStep, CopyFile, LogTypes, DumpTypeOK
  <2>4. FileTypes'
    BY <1>16 DEF EfsDump, ModemStep, CopyFile, FileTypes, DumpTypeOK, NoDir
  <2> QED
    BY <2>1, <2>2, <2>3, <2>4, HistoryStep DEF DumpTypeOK, PcTypes, PropTypes, LogTypes,
       FileTypes, Histories
<1>17. CASE CreateTarFile
  <2>1. PcTypes'
    BY <1>17 DEF CreateTarFile, ModemStep, PcTypes, DumpTypeOK
  <2>2. PropTypes'
    BY <1>17 DEF CreateTarFile, ModemStep, PropTypes, DumpTypeOK
  <2>3. LogTypes'
    BY <1>17 DEF CreateTarFile, ModemStep, LogTypes, DumpTypeOK
  <2>4. FileTypes'
    BY <1>17 DEF CreateTarFile, ModemStep, FileTypes, DumpTypeOK, NoDir
  <2> QED
    BY <2>1, <2>2, <2>3, <2>4, HistoryStep DEF DumpTypeOK, PcTypes, PropTypes, LogTypes,
       FileTypes, Histories
<1>18. CASE Send
  <2>1. PcTypes'
    BY <1>18 DEF Send, ModemStep, PcTypes, DumpTypeOK
  <2>2. PropTypes'
    BY <1>18 DEF Send, ModemStep, PropTypes, DumpTypeOK
  <2>3. LogTypes'
    BY <1>18 DEF Send, ModemStep, LogTypes, DumpTypeOK
  <2>4. FileTypes'
    BY <1>18 DEF Send, ModemStep, FileTypes, DumpTypeOK, NoDir
  <2> QED
    BY <2>1, <2>2, <2>3, <2>4, HistoryStep DEF DumpTypeOK, PcTypes, PropTypes, LogTypes,
       FileTypes, Histories
<1>19. CASE RemoveDir
  <2>1. PcTypes'
    BY <1>19 DEF RemoveDir, ModemStep, EmptiedDir, Unclean, PcTypes, DumpTypeOK
  <2>2. PropTypes'
    BY <1>19 DEF RemoveDir, ModemStep, EmptiedDir, Unclean, PropTypes, DumpTypeOK
  <2>3. LogTypes'
    BY <1>19 DEF RemoveDir, ModemStep, EmptiedDir, Unclean, LogTypes, DumpTypeOK
  <2>4. FileTypes'
    BY <1>19 DEF RemoveDir, ModemStep, EmptiedDir, Unclean, FileTypes, DumpTypeOK, NoDir
  <2> QED
    BY <2>1, <2>2, <2>3, <2>4, HistoryStep DEF DumpTypeOK, PcTypes, PropTypes, LogTypes,
       FileTypes, Histories
<1>20. CASE RemoveTar
  <2>1. PcTypes'
    BY <1>20 DEF RemoveTar, ModemStep, Unclean, PcTypes, DumpTypeOK
  <2>2. PropTypes'
    BY <1>20 DEF RemoveTar, ModemStep, Unclean, PropTypes, DumpTypeOK
  <2>3. LogTypes'
    BY <1>20 DEF RemoveTar, ModemStep, Unclean, LogTypes, DumpTypeOK
  <2>4. FileTypes'
    BY <1>20 DEF RemoveTar, ModemStep, Unclean, FileTypes, DumpTypeOK, NoDir
  <2> QED
    BY <2>1, <2>2, <2>3, <2>4, HistoryStep DEF DumpTypeOK, PcTypes, PropTypes, LogTypes,
       FileTypes, Histories
<1>21. CASE DaemonStops
  <2>1. PcTypes'
    BY <1>21 DEF DaemonStops, PcTypes, DumpTypeOK
  <2>2. PropTypes'
    BY <1>21 DEF DaemonStops, PropTypes, DumpTypeOK
  <2>3. LogTypes'
    BY <1>21, DumpAssumption DEF DaemonStops, LogTypes, DumpTypeOK
  <2>4. FileTypes'
    BY <1>21 DEF DaemonStops, FileTypes, DumpTypeOK, NoDir
  <2> QED
    BY <2>1, <2>2, <2>3, <2>4, HistoryStep DEF DumpTypeOK, PcTypes, PropTypes, LogTypes,
       FileTypes, Histories
<1>22. CASE DaemonStarts
  BY <1>22, HistoryStep, DumpAssumption DEF DaemonStarts, Histories,
     DumpTypeOK, NoDir
<1>23. CASE Toggle
  BY <1>23, HistoryStep, DumpAssumption DEF Toggle, Histories, DumpTypeOK,
     NoDir
<1>24. CASE Kill
  <2>1. PcTypes'
    BY <1>24 DEF Kill, NoLogs, PcTypes, DumpTypeOK
  <2>2. PropTypes'
    BY <1>24 DEF Kill, NoLogs, PropTypes, DumpTypeOK
  <2>3. LogTypes'
    BY <1>24, DumpAssumption DEF Kill, NoLogs, LogTypes, DumpTypeOK
  <2>4. FileTypes'
    BY <1>24 DEF Kill, NoLogs, FileTypes, DumpTypeOK, NoDir
  <2> QED
    BY <2>1, <2>2, <2>3, <2>4, HistoryStep DEF DumpTypeOK, PcTypes, PropTypes, LogTypes,
       FileTypes, Histories
<1> QED
  BY <1>1, <1>2, <1>3, <1>4, <1>5, <1>6, <1>7, <1>8, <1>9, <1>10, <1>11,
     <1>12, <1>13, <1>14, <1>15, <1>16, <1>17, <1>18, <1>19, <1>20, <1>21,
     <1>22, <1>23, <1>24 DEF DumpNext, BoardStep, ModemThread

\* The binder thread joins the thread that it created.
LEMMA ThreadStep ==
    ASSUME ThreadInv, DumpNext
    PROVE  ThreadInv'
<1>1. CASE Configure
  BY <1>1 DEF Configure, ThreadInv
<1>2. CASE DumpstateBoard
  BY <1>2 DEF DumpstateBoard, Forget, ThreadInv
<1>3. CASE CreateThread
  BY <1>3 DEF CreateThread, ThreadInv
<1>4. CASE ForceBusOwner
  BY <1>4 DEF ForceBusOwner, ThreadInv
<1>5. CASE RestoreBusOwner
  BY <1>5 DEF RestoreBusOwner, ThreadInv
<1>6. CASE JoinThread
  BY <1>6 DEF JoinThread, Joined, ThreadInv
<1>7. CASE Exit
  BY <1>7 DEF Exit, NoLogs, ThreadInv
<1>8. CASE ReadProperties
  BY <1>8 DEF ReadProperties, ModemStep, Aged, ThreadInv
<1>9. CASE StopDaemon
  BY <1>9 DEF StopDaemon, ModemStep, ThreadInv
<1>10. CASE AwaitDaemon
  BY <1>10 DEF AwaitDaemon, ModemStep, Stopped, MayTimeOut, ThreadInv
<1>11. CASE MakeDir
  BY <1>11 DEF MakeDir, ModemStep, ScanLogs, LastOf, ThreadInv
<1>12. CASE DumpLog
  BY <1>12 DEF DumpLog, ModemStep, Wanted, CountCopies, CopyFile, ThreadInv
<1>13. CASE RestartDaemon
  BY <1>13 DEF RestartDaemon, ModemStep, Restarts, NoLogs, ThreadInv
<1>14. CASE CopyPowerOnLog
  BY <1>14 DEF CopyPowerOnLog, ModemStep, CopyFile, ThreadInv
<1>15. CASE EfsDump("efs", "ril", TRUE)
  BY <1>15 DEF EfsDump, ModemStep, CopyFile, ThreadInv
<1>16. CASE EfsDump("ril", "tar", FALSE)
  BY <1>16 DEF EfsDump, ModemStep, CopyFile, ThreadInv
<1>17. CASE CreateTarFile
  BY <1>17 DEF CreateTarFile, ModemStep, ThreadInv
<1>18. CASE Send
  BY <1>18 DEF Send, ModemStep, ThreadInv
<1>19. CASE RemoveDir
  BY <1>19 DEF RemoveDir, ModemStep, EmptiedDir, Unclean, ThreadInv
<1>20. CASE RemoveTar
  BY <1>20 DEF RemoveTar, ModemStep, Unclean, ThreadInv
<1>21. CASE DaemonStops
  BY <1>21 DEF DaemonStops, ThreadInv
<1>22. CASE DaemonStarts
  BY <1>22 DEF DaemonStarts, ThreadInv
<1>23. CASE Toggle
  BY <1>23 DEF Toggle, ThreadInv
<1>24. CASE Kill
  BY <1>24 DEF Kill, NoLogs, ThreadInv
<1> QED
  BY <1>1, <1>2, <1>3, <1>4, <1>5, <1>6, <1>7, <1>8, <1>9, <1>10, <1>11,
     <1>12, <1>13, <1>14, <1>15, <1>16, <1>17, <1>18, <1>19, <1>20, <1>21,
     <1>22, <1>23, <1>24 DEF DumpNext, BoardStep, ModemThread

\* The daemon is stopped only to be started again.
LEMMA DaemonStep ==
    ASSUME DumpTypeOK, ThreadInv, DaemonInv, DumpNext
    PROVE  DaemonInv'
<1>1. CASE Configure
  BY <1>1 DEF Configure, DumpTypeOK, ThreadInv, DaemonInv, Pausing
<1>2. CASE DumpstateBoard
  BY <1>2 DEF DumpstateBoard, Forget, DumpTypeOK, ThreadInv, DaemonInv,
     Pausing
<1>3. CASE CreateThread
  BY <1>3 DEF CreateThread, DumpTypeOK, ThreadInv, DaemonInv, Pausing
<1>4. CASE ForceBusOwner
  BY <1>4 DEF ForceBusOwner, DumpTypeOK, ThreadInv, DaemonInv, Pausing
<1>5. CASE RestoreBusOwner
  BY <1>5 DEF RestoreBusOwner, DumpTypeOK, ThreadInv, DaemonInv, Pausing
<1>6. CASE JoinThread
  BY <1>6 DEF JoinThread, Joined, DumpTypeOK, ThreadInv, DaemonInv, Pausing
<1>7. CASE Exit
  BY <1>7 DEF Exit, NoLogs, DumpTypeOK, ThreadInv, DaemonInv, Pausing
<1>8. CASE ReadProperties
  BY <1>8 DEF ReadProperties, ModemStep, Aged, DumpTypeOK, ThreadInv,
     DaemonInv, Pausing
<1>9. CASE StopDaemon
  BY <1>9 DEF StopDaemon, ModemStep, DumpTypeOK, ThreadInv, DaemonInv, Pausing
<1>10. CASE AwaitDaemon
  BY <1>10 DEF AwaitDaemon, ModemStep, Stopped, MayTimeOut, DumpTypeOK,
     ThreadInv, DaemonInv, Pausing
<1>11. CASE MakeDir
  BY <1>11 DEF MakeDir, ModemStep, ScanLogs, LastOf, DumpTypeOK, ThreadInv,
     DaemonInv, Pausing
<1>12. CASE DumpLog
  BY <1>12 DEF DumpLog, ModemStep, Wanted, CountCopies, CopyFile, DumpTypeOK,
     ThreadInv, DaemonInv, Pausing
<1>13. CASE RestartDaemon
  BY <1>13 DEF RestartDaemon, ModemStep, Restarts, NoLogs, DumpTypeOK,
     ThreadInv, DaemonInv, Pausing
<1>14. CASE CopyPowerOnLog
  BY <1>14 DEF CopyPowerOnLog, ModemStep, CopyFile, DumpTypeOK, ThreadInv,
     DaemonInv, Pausing
<1>15. CASE EfsDump("efs", "ril", TRUE)
  BY <1>15 DEF EfsDump, ModemStep, CopyFile, DumpTypeOK, ThreadInv, DaemonInv,
     Pausing
<1>16. CASE EfsDump("ril", "tar", FALSE)
  BY <1>16 DEF EfsDump, ModemStep, CopyFile, DumpTypeOK, ThreadInv, DaemonInv,
     Pausing
<1>17. CASE CreateTarFile
  BY <1>17 DEF CreateTarFile, ModemStep, DumpTypeOK, ThreadInv, DaemonInv,
     Pausing
<1>18. CASE Send
  BY <1>18 DEF Send, ModemStep, DumpTypeOK, ThreadInv, DaemonInv, Pausing
<1>19. CASE RemoveDir
  BY <1>19 DEF RemoveDir, ModemStep, EmptiedDir, Unclean, DumpTypeOK,
     ThreadInv, DaemonInv, Pausing
<1>20. CASE RemoveTar
  BY <1>20 DEF RemoveTar, ModemStep, Unclean, DumpTypeOK, ThreadInv,
     DaemonInv, Pausing
<1>21. CASE DaemonStops
  BY <1>21 DEF DaemonStops, DumpTypeOK, ThreadInv, DaemonInv, Pausing
<1>22. CASE DaemonStarts
  BY <1>22 DEF DaemonStarts, DumpTypeOK, ThreadInv, DaemonInv, Pausing
<1>23. CASE Toggle
  BY <1>23 DEF Toggle, DumpTypeOK, ThreadInv, DaemonInv, Pausing
<1>24. CASE Kill
  BY <1>24 DEF Kill, NoLogs, DumpTypeOK, ThreadInv, DaemonInv, Pausing
<1> QED
  BY <1>1, <1>2, <1>3, <1>4, <1>5, <1>6, <1>7, <1>8, <1>9, <1>10, <1>11,
     <1>12, <1>13, <1>14, <1>15, <1>16, <1>17, <1>18, <1>19, <1>20, <1>21,
     <1>22, <1>23, <1>24 DEF DumpNext, BoardStep, ModemThread

\* What is turned on is turned off again.
LEMMA RestoredStep ==
    ASSUME DumpTypeOK, ThreadInv, RestoredInv, DumpNext
    PROVE  RestoredInv'
<1>1. CASE Configure
  BY <1>1 DEF Configure, DumpTypeOK, ThreadInv, RestoredInv
<1>2. CASE DumpstateBoard
  BY <1>2 DEF DumpstateBoard, Forget, DumpTypeOK, ThreadInv, RestoredInv
<1>3. CASE CreateThread
  BY <1>3 DEF CreateThread, DumpTypeOK, ThreadInv, RestoredInv
<1>4. CASE ForceBusOwner
  BY <1>4 DEF ForceBusOwner, DumpTypeOK, ThreadInv, RestoredInv
<1>5. CASE RestoreBusOwner
  BY <1>5 DEF RestoreBusOwner, DumpTypeOK, ThreadInv, RestoredInv
<1>6. CASE JoinThread
  BY <1>6 DEF JoinThread, Joined, DumpTypeOK, ThreadInv, RestoredInv
<1>7. CASE Exit
  BY <1>7 DEF Exit, NoLogs, DumpTypeOK, ThreadInv, RestoredInv
<1>8. CASE ReadProperties
  BY <1>8 DEF ReadProperties, ModemStep, Aged, DumpTypeOK, ThreadInv,
     RestoredInv
<1>9. CASE StopDaemon
  BY <1>9 DEF StopDaemon, ModemStep, DumpTypeOK, ThreadInv, RestoredInv
<1>10. CASE AwaitDaemon
  BY <1>10 DEF AwaitDaemon, ModemStep, Stopped, MayTimeOut, DumpTypeOK,
     ThreadInv, RestoredInv
<1>11. CASE MakeDir
  BY <1>11 DEF MakeDir, ModemStep, ScanLogs, LastOf, DumpTypeOK, ThreadInv,
     RestoredInv
<1>12. CASE DumpLog
  BY <1>12 DEF DumpLog, ModemStep, Wanted, CountCopies, CopyFile, DumpTypeOK,
     ThreadInv, RestoredInv
<1>13. CASE RestartDaemon
  BY <1>13 DEF RestartDaemon, ModemStep, Restarts, NoLogs, DumpTypeOK,
     ThreadInv, RestoredInv
<1>14. CASE CopyPowerOnLog
  BY <1>14 DEF CopyPowerOnLog, ModemStep, CopyFile, DumpTypeOK, ThreadInv,
     RestoredInv
<1>15. CASE EfsDump("efs", "ril", TRUE)
  BY <1>15 DEF EfsDump, ModemStep, CopyFile, DumpTypeOK, ThreadInv,
     RestoredInv
<1>16. CASE EfsDump("ril", "tar", FALSE)
  BY <1>16 DEF EfsDump, ModemStep, CopyFile, DumpTypeOK, ThreadInv,
     RestoredInv
<1>17. CASE CreateTarFile
  BY <1>17 DEF CreateTarFile, ModemStep, DumpTypeOK, ThreadInv, RestoredInv
<1>18. CASE Send
  BY <1>18 DEF Send, ModemStep, DumpTypeOK, ThreadInv, RestoredInv
<1>19. CASE RemoveDir
  BY <1>19 DEF RemoveDir, ModemStep, EmptiedDir, Unclean, DumpTypeOK,
     ThreadInv, RestoredInv
<1>20. CASE RemoveTar
  BY <1>20 DEF RemoveTar, ModemStep, Unclean, DumpTypeOK, ThreadInv,
     RestoredInv
<1>21. CASE DaemonStops
  BY <1>21 DEF DaemonStops, DumpTypeOK, ThreadInv, RestoredInv
<1>22. CASE DaemonStarts
  BY <1>22 DEF DaemonStarts, DumpTypeOK, ThreadInv, RestoredInv
<1>23. CASE Toggle
  BY <1>23 DEF Toggle, DumpTypeOK, ThreadInv, RestoredInv
<1>24. CASE Kill
  BY <1>24 DEF Kill, NoLogs, DumpTypeOK, ThreadInv, RestoredInv
<1> QED
  BY <1>1, <1>2, <1>3, <1>4, <1>5, <1>6, <1>7, <1>8, <1>9, <1>10, <1>11,
     <1>12, <1>13, <1>14, <1>15, <1>16, <1>17, <1>18, <1>19, <1>20, <1>21,
     <1>22, <1>23, <1>24 DEF DumpNext, BoardStep, ModemThread

\* What is sent is of this dump, if all dumps could remove their files.
LEMMA FilesStep ==
    ASSUME DumpTypeOK, ThreadInv, FilesInv, DumpNext
    PROVE  FilesInv'
<1>1. CASE Configure
  BY <1>1 DEF Configure, DumpTypeOK, ThreadInv, FilesInv, NoDir
<1>2. CASE DumpstateBoard
  BY <1>2 DEF DumpstateBoard, Forget, DumpTypeOK, ThreadInv, FilesInv, NoDir
<1>3. CASE CreateThread
  BY <1>3 DEF CreateThread, DumpTypeOK, ThreadInv, FilesInv, NoDir
<1>4. CASE ForceBusOwner
  BY <1>4 DEF ForceBusOwner, DumpTypeOK, ThreadInv, FilesInv, NoDir
<1>5. CASE RestoreBusOwner
  BY <1>5 DEF RestoreBusOwner, DumpTypeOK, ThreadInv, FilesInv, NoDir
<1>6. CASE JoinThread
  BY <1>6 DEF JoinThread, Joined, DumpTypeOK, ThreadInv, FilesInv, NoDir
<1>7. CASE Exit
  BY <1>7 DEF Exit, NoLogs, DumpTypeOK, ThreadInv, FilesInv, NoDir
<1>8. CASE ReadProperties
  BY <1>8 DEF ReadProperties, ModemStep, Aged, DumpTypeOK, ThreadInv,
     FilesInv, NoDir
<1>9. CASE StopDaemon
  BY <1>9 DEF StopDaemon, ModemStep, DumpTypeOK, ThreadInv, FilesInv, NoDir
<1>10. CASE AwaitDaemon
  BY <1>10 DEF AwaitDaemon, ModemStep, Stopped, MayTimeOut, DumpTypeOK,
     ThreadInv, FilesInv, NoDir
<1>11. CASE MakeDir
  BY <1>11 DEF MakeDir, ModemStep, ScanLogs, LastOf, DumpTypeOK, ThreadInv,
     FilesInv, NoDir
<1>12. CASE DumpLog
  BY <1>12 DEF DumpLog, ModemStep, Wanted, CountCopies, CopyFile, DumpTypeOK,
     ThreadInv, FilesInv, NoDir
<1>13. CASE RestartDaemon
  BY <1>13 DEF RestartDaemon, ModemStep, Restarts, NoLogs, DumpTypeOK,
     ThreadInv, FilesInv, NoDir
<1>14. CASE CopyPowerOnLog
  BY <1>14 DEF CopyPowerOnLog, ModemStep, CopyFile, DumpTypeOK, ThreadInv,
     FilesInv, NoDir
<1>15. CASE EfsDump("efs", "ril", TRUE)
  BY <1>15 DEF EfsDump, ModemStep, CopyFile, DumpTypeOK, ThreadInv, FilesInv,
     NoDir
<1>16. CASE EfsDump("ril", "tar", FALSE)
  BY <1>16 DEF EfsDump, ModemStep, CopyFile, DumpTypeOK, ThreadInv, FilesInv,
     NoDir
<1>17. CASE CreateTarFile
  BY <1>17 DEF CreateTarFile, ModemStep, DumpTypeOK, ThreadInv, FilesInv,
     NoDir
<1>18. CASE Send
  BY <1>18 DEF Send, ModemStep, DumpTypeOK, ThreadInv, FilesInv, NoDir
<1>19. CASE RemoveDir
  BY <1>19 DEF RemoveDir, ModemStep, EmptiedDir, Unclean, DumpTypeOK,
     ThreadInv, FilesInv, NoDir
<1>20. CASE RemoveTar
  BY <1>20 DEF RemoveTar, ModemStep, Unclean, DumpTypeOK, ThreadInv, FilesInv,
     NoDir
<1>21. CASE DaemonStops
  BY <1>21 DEF DaemonStops, DumpTypeOK, ThreadInv, FilesInv, NoDir
<1>22. CASE DaemonStarts
  BY <1>22 DEF DaemonStarts, DumpTypeOK, ThreadInv, FilesInv, NoDir
<1>23. CASE Toggle
  BY <1>23 DEF Toggle, DumpTypeOK, ThreadInv, FilesInv, NoDir
<1>24. CASE Kill
  BY <1>24 DEF Kill, NoLogs, DumpTypeOK, ThreadInv, FilesInv, NoDir
<1> QED
  BY <1>1, <1>2, <1>3, <1>4, <1>5, <1>6, <1>7, <1>8, <1>9, <1>10, <1>11,
     <1>12, <1>13, <1>14, <1>15, <1>16, <1>17, <1>18, <1>19, <1>20, <1>21,
     <1>22, <1>23, <1>24 DEF DumpNext, BoardStep, ModemThread

\* A name that is looked at counts if it is a log and within the limit.
LEMMA LogsFinite ==
    ASSUME DumpTypeOK, NEW k \in 0 .. Len(names)
    PROVE  IsFiniteSet(Logs(k)) /\ Cardinality(Logs(k)) \in Nat
<1>1. Logs(k) \subseteq k + 1 .. Len(names) /\ Len(names) \in Nat
  BY DEF Logs, DumpTypeOK
<1>2. IsFiniteSet(k + 1 .. Len(names))
  BY <1>1, FS_Interval
<1> QED
  BY <1>1, <1>2, FS_Subset, FS_CardinalityType

LEMMA LogsGrow ==
    ASSUME DumpTypeOK, logAt > 0
    PROVE  /\ Logs(logAt - 1) = IF names[logAt] = Prefix THEN Logs(logAt) \cup {logAt}
                                ELSE Logs(logAt)
           /\ Cardinality(Logs(logAt - 1)) =
                 IF names[logAt] = Prefix THEN Cardinality(Logs(logAt)) + 1
                 ELSE Cardinality(Logs(logAt))
<1>1. logAt \in 1 .. Len(names) /\ Len(names) \in Nat
  BY DEF DumpTypeOK
<1>2. Logs(logAt - 1) = IF names[logAt] = Prefix THEN Logs(logAt) \cup {logAt} ELSE Logs(logAt)
  BY <1>1 DEF Logs
<1>3. IsFiniteSet(Logs(logAt)) /\ logAt \notin Logs(logAt)
  BY <1>1, LogsFinite DEF Logs
<1> QED
  BY <1>2, <1>3, FS_AddElement

\* The newest logs are copied, and no more of them than the limit.
LEMMA CollectStep ==
    ASSUME DumpTypeOK, ThreadInv, CollectInv, DumpNext
    PROVE  CollectInv'
<1>1. CASE Configure
  BY <1>1 DEF Configure, CollectInv, Logs, InLimit
<1>2. CASE DumpstateBoard
  BY <1>2 DEF DumpstateBoard, Forget, CollectInv, Logs, InLimit
<1>3. CASE CreateThread
  BY <1>3 DEF CreateThread, CollectInv, Logs, InLimit
<1>4. CASE ForceBusOwner
  BY <1>4 DEF ForceBusOwner, CollectInv, Logs, InLimit
<1>5. CASE RestoreBusOwner
  BY <1>5 DEF RestoreBusOwner, CollectInv, Logs, InLimit
<1>6. CASE JoinThread
  BY <1>6 DEF JoinThread, Joined, CollectInv, Logs, InLimit
<1>7. CASE Exit
  BY <1>7 DEF Exit, NoLogs, CollectInv, Logs, InLimit
<1>8. CASE ReadProperties
  BY <1>8 DEF ReadProperties, ModemStep, Aged, CollectInv, Logs, InLimit
<1>9. CASE StopDaemon
  BY <1>9 DEF StopDaemon, ModemStep, CollectInv, Logs, InLimit
<1>10. CASE AwaitDaemon
  BY <1>10 DEF AwaitDaemon, ModemStep, Stopped, MayTimeOut, CollectInv, Logs,
     InLimit
<1>11. CASE MakeDir
  <2>1. CASE modemPc' # "collect"
    BY <2>1 DEF CollectInv
  <2>2. CASE modemPc' = "collect"
    <3>1. /\ names' \in Seq(STRING) /\ logAt' = Len(names') /\ maxFileNum' \in Nat \cup {-1}
          /\ copiedFiles' = 0 /\ copied' = {}
      BY <1>11, <2>2, DumpAssumption DEF MakeDir, ModemStep, ScanLogs, LastOf
    <3>2. Logs(logAt)' = {}
      BY <3>1 DEF Logs
    <3>3. Cardinality(Logs(logAt)') = 0
      BY <3>2, FS_EmptySet
    <3> QED
      BY <3>1, <3>2, <3>3 DEF CollectInv, InLimit
  <2> QED
    BY <2>1, <2>2
<1>12. CASE DumpLog
  <2>1. /\ modemPc = "collect" /\ logAt > 0 /\ logAt' = logAt - 1
        /\ names' = names /\ maxFileNum' = maxFileNum
        /\ copiedFiles' = CountCopies
        /\ copied' = IF Wanted THEN copied \cup {logAt} ELSE copied
    BY <1>12 DEF DumpLog, ModemStep
  <2>2. logAt \in 1 .. Len(names) /\ maxFileNum \in Nat \cup {-1}
    BY <2>1 DEF DumpTypeOK
  <2> DEFINE n == Cardinality(Logs(logAt))
  <2>3. n \in Nat
    BY <2>2, LogsFinite
  <2>4. /\ copied = {k \in Logs(logAt) : InLimit(Cardinality(Logs(k)))}
        /\ copiedFiles = IF InLimit(n) THEN n ELSE maxFileNum
    BY <2>1 DEF CollectInv
  <2>5. Wanted <=> names[logAt] = Prefix /\ InLimit(n)
    BY <2>2, <2>3, <2>4 DEF Wanted, InLimit
  <2>6. /\ Logs(logAt)' = Logs(logAt - 1)
        /\ \A k : Logs(k)' = Logs(k) /\ InLimit(k)' = InLimit(k)
    BY <2>1 DEF Logs, InLimit
  <2>7. copied' = {k \in Logs(logAt - 1) : InLimit(Cardinality(Logs(k)))}
    BY <2>1, <2>4, <2>5, LogsGrow
  <2>8. copiedFiles' = IF InLimit(Cardinality(Logs(logAt - 1)))
                       THEN Cardinality(Logs(logAt - 1)) ELSE maxFileNum
    BY <2>1, <2>2, <2>3, <2>4, <2>5, LogsGrow DEF CountCopies, InLimit
  <2>9. /\ copied' = {k \in Logs(logAt)' : InLimit(Cardinality(Logs(k)))'}
        /\ copiedFiles' = IF InLimit(Cardinality(Logs(logAt)))' THEN Cardinality(Logs(logAt))'
                          ELSE maxFileNum'
    BY <2>1, <2>6, <2>7, <2>8 DEF InLimit
  <2> QED
    BY <2>9 DEF CollectInv
<1>13. CASE RestartDaemon
  BY <1>13 DEF RestartDaemon, ModemStep, Restarts, NoLogs, CollectInv, Logs,
     InLimit
<1>14. CASE CopyPowerOnLog
  BY <1>14 DEF CopyPowerOnLog, ModemStep, CopyFile, CollectInv, Logs, InLimit
<1>15. CASE EfsDump("efs", "ril", TRUE)
  BY <1>15 DEF EfsDump, ModemStep, CopyFile, CollectInv, Logs, InLimit
<1>16. CASE EfsDump("ril", "tar", FALSE)
  BY <1>16 DEF EfsDump, ModemStep, CopyFile, CollectInv, Logs, InLimit
<1>17. CASE CreateTarFile
  BY <1>17 DEF CreateTarFile, ModemStep, CollectInv, Logs, InLimit
<1>18. CASE Send
  BY <1>18 DEF Send, ModemStep, CollectInv, Logs, InLimit
<1>19. CASE RemoveDir
  BY <1>19 DEF RemoveDir, ModemStep, EmptiedDir, Unclean, CollectInv, Logs,
     InLimit
<1>20. CASE RemoveTar
  BY <1>20 DEF RemoveTar, ModemStep, Unclean, CollectInv, Logs, InLimit
<1>21. CASE DaemonStops
  BY <1>21 DEF DaemonStops, CollectInv, Logs, InLimit
<1>22. CASE DaemonStarts
  BY <1>22 DEF DaemonStarts, CollectInv, Logs, InLimit
<1>23. CASE Toggle
  BY <1>23 DEF Toggle, CollectInv, Logs, InLimit
<1>24. CASE Kill
  BY <1>24 DEF Kill, NoLogs, CollectInv, Logs, InLimit
<1> QED
  BY <1>1, <1>2, <1>3, <1>4, <1>5, <1>6, <1>7, <1>8, <1>9, <1>10, <1>11,
     <1>12, <1>13, <1>14, <1>15, <1>16, <1>17, <1>18, <1>19, <1>20, <1>21,
     <1>22, <1>23, <1>24 DEF DumpNext, BoardStep, ModemThread

-----------------------------------------------------------------------------
(* The invariant and what follows from it.                                  *)

LEMMA DumpInitIInv ==
    ASSUME DumpInit
    PROVE  DumpIInv
<1>1. DumpTypeOK
  <2>1. PcTypes /\ PropTypes /\ FileTypes
    BY DEF DumpInit, PcTypes, PropTypes, FileTypes, NoDir
  <2>2. LogTypes
    BY DEF DumpInit, LogTypes
  <2>3. history \in Histories
    BY DEF DumpInit, Histories
  <2> QED
    BY <2>1, <2>2, <2>3 DEF DumpTypeOK, PcTypes, PropTypes, LogTypes, FileTypes, Histories
<1>2. ThreadInv /\ DaemonInv /\ RestoredInv /\ CollectInv /\ FilesInv
  BY DEF DumpInit, ThreadInv, DaemonInv, RestoredInv, CollectInv, FilesInv, NoDir, Pausing
<1> QED
  BY <1>1, <1>2 DEF DumpIInv

LEMMA DumpStutter ==
    ASSUME DumpIInv, UNCHANGED dumpVars
    PROVE  DumpIInv'
  BY DEF dumpVars, DumpIInv, DumpTypeOK, ThreadInv, DaemonInv, RestoredInv, CollectInv,
         Logs, InLimit, FilesInv

\* Dumps, the daemon and whoever else sets its property keep the invariant,
\* wherever a dump is killed.
THEOREM DumpInvariance == DumpSpec => []DumpIInv
<1>1. DumpInit => DumpIInv
  BY DumpInitIInv
<1>2. DumpIInv /\ [DumpNext]_dumpVars => DumpIInv'
  <2> SUFFICES ASSUME DumpIInv, DumpNext
               PROVE  DumpIInv'
    BY DumpStutter
  <2>1. DumpTypeOK' /\ ThreadInv' /\ DaemonInv'
    BY DumpTypeStep, ThreadStep, DaemonStep DEF DumpIInv
  <2>2. RestoredInv' /\ CollectInv' /\ FilesInv'
    BY RestoredStep, CollectStep, FilesStep DEF DumpIInv
  <2> QED
    BY <2>1, <2>2 DEF DumpIInv
<1> QED
  BY <1>1, <1>2, PTL DEF DumpSpec

\* A dump that was not killed asks the daemon it stopped to run again, ends the
\* EFS dump and gives the touch controller its bus back.
THEOREM DumpLeavesAsFound == DumpSpec => []LeavesAsFound
<1>1. ASSUME DumpIInv, dumpPc = "none", ~ history.killed
      PROVE  /\ history.wasOn => request \/ history.toggled
             /\ efsdump => history.efsWas
             /\ apOwnsBus => history.busWas \/ history.refused
  <2>1. modemPc = "none"
    BY <1>1 DEF DumpIInv, ThreadInv
  <2>2. ~ started
    BY <1>1, <2>1 DEF DumpIInv, DaemonInv, Pausing
  <2> QED
    BY <1>1, <2>1, <2>2 DEF DumpIInv, DaemonInv, RestoredInv
<1>2. DumpIInv => LeavesAsFound
  BY <1>1 DEF LeavesAsFound
<1> QED
  BY <1>2, DumpInvariance, PTL

\* What is sent are the newest logs, as many as asked for, closed before they
\* were copied, and nothing that an earlier dump has left.
THEOREM DumpSendsItsLogs == DumpSpec => []SendsItsLogs
<1>1. ASSUME DumpIInv
      PROVE  SendsItsLogs
  <2>1. CollectsClosedLogs
    BY <1>1 DEF DumpIInv, DaemonInv, Pausing, CollectsClosedLogs
  <2>2. SendsThisDump
    BY <1>1 DEF DumpIInv, FilesInv, SendsThisDump
  <2>3. ASSUME modemPc = "collect", logAt = 0
        PROVE  copied = {k \in DOMAIN names :
                           /\ names[k] = Prefix
                           /\ \/ maxFileNum = -1
                              \/ Cardinality({m \in k + 1 .. Len(names) : names[m] = Prefix})
                                    < maxFileNum}
    <3>1. copied = {k \in Logs(0) : InLimit(Cardinality(Logs(k)))}
      BY <1>1, <2>3 DEF DumpIInv, CollectInv
    <3>2. DOMAIN names = 1 .. Len(names)
      BY <1>1 DEF DumpIInv, DumpTypeOK
    <3>3. Logs(0) = {k \in DOMAIN names : names[k] = Prefix}
      BY <3>2 DEF Logs
    <3> QED
      BY <3>1, <3>3 DEF Logs, InLimit
  <2> QED
    BY <2>1, <2>2, <2>3 DEF SendsItsLogs, CollectsNewest
<1> QED
  BY <1>1, DumpInvariance, PTL

-----------------------------------------------------------------------------
(* Both: neither moves the other's variables, so what is proved of each     *)
(* alone holds beside the other.                                            *)

LEMMA EachBeside == ServicesSpec => RailSpec /\ DumpSpec
<1>1. ServicesInit => RailInit /\ DumpInit
  BY DEF ServicesInit
<1>2. [ServicesNext]_<<service, railVars, dumpVars>> =>
         [RailNext]_railVars /\ [DumpNext]_dumpVars
  BY DEF ServicesNext
<1> QED
  BY <1>1, <1>2, PTL DEF ServicesSpec, RailSpec, DumpSpec

\* Every variable of either part has its type, whatever the other part does.
THEOREM ServicesTypeCorrect == ServicesSpec => []ServicesTypeOK
<1>1. RailIInv /\ DumpIInv => ServicesTypeOK
  BY DEF RailIInv, DumpIInv, ServicesTypeOK
<1> QED
  BY <1>1, EachBeside, RailInvariance, DumpInvariance, PTL
=============================================================================
