------------------------------ MODULE RailStream ------------------------------
(***************************************************************************)
(* powerstats/RailDataProvider.cpp: the discovery of the power monitors    *)
(* and their rails, the three calls of the one binder thread, and the      *)
(* detached thread that feeds an energy stream.                            *)
(*                                                                         *)
(* A power monitor writes its readings into a file; one call of            *)
(* parseIioEnergyNodes, a pass, reads the files of all monitors.  A        *)
(* reading is what the last pass that reached it left there, so all that   *)
(* is kept of it is whether the pass that is under way has written it:     *)
(* the set fresh.  The queue is the number of samples in it.               *)
(***************************************************************************)
EXTENDS Integers, Sequences

CONSTANTS
    Devices,       \* iio devices; some are power monitors
    RailsOf,       \* the lines of enabled_rails of each, a sequence of names
    Threads,       \* poll threads that may exist at the same time
    Binder,        \* the binder thread
    Nobody,        \* no thread
    MaxRate,       \* MAX_SAMPLING_RATE
    SecondMs,      \* milliseconds in a second
    Word,          \* 2^32: the values of an uint32_t
    QueueSamples,  \* samples MAX_QUEUE_SIZE has room for
    Times, Rates,  \* arguments of streamEnergyData
    IndexLists     \* arguments of getEnergyData

Actors == Threads \cup {Binder}
RailNames(d) == {RailsOf[d][k] : k \in DOMAIN RailsOf[d]}
Names == UNION {RailNames(d) : d \in Devices}

\* The kernel gives no two rails of the device the same name.
ASSUME RailAssumption ==
    /\ \A d \in Devices : RailsOf[d] \in Seq(Names)
    /\ \A d, e \in Devices : \A j \in DOMAIN RailsOf[d], k \in DOMAIN RailsOf[e] :
          RailsOf[d][j] = RailsOf[e][k] => d = e /\ j = k
    /\ Binder \notin Threads /\ Nobody \notin Actors
    /\ MaxRate \in Nat \ {0} /\ SecondMs \in Nat \ {0}
    /\ Word \in Nat \ {0} /\ QueueSamples \in Nat \ {0}
    /\ Times \subseteq Nat /\ Rates \subseteq Nat
    /\ IndexLists \subseteq Seq(Nat)

Requests == [op : {"info"}]
       \cup [op : {"energy"}, indices : IndexLists]
       \cup [op : {"stream"}, timeMs : Times, rate : Rates]

VARIABLES
    pc,            \* where each thread is
    entries,       \* entries of the iio directory that are not read yet
    devicePaths,   \* mOdpm.devicePaths
    railsInfo,     \* mOdpm.railsInfo: the index of each rail found
    at, line,      \* parsePowerRails: the path and the line it is at
    numRails,      \* its index, in the end the size of mOdpm.reading
    hwEnabled,     \* mOdpm.hwEnabled
    owner,         \* who holds mOdpm.mLock
    req, status,   \* the call of the binder thread, and how it was answered
    pos,           \* how many files each thread has read in its pass
    fresh,         \* indices read in the pass begun last
    blank,         \* history: a file of that pass had no timestamp line
    fmq,           \* mOdpm.fmqSynchronized, as the thread that feeds it
    queue,         \* samples in it
    told,          \* numSamples of the stream of each thread
    count          \* currSamples of each thread

found    == <<entries, devicePaths, railsInfo, at, line, numRails, hwEnabled>>
pass     == <<pos, fresh, blank>>
stream   == <<fmq, queue, told, count>>
railVars == <<pc, found, owner, req, status, pass, stream>>

Least(a, b) == IF a < b THEN a ELSE b

\* Bug: the time is cut to whole seconds first.
NumSamplesOfSeconds(timeMs, rate) == (timeMs \div SecondMs) * Least(rate, MaxRate)
NumSamples(timeMs, rate) == ((timeMs * Least(rate, MaxRate)) % Word) \div SecondMs

RailInit ==
    /\ pc = [a \in Actors |-> IF a = Binder THEN "off" ELSE "none"]
    /\ entries = Devices /\ devicePaths = <<>>
    /\ railsInfo = [r \in {} |-> 0]
    /\ at = 1 /\ line = 1 /\ numRails = 0 /\ hwEnabled = FALSE
    /\ owner = Nobody
    /\ req = [op |-> "info"] /\ status = "NONE"
    /\ pos = [a \in Actors |-> 0] /\ fresh = {} /\ blank = FALSE
    /\ fmq = Nobody /\ queue = 0
    /\ told = [t \in Threads |-> 0] /\ count = [t \in Threads |-> 0]

Goes(a, l) == pc' = [pc EXCEPT ![a] = l]

-----------------------------------------------------------------------------
(* The constructor.                                                         *)

\* init starts the service, which begins with its constructor.
StartService ==
    /\ pc[Binder] = "off"
    /\ Goes(Binder, "find")
    /\ UNCHANGED <<found, owner, req, status, pass, stream>>

\* findIioPowerMonitorNodes: an entry whose name cannot be read, or is not
\* that of a power monitor, is passed over.
FindNode ==
    /\ pc[Binder] = "find"
    /\ \E d \in entries :
          /\ entries' = entries \ {d}
          /\ devicePaths' \in {devicePaths, Append(devicePaths, d)}
    /\ UNCHANGED <<pc, railsInfo, at, line, numRails, hwEnabled, owner, req,
                   status, pass, stream>>

\* The directory ends, cannot be opened, or cannot be read further.
FoundNodes ==
    /\ pc[Binder] = "find"
    /\ entries' = {}
    /\ Goes(Binder, "rails")
    /\ UNCHANGED <<devicePaths, railsInfo, at, line, numRails, hwEnabled, owner,
                   req, status, pass, stream>>

Path == devicePaths[at]

\* A line of enabled_rails, which may have an unexpected format.
\* Bug: a line of an unexpected format uses up an index.
IndexAfter(ok) == numRails + 1
NextIndex(ok) == IF ok THEN numRails + 1 ELSE numRails
ParseLine ==
    /\ pc[Binder] = "rails"
    /\ at <= Len(devicePaths)
    /\ line <= Len(RailsOf[Path])
    /\ \E ok \in BOOLEAN :
          LET r == RailsOf[Path][line]
          IN  /\ railsInfo' =
                   IF ok THEN [s \in DOMAIN railsInfo \cup {r} |->
                                 IF s \in DOMAIN railsInfo THEN railsInfo[s]
                                                           ELSE numRails]
                         ELSE railsInfo
              /\ numRails' = NextIndex(ok)
    /\ line' = line + 1
    /\ UNCHANGED <<pc, entries, devicePaths, at, hwEnabled, owner, req, status,
                   pass, stream>>

\* On to the next path: behind the last line, or before the first one because
\* one of the two files could not be read.
NextPath ==
    /\ pc[Binder] = "rails"
    /\ at <= Len(devicePaths)
    /\ line = 1 \/ line > Len(RailsOf[Path])
    /\ at' = at + 1 /\ line' = 1
    /\ UNCHANGED <<pc, entries, devicePaths, railsInfo, numRails, hwEnabled,
                   owner, req, status, pass, stream>>

\* All paths are done, or the sampling rate of one makes no sense.
ParsedRails ==
    /\ pc[Binder] = "rails"
    /\ at > Len(devicePaths) \/ line = 1
    /\ hwEnabled' = (devicePaths # <<>> /\ numRails # 0)
    /\ Goes(Binder, "idle")
    /\ UNCHANGED <<entries, devicePaths, railsInfo, at, line, numRails, owner,
                   req, status, pass, stream>>

-----------------------------------------------------------------------------
(* A pass over the files of all monitors.                                   *)

\* Bug: the pass is made without the mutex.
TakesNothing(a) == owner' = owner
Takes(a) == owner = Nobody /\ owner' = a

BeginPass(a) ==
    /\ Goes(a, "pass")
    /\ pos' = [pos EXCEPT ![a] = 0]
    /\ fresh' = {} /\ blank' = FALSE

\* The mutex is released; what was read is not looked at any more.
EndPass(a) ==
    /\ owner' = Nobody
    /\ pos' = [pos EXCEPT ![a] = 0]
    /\ fresh' = {} /\ blank' = FALSE

Answers(s) == Goes(Binder, "idle") /\ status' = s

\* Who made the pass goes on with what was read, or without it.
PassDone(a) ==
    /\ Goes(a, IF a = Binder THEN "answer" ELSE "write")
    /\ UNCHANGED <<owner, status>>
PassFailed(a) ==
    /\ \/ a = Binder /\ Answers("FILESYSTEM_ERROR")
       \/ a \in Threads /\ Goes(a, "end") /\ UNCHANGED status

\* parseIioEnergyNode read a file to its end.  Lines before the timestamp are
\* passed over, so a file without one changes nothing and counts as read.
LastFile(a) == pos[a] + 1 = Len(devicePaths)
ParseNode(a) ==
    /\ pc[a] = "pass"
    /\ LET read == RailNames(devicePaths[pos[a] + 1]) \cap DOMAIN railsInfo
       IN  \/ /\ fresh' = fresh \cup {railsInfo[r] : r \in read}
              /\ UNCHANGED blank
           \/ blank' = TRUE /\ UNCHANGED fresh
    /\ pos' = [pos EXCEPT ![a] = @ + 1]
    /\ IF LastFile(a) THEN PassDone(a) ELSE UNCHANGED <<pc, owner, status>>
    /\ UNCHANGED <<found, req, stream>>

\* The file could not be read, or only as far as a line of unexpected format.
ParseNodeFails(a) ==
    /\ pc[a] = "pass"
    /\ PassFailed(a)
    /\ EndPass(a)
    /\ UNCHANGED <<found, req, stream>>

-----------------------------------------------------------------------------
(* The calls of the binder thread.                                          *)

Call ==
    /\ pc[Binder] = "idle"
    /\ req' \in Requests
    /\ status' = "NONE"
    /\ Goes(Binder, "call")
    /\ UNCHANGED <<found, owner, pass, stream>>

\* A call that ends where it took the mutex leaves it free.
Calls(op) == pc[Binder] = "call" /\ req.op = op /\ owner = Nobody

GetRailInfo ==
    /\ Calls("info")
    /\ Answers(IF hwEnabled THEN "SUCCESS" ELSE "NOT_SUPPORTED")
    /\ UNCHANGED <<found, owner, req, pass, stream>>

EnergyNotSupported ==
    /\ Calls("energy")
    /\ ~ hwEnabled
    /\ Answers("NOT_SUPPORTED")
    /\ UNCHANGED <<found, owner, req, pass, stream>>

GetEnergyData ==
    /\ Calls("energy")
    /\ hwEnabled
    /\ owner' = Binder
    /\ BeginPass(Binder)
    /\ UNCHANGED <<found, req, status, stream>>

AnswerEnergy ==
    /\ pc[Binder] = "answer"
    /\ Answers(IF \E k \in DOMAIN req.indices : req.indices[k] >= numRails
               THEN "INVALID_INPUT" ELSE "SUCCESS")
    /\ EndPass(Binder)
    /\ UNCHANGED <<found, req, stream>>

\* There is a stream already, or no memory for the queue.
StreamRefused ==
    /\ Calls("stream")
    /\ Answers("INSUFFICIENT_RESOURCES")
    /\ UNCHANGED <<found, owner, req, pass, stream>>

\* Bug: a running stream is replaced.
AnyStream == TRUE
NoStream == fmq = Nobody
StreamEnergyData ==
    /\ Calls("stream")
    /\ NoStream
    /\ \E t \in Threads :
          /\ pc[t] = "none"
          /\ pc' = [pc EXCEPT ![t] = "loop", ![Binder] = "idle"]
          /\ fmq' = t
          /\ told' = [told EXCEPT ![t] = NumSamples(req.timeMs, req.rate)]
    /\ queue' = 0
    /\ status' = "SUCCESS"
    /\ UNCHANGED <<found, owner, req, pass, count>>

-----------------------------------------------------------------------------
(* The poll thread.                                                         *)

BeginSample(t) ==
    /\ pc[t] = "loop"
    /\ count[t] < told[t]
    /\ hwEnabled
    /\ Takes(t)
    /\ BeginPass(t)
    /\ UNCHANGED <<found, req, status, stream>>

\* parseIioEnergyNodes reports NOT_SUPPORTED.
SampleNotSupported(t) ==
    /\ pc[t] = "loop"
    /\ count[t] < told[t]
    /\ ~ hwEnabled
    /\ owner = Nobody
    /\ Goes(t, "end")
    /\ UNCHANGED <<found, owner, req, status, pass, stream>>

\* Bug: only a sample that was written counts.
CountIfWritten(t, ok) == IF ok THEN count[t] + 1 ELSE count[t]
CountAfter(t, ok) == count[t] + 1
Sampled(t, ok) ==
    /\ count' = [count EXCEPT ![t] = CountAfter(t, ok)]
    /\ Goes(t, "sleep")
    /\ EndPass(t)

\* writeBlocking finds room, or waits for it in vain: nothing else is done
\* meanwhile, as the thread holds the mutex.
\* Bug: the oldest sample is not waited for.
RoomAssumed == TRUE
HasRoom == queue < QueueSamples
Write(t) ==
    /\ pc[t] = "write"
    /\ HasRoom
    /\ queue' = queue + 1
    /\ Sampled(t, TRUE)
    /\ UNCHANGED <<found, req, status, fmq, told>>

\* Bug: the write waits for ever.
NeverTimesOut == FALSE
TimesOut == queue = QueueSamples
WriteTimesOut(t) ==
    /\ pc[t] = "write"
    /\ TimesOut
    /\ Sampled(t, FALSE)
    /\ UNCHANGED <<found, req, status, fmq, queue, told>>

\* usleep ends, or is interrupted.
Sleep(t) ==
    /\ pc[t] = "sleep"
    /\ Goes(t, "loop") \/ Goes(t, "end")
    /\ UNCHANGED <<found, owner, req, status, pass, stream>>

LeaveLoop(t) ==
    /\ pc[t] = "loop"
    /\ count[t] >= told[t]
    /\ Goes(t, "end")
    /\ UNCHANGED <<found, owner, req, status, pass, stream>>

Released(t) == Nobody
Release(t) ==
    /\ pc[t] = "end"
    /\ owner = Nobody
    /\ fmq' = Released(t)
    /\ told' = [told EXCEPT ![t] = 0]
    /\ count' = [count EXCEPT ![t] = 0]
    /\ Goes(t, "none")
    /\ UNCHANGED <<found, owner, req, status, pass, queue>>

\* The client (external) reads a sample, if it wants to.
ReadSample ==
    /\ queue > 0
    /\ queue' = queue - 1
    /\ UNCHANGED <<pc, found, owner, req, status, pass, fmq, told, count>>

BinderStep ==
    \/ FindNode \/ FoundNodes \/ ParseLine \/ NextPath \/ ParsedRails
    \/ GetRailInfo \/ EnergyNotSupported \/ GetEnergyData \/ AnswerEnergy
    \/ StreamRefused \/ StreamEnergyData
    \/ ParseNode(Binder) \/ ParseNodeFails(Binder)

PollStep(t) ==
    \/ BeginSample(t) \/ SampleNotSupported(t) \/ ParseNode(t) \/ ParseNodeFails(t)
    \/ Write(t) \/ WriteTimesOut(t) \/ Sleep(t) \/ LeaveLoop(t) \/ Release(t)

RailNext ==
    \/ StartService \/ Call \/ ReadSample
    \/ BinderStep
    \/ \E t \in Threads : PollStep(t)

RailSpec == RailInit /\ [][RailNext]_railVars

\* A thread runs on and gets a mutex that is free again and again: the poll
\* thread sleeps without it between two samples.  Nobody has to call, or to
\* read samples.
RailFairness ==
    /\ SF_railVars(BinderStep)
    /\ \A t \in Threads : SF_railVars(PollStep(t))

-----------------------------------------------------------------------------
(* Properties.                                                              *)

\* Every variable has its type.
RailTypeOK ==
    /\ pc \in [Actors -> {"off", "find", "rails", "idle", "call", "answer",
                          "none", "loop", "pass", "write", "sleep", "end"}]
    /\ pc[Binder] \in {"off", "find", "rails", "idle", "call", "pass", "answer"}
    /\ \A t \in Threads : pc[t] \in {"none", "loop", "pass", "write", "sleep", "end"}
    /\ entries \subseteq Devices /\ devicePaths \in Seq(Devices)
    /\ railsInfo \in [DOMAIN railsInfo -> Nat] /\ DOMAIN railsInfo \subseteq Names
    /\ at \in 1 .. Len(devicePaths) + 1 /\ line \in Nat \ {0}
    /\ numRails \in Nat /\ hwEnabled \in BOOLEAN
    /\ owner \in Actors \cup {Nobody}
    /\ req \in Requests
    /\ status \in {"NONE", "SUCCESS", "NOT_SUPPORTED", "FILESYSTEM_ERROR",
                   "INVALID_INPUT", "INSUFFICIENT_RESOURCES"}
    /\ pos \in [Actors -> Nat] /\ fresh \subseteq Nat /\ blank \in BOOLEAN
    /\ fmq \in Threads \cup {Nobody} /\ queue \in 0 .. QueueSamples
    /\ told \in [Threads -> Nat] /\ count \in [Threads -> Nat]

\* The index of every rail is that of a reading, and every reading is that of
\* one rail: getRailInfo fills in rInfo[index] for as many entries as there
\* are names, getEnergyData copies as many readings into as many entries.
ReadingsAreNamed ==
    hwEnabled =>
        /\ \A r \in DOMAIN railsInfo : railsInfo[r] \in 0 .. numRails - 1
        /\ \A r, s \in DOMAIN railsInfo : railsInfo[r] = railsInfo[s] => r = s
        /\ \A i \in 0 .. numRails - 1 : \E r \in DOMAIN railsInfo : railsInfo[r] = i

\* What getEnergyData is about to answer, and what the poll thread is about to
\* write, was read in one pass, by that thread, unless a monitor said nothing.
SamplesAreWhole ==
    \A a \in Actors :
        pc[a] \in {"answer", "write"} => blank \/ fresh = 0 .. numRails - 1

\* A poll thread lives exactly as long as the stream it feeds, whatever ends
\* it: no stream has two feeders, and none stays without.
OneFeeder == \A t \in Threads : pc[t] # "none" <=> fmq = t

\* The samples the client is told of are those its time has room for, except
\* where the product does not fit 32 bits: then they are fewer.
TellsAsAsked ==
    pc[Binder] = "idle" /\ req.op = "stream" /\ status = "SUCCESS" =>
        \A t \in Threads :
            fmq = t /\ count[t] = 0 =>
                LET product == req.timeMs * Least(req.rate, MaxRate)
                IN  IF product < Word
                    THEN told[t] * SecondMs <= product /\ product < (told[t] + 1) * SecondMs
                    ELSE told[t] * SecondMs < product

\* A stream ends, also if its client reads nothing.
StreamEnds == \A t \in Threads : fmq = t ~> fmq # t

\* A call gets its answer, also while a stream runs.
CallEnds == pc[Binder] = "call" ~> pc[Binder] = "idle"

\* Every stream that was handed out is fed as it was promised: by one thread,
\* and as many samples as were told.
StreamsAsAsked == OneFeeder /\ TellsAsAsked

\* Neither a stream nor a call goes on for ever.
RailsEnd == StreamEnds /\ CallEnds
=============================================================================
