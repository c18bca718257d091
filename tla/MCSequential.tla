---------------------------- MODULE MCSequential ----------------------------
(***************************************************************************)
(* An instance of each part that runs alone, in one thread.  The parts     *)
(* share no state and call nothing of each other, so a run explores them   *)
(* one at a time: part says which one moves, and the others stay in one of *)
(* their initial states.                                                   *)
(***************************************************************************)
EXTENDS GptDisk, GptSwap, BootSequence, EuiccDisabler, Vibrator, LinkHash, JsonObject, JsonTokener

\* GptSwap: a part of PTN_SWAP_LIST, in its order; vbmeta is a prefix of its
\* successor.  Every order of up to five different entries.
NameParts == {"xbl", "vbmeta", "_system", "boot", "bak"}
Listed    == <<Xbl, <<"vbmeta">>, <<"vbmeta", "_system">>>>
Entries   == UNION {{n, Append(n, "bak")} : n \in Range(Listed)} \cup {<<"boot">>}
Shuffled  == UNION {{a \in [1 .. n -> Entries] : IsInjective(a)} : n \in 0 .. 5}

\* Vibrator: a calibration of the short kind, one with constants only and one
\* with a table of levels.
Calibration(dynamic, amplitude, levels) ==
    [dynamic |-> dynamic, closeLoopThreshold |-> 20, lraPeriod |-> 262, shift |-> 10,
     shortVoltageMax |-> 161, longVoltageMax |-> 161, ampMax |-> amplitude, levels |-> levels,
     effectShape |-> 0, steadyShape |-> 1,
     duration |-> [e \in Effects |-> IF e = "DOUBLE_CLICK" THEN 144 ELSE 6]]
Devices == {Calibration(FALSE, 0, <<>>), Calibration(TRUE, 0, <<>>),
            Calibration(TRUE, 3000, <<30, 50, 80, 120, 170>>)}

\* JsonTokener: every kind of value, alone and in arrays and objects, and the
\* values these are made of.
Double(s) == <<"double", s>>
ArrayOf(s) == <<"array", s>>
ObjectOf(s) == <<"object", s>>
Text(s) == <<"string", s>>
Integer(s) == <<"int", s>>
NegInf == Double(<<"-", "Inf">>)
Whole ==
    {NullValue, <<"boolean", <<"true">>>>, Double(<<"NaN">>), NegInf,
     Double(<<"0", ".", "1">>), Integer(<<"-", "1", "0">>), Text(<<>>),
     Text(<<"a", "\"", "\\">>), Text(<<"ctl", "\n", "pair">>), ArrayOf(<<>>), ObjectOf(<<>>),
     ArrayOf(<<NullValue, ArrayOf(<<Integer(<<"1">>)>>)>>),
     ArrayOf(<<NegInf, Text(<<"\n", "pair">>)>>),
     ArrayOf(<<NullValue, NegInf>>),
     ObjectOf(<< <<<<"a">>, Double(<<"NaN">>)>>, <<<<"\"">>, ArrayOf(<<>>)>> >>),
     ObjectOf(<< <<<<>>, ObjectOf(<< <<<<"a">>, NullValue>> >>)>> >>)}
Members(v) ==
    IF v[1] = "array" THEN Range(v[2])
    ELSE IF v[1] = "object" THEN {m[2] : m \in Range(v[2])} ELSE {}
WithMembers(S) == S \cup UNION {Members(v) : v \in S}
Documents == WithMembers(WithMembers(Whole))

\* Texts that are no output of json_object.c, and what is left of them when
\* one character is lost.
Sources ==
    { <<"[", "0", "1", ",", "]", " ", "n">>,
      <<"{", "'", "a", "'", ":", "[", "1", "]", ",", "\"", "a", "\"", ":", "-", "i", "y", ",", "}">>,
      <<"[", "\"", "\\", "u", "hi", "\\", "u", "lo", "\\", "u", "hi", "\"", "]", "1", "/", "/", "\n">>,
      <<"\"", "\\", "u", "lo", "\\", "u", "hi", "\\", "u", "hi", "\\", "u", "hx", "\"">>,
      <<"[", "/", "*", "a", "*", "/", "t", "e", ",", "-", "I", "y", "]", "-", "I", "y", " ">>,
      <<"[", "[", "[", "1", "]", "]", "]">>,
      <<"[", "1", "/", "*", Nul>>, <<"-", "1", "0", "i">>, <<Nul>> }
Without(s, k) == SubSeq(s, 1, k - 1) \o SubSeq(s, k + 1, Len(s))
Broken == Sources \cup UNION {{Without(s, k) : k \in DOMAIN s} : s \in Sources}

\* The addresses of nodes are compared for equality only.
Addresses == Permutations(Nodes)

VARIABLE part

SequentialInit ==
    /\ part \in {"disk", "swap", "boot", "euicc", "vibrator", "hash", "object", "tokener"}
    /\ DiskInit /\ BootInit /\ EuiccInit /\ VibInit /\ JsonInit
    /\ SwapInit /\ (part = "swap" \/ original = <<>>)
    /\ HashInit /\ (part = "hash" \/ hash = [k \in Keys |-> 0])
    /\ TokInit /\ (part = "tokener" \/ (text = <<Nul>> /\ ~ tok.strict))

SequentialNext ==
    /\ UNCHANGED part
    /\ part # "disk"     => UNCHANGED diskVars
    /\ part # "swap"     => UNCHANGED swapVars
    /\ part # "boot"     => UNCHANGED bootVars
    /\ part # "euicc"    => UNCHANGED euiccVars
    /\ part # "vibrator" => UNCHANGED vibVars
    /\ part # "hash"     => UNCHANGED hashVars
    /\ part # "object"   => UNCHANGED jsonVars
    /\ part # "tokener"  => UNCHANGED tokVars
    /\ \/ part = "disk" /\ DiskNext
       \/ part = "swap" /\ SwapNext
       \/ part = "boot" /\ BootNext
       \/ part = "euicc" /\ EuiccNext
       \/ part = "vibrator" /\ VibNext
       \/ part = "hash" /\ HashNext
       \/ part = "object" /\ JsonNext
       \/ part = "tokener" /\ TokNext

SequentialVars == <<part, diskVars, swapVars, bootVars, euiccVars, vibVars, hashVars, jsonVars, tokVars>>
SequentialSpec == SequentialInit /\ [][SequentialNext]_SequentialVars

\* Every variable of every part has its type.
SequentialTypeOK ==
    /\ DiskTypeOK /\ SwapTypeOK /\ BootTypeOK /\ EuiccTypeOK /\ VibTypeOK
    /\ HashTypeOK /\ JsonTypeOK /\ TokTypeOK

\* What a boot leaves behind is whole and current, what it tells is true, and
\* the packages of the eUICC follow what they depend on.
BootCorrect == CompleteMeansCurrent /\ CheckedMeansWhole /\ EuiccFollows
=============================================================================
