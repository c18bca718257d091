------------------------- MODULE JsonTokenerProofs -------------------------
(***************************************************************************)
(* The safety properties of json_tokener_parse_ex, for every text, every   *)
(* way to cut it into pieces, every max_depth and either mode: the types,  *)
(* the end of every loop, that a value is returned only at the top, and    *)
(* that a text in pieces is parsed as one.                                 *)
(*                                                                         *)
(* The argument of the last: two tokeners go through the same text, t in   *)
(* pieces and x at once.  Step by step they agree on the fields that are   *)
(* read before they are written again (InStep), a number being known to    *)
(* start where its characters do (Numerals), as long as the cut is not one *)
(* that spoils a value (Seamless).                                         *)
(***************************************************************************)
EXTENDS JsonTokener, SequenceTheorems, FiniteSetTheorems, WellFoundedInduction, TLAPS

-----------------------------------------------------------------------------
(* The fields of a tokener, and what the helpers of the switch do to them.  *)

\* What is a string for the provers, which do not know it of a literal.
Chars == STRING \cup {"\n", "rep", "pair", "ctl"}

\* A tokener, and a level of it, from their fields.
Rec(lv, d, e, pb, p, q, st, o, h, cl, ob, u) ==
    [level |-> lv, depth |-> d, err |-> e, pb |-> pb, pos |-> p, quote |-> q, strict |-> st,
     offset |-> o, hi |-> h, caseLen |-> cl, obj |-> ob, out |-> u]

Lev(s, sv, cur, nm) == [state |-> s, saved |-> sv, current |-> cur, name |-> nm]

IsLevel(l) == l = Lev(l.state, l.saved, l.current, l.name)
Levels(lv) == lv = [x \in 0 .. MaxDepth |-> lv[x]] /\ \A x \in 0 .. MaxDepth : IsLevel(lv[x])
IsTok(t) ==
    /\ t = Rec(t.level, t.depth, t.err, t.pb, t.pos, t.quote, t.strict, t.offset, t.hi,
               t.caseLen, t.obj, t.out)
    /\ t.depth \in 0 .. MaxDepth - 1 /\ t.pb \in Seq(Chars)
    /\ t.pos \in Nat /\ t.offset \in Nat /\ t.caseLen \in Nat /\ Levels(t.level)

\* x is a tokener with these fields.
Has(x, lv, d, e, pb, p, q, st, o, h, cl, ob, u) ==
    /\ IsTok(x) /\ x.level = lv /\ x.depth = d /\ x.err = e /\ x.pb = pb /\ x.pos = p /\ x.quote = q
    /\ x.strict = st /\ x.offset = o /\ x.hi = h /\ x.caseLen = cl /\ x.obj = ob /\ x.out = u

Yes == TRUE
No == FALSE
LevelWith(lv, d, l) == [lv EXCEPT ![d] = l]
HasTop(x, t, s, sv, cur, nm) ==
    /\ Has(x, LevelWith(t.level, t.depth, Lev(s, sv, cur, nm)), t.depth, t.err, t.pb, t.pos, t.quote,
           t.strict, t.offset, t.hi, t.caseLen, t.obj, t.out)
    /\ Top(x) = Lev(s, sv, cur, nm)
    /\ Top(x).state = s /\ Top(x).saved = sv /\ Top(x).current = cur /\ Top(x).name = nm

LEMMA RecFields ==
    ASSUME NEW lv, NEW d, NEW e, NEW pb, NEW p, NEW q, NEW st, NEW o, NEW h, NEW cl, NEW ob, NEW u,
           NEW r, r = Rec(lv, d, e, pb, p, q, st, o, h, cl, ob, u)
    PROVE  /\ r.level = lv /\ r.depth = d /\ r.err = e /\ r.pb = pb /\ r.pos = p /\ r.quote = q
           /\ r.strict = st /\ r.offset = o /\ r.hi = h /\ r.caseLen = cl /\ r.obj = ob /\ r.out = u
  BY DEF Rec

LEMMA HasRec ==
    ASSUME NEW lv, NEW d \in 0 .. MaxDepth - 1, NEW e, NEW pb \in Seq(Chars), NEW p \in Nat, NEW q,
           NEW st, NEW o \in Nat, NEW h, NEW cl \in Nat, NEW ob, NEW u, Levels(lv)
    PROVE  Has(Rec(lv, d, e, pb, p, q, st, o, h, cl, ob, u), lv, d, e, pb, p, q, st, o, h, cl, ob, u)
<1>1. PICK r : r = Rec(lv, d, e, pb, p, q, st, o, h, cl, ob, u)
  OBVIOUS
<1>2. /\ r.level = lv /\ r.depth = d /\ r.err = e /\ r.pb = pb /\ r.pos = p /\ r.quote = q
      /\ r.strict = st /\ r.offset = o /\ r.hi = h /\ r.caseLen = cl /\ r.obj = ob /\ r.out = u
  BY <1>1, RecFields
<1>3. IsTok(r)
  BY <1>1, <1>2 DEF IsTok
<1> QED
  BY <1>1, <1>2, <1>3 DEF Has

LEMMA LevFields ==
    ASSUME NEW s, NEW sv, NEW cur, NEW nm
    PROVE  LET l == Lev(s, sv, cur, nm)
           IN  l.state = s /\ l.saved = sv /\ l.current = cur /\ l.name = nm /\ IsLevel(l)
  BY DEF Lev, IsLevel

LEMMA LevelWithFacts ==
    ASSUME NEW lv, Levels(lv), NEW d \in 0 .. MaxDepth, NEW l, IsLevel(l)
    PROVE  /\ Levels(LevelWith(lv, d, l)) /\ LevelWith(lv, d, l)[d] = l
           /\ \A x \in 0 .. MaxDepth : x # d => LevelWith(lv, d, l)[x] = lv[x]
  BY DEF LevelWith, Levels

LEMMA EmptyLevel == Empty = Lev("eatws", "start", NullValue, <<>>) /\ IsLevel(Empty)
  BY DEF Empty, Lev, IsLevel

LEMMA TopLevelFacts ==
    ASSUME NEW t, IsTok(t)
    PROVE  /\ IsLevel(Top(t)) /\ t.depth \in 0 .. MaxDepth /\ Levels(t.level)
           /\ Top(t) = Lev(Top(t).state, Top(t).saved, Top(t).current, Top(t).name)
  BY TokenerAssumption DEF IsTok, Top, IsLevel, Levels

LEMMA AdvanceRec ==
    ASSUME NEW lv, NEW d, NEW e, NEW pb, NEW p, NEW q, NEW st, NEW o, NEW h, NEW cl, NEW ob, NEW u,
           NEW r, r = Rec(lv, d, e, pb, p, q, st, o, h, cl, ob, u), NEW c
    PROVE  Advance(r, c) = Rec(lv, d, e, pb, p, q, st, o + 1, h, cl, ob, (c = Nul))
<1>1. r.level = lv /\ r.depth = d /\ r.pb = pb /\ r.pos = p /\ r.offset = o /\ r.caseLen = cl /\ r.err = e
  BY RecFields
<1>2. PICK y1 : y1 = [r EXCEPT !.offset = o + 1]
  OBVIOUS
<1>3. y1 = Rec(lv, d, e, pb, p, q, st, o + 1, h, cl, ob, u)
  BY <1>2 DEF Rec
<1>4. Advance(r, c) = [y1 EXCEPT !.out = (c = Nul)]
  BY <1>1, <1>2 DEF Advance
<1>5. [y1 EXCEPT !.out = (c = Nul)] = Rec(lv, d, e, pb, p, q, st, o + 1, h, cl, ob, (c = Nul))
  BY <1>3 DEF Rec
<1> QED
  BY <1>4, <1>5

LEMMA AdvanceFields ==
    ASSUME NEW t, IsTok(t), NEW c
    PROVE  Has(Advance(t, c), t.level, t.depth, t.err, t.pb, t.pos, t.quote, t.strict, t.offset + 1, t.hi,
           t.caseLen, t.obj, (c = Nul))
<1>1. Advance(t, c) = Rec(t.level, t.depth, t.err, t.pb, t.pos, t.quote, t.strict, t.offset + 1, t.hi,
          t.caseLen, t.obj, (c = Nul))
  BY AdvanceRec DEF IsTok
<1>2. t.offset + 1 \in Nat
  BY DEF IsTok
<1> QED
  BY <1>1, <1>2, HasRec DEF IsTok

LEMMA FailRec ==
    ASSUME NEW lv, NEW d, NEW e, NEW pb, NEW p, NEW q, NEW st, NEW o, NEW h, NEW cl, NEW ob, NEW u,
           NEW r, r = Rec(lv, d, e, pb, p, q, st, o, h, cl, ob, u), NEW x
    PROVE  Fail(r, x) = Rec(lv, d, x, pb, p, q, st, o, h, cl, ob, Yes)
<1>1. r.level = lv /\ r.depth = d /\ r.pb = pb /\ r.pos = p /\ r.offset = o /\ r.caseLen = cl /\ r.err = e
  BY RecFields
<1>2. PICK y1 : y1 = [r EXCEPT !.err = x]
  OBVIOUS
<1>3. y1 = Rec(lv, d, x, pb, p, q, st, o, h, cl, ob, u)
  BY <1>2 DEF Rec
<1>4. Fail(r, x) = [y1 EXCEPT !.out = Yes]
  BY <1>1, <1>2 DEF Fail, Yes, No
<1>5. [y1 EXCEPT !.out = Yes] = Rec(lv, d, x, pb, p, q, st, o, h, cl, ob, Yes)
  BY <1>3 DEF Rec
<1> QED
  BY <1>4, <1>5

LEMMA FailFields ==
    ASSUME NEW t, IsTok(t), NEW x
    PROVE  Has(Fail(t, x), t.level, t.depth, x, t.pb, t.pos, t.quote, t.strict, t.offset, t.hi, t.caseLen,
           t.obj, Yes)
<1>1. Fail(t, x) = Rec(t.level, t.depth, x, t.pb, t.pos, t.quote, t.strict, t.offset, t.hi, t.caseLen,
          t.obj, Yes)
  BY FailRec DEF IsTok
<1> QED
  BY <1>1, HasRec DEF IsTok

LEMMA LeaveRec ==
    ASSUME NEW lv, NEW d, NEW e, NEW pb, NEW p, NEW q, NEW st, NEW o, NEW h, NEW cl, NEW ob, NEW u,
           NEW r, r = Rec(lv, d, e, pb, p, q, st, o, h, cl, ob, u)
    PROVE  Leave(r) = Rec(lv, d, e, pb, p, q, st, o, h, cl, ob, Yes)
<1>1. r.level = lv /\ r.depth = d /\ r.pb = pb /\ r.pos = p /\ r.offset = o /\ r.caseLen = cl /\ r.err = e
  BY RecFields
<1>2. Leave(r) = [r EXCEPT !.out = Yes]
  BY <1>1 DEF Leave, Yes, No
<1>3. [r EXCEPT !.out = Yes] = Rec(lv, d, e, pb, p, q, st, o, h, cl, ob, Yes)
  BY DEF Rec
<1> QED
  BY <1>2, <1>3

LEMMA LeaveFields ==
    ASSUME NEW t, IsTok(t)
    PROVE  Has(Leave(t), t.level, t.depth, t.err, t.pb, t.pos, t.quote, t.strict, t.offset, t.hi,
           t.caseLen, t.obj, Yes)
<1>1. Leave(t) = Rec(t.level, t.depth, t.err, t.pb, t.pos, t.quote, t.strict, t.offset, t.hi, t.caseLen,
          t.obj, Yes)
  BY LeaveRec DEF IsTok
<1> QED
  BY <1>1, HasRec DEF IsTok

LEMMA CollectRec ==
    ASSUME NEW lv, NEW d, NEW e, NEW pb, NEW p, NEW q, NEW st, NEW o, NEW h, NEW cl, NEW ob, NEW u,
           NEW r, r = Rec(lv, d, e, pb, p, q, st, o, h, cl, ob, u), NEW c
    PROVE  Collect(r, c) = Rec(lv, d, e, Append(pb, c), p, q, st, o, h, cl, ob, u)
<1>1. r.level = lv /\ r.depth = d /\ r.pb = pb /\ r.pos = p /\ r.offset = o /\ r.caseLen = cl /\ r.err = e
  BY RecFields
<1>2. Collect(r, c) = [r EXCEPT !.pb = Append(pb, c)]
  BY <1>1 DEF Collect
<1>3. [r EXCEPT !.pb = Append(pb, c)] = Rec(lv, d, e, Append(pb, c), p, q, st, o, h, cl, ob, u)
  BY DEF Rec
<1> QED
  BY <1>2, <1>3

LEMMA CollectFields ==
    ASSUME NEW t, IsTok(t), NEW c \in Chars
    PROVE  Has(Collect(t, c), t.level, t.depth, t.err, Append(t.pb, c), t.pos, t.quote, t.strict, t.offset,
           t.hi, t.caseLen, t.obj, t.out)
<1>1. Collect(t, c) = Rec(t.level, t.depth, t.err, Append(t.pb, c), t.pos, t.quote, t.strict, t.offset,
          t.hi, t.caseLen, t.obj, t.out)
  BY CollectRec DEF IsTok
<1>2. Append(t.pb, c) \in Seq(Chars)
  BY DEF IsTok
<1> QED
  BY <1>1, <1>2, HasRec DEF IsTok

LEMMA KeywordRec ==
    ASSUME NEW lv, NEW d, NEW e, NEW pb, NEW p, NEW q, NEW st, NEW o, NEW h, NEW cl, NEW ob, NEW u,
           NEW r, r = Rec(lv, d, e, pb, p, q, st, o, h, cl, ob, u)
    PROVE  Keyword(r) = Rec(lv, d, e, <<>>, 0, q, st, o, h, cl, ob, u)
<1>1. r.level = lv /\ r.depth = d /\ r.pb = pb /\ r.pos = p /\ r.offset = o /\ r.caseLen = cl /\ r.err = e
  BY RecFields
<1>2. PICK y1 : y1 = [r EXCEPT !.pb = <<>>]
  OBVIOUS
<1>3. y1 = Rec(lv, d, e, <<>>, p, q, st, o, h, cl, ob, u)
  BY <1>2 DEF Rec
<1>4. Keyword(r) = [y1 EXCEPT !.pos = 0]
  BY <1>1, <1>2 DEF Keyword
<1>5. [y1 EXCEPT !.pos = 0] = Rec(lv, d, e, <<>>, 0, q, st, o, h, cl, ob, u)
  BY <1>3 DEF Rec
<1> QED
  BY <1>4, <1>5

LEMMA KeywordFields ==
    ASSUME NEW t, IsTok(t)
    PROVE  Has(Keyword(t), t.level, t.depth, t.err, <<>>, 0, t.quote, t.strict, t.offset, t.hi, t.caseLen,
           t.obj, t.out)
<1>1. Keyword(t) = Rec(t.level, t.depth, t.err, <<>>, 0, t.quote, t.strict, t.offset, t.hi, t.caseLen,
          t.obj, t.out)
  BY KeywordRec DEF IsTok
<1>2. <<>> \in Seq(Chars) /\ 0 \in Nat
  BY DEF IsTok
<1> QED
  BY <1>1, <1>2, HasRec DEF IsTok

LEMMA NumeralRec ==
    ASSUME NEW lv, NEW d, NEW e, NEW pb, NEW p, NEW q, NEW st, NEW o, NEW h, NEW cl, NEW ob, NEW u,
           NEW r, r = Rec(lv, d, e, pb, p, q, st, o, h, cl, ob, u)
    PROVE  Numeral(r) = Rec(lv, d, e, <<>>, p, q, st, o, h, 0, ob, u)
<1>1. r.level = lv /\ r.depth = d /\ r.pb = pb /\ r.pos = p /\ r.offset = o /\ r.caseLen = cl /\ r.err = e
  BY RecFields
<1>2. PICK y1 : y1 = [r EXCEPT !.pb = <<>>]
  OBVIOUS
<1>3. y1 = Rec(lv, d, e, <<>>, p, q, st, o, h, cl, ob, u)
  BY <1>2 DEF Rec
<1>4. Numeral(r) = [y1 EXCEPT !.caseLen = 0]
  BY <1>1, <1>2 DEF Numeral
<1>5. [y1 EXCEPT !.caseLen = 0] = Rec(lv, d, e, <<>>, p, q, st, o, h, 0, ob, u)
  BY <1>3 DEF Rec
<1> QED
  BY <1>4, <1>5

LEMMA NumeralFields ==
    ASSUME NEW t, IsTok(t)
    PROVE  Has(Numeral(t), t.level, t.depth, t.err, <<>>, t.pos, t.quote, t.strict, t.offset, t.hi, 0,
           t.obj, t.out)
<1>1. Numeral(t) = Rec(t.level, t.depth, t.err, <<>>, t.pos, t.quote, t.strict, t.offset, t.hi, 0, t.obj,
          t.out)
  BY NumeralRec DEF IsTok
<1>2. <<>> \in Seq(Chars) /\ 0 \in Nat
  BY DEF IsTok
<1> QED
  BY <1>1, <1>2, HasRec DEF IsTok

LEMMA QuotedRec ==
    ASSUME NEW lv, NEW d, NEW e, NEW pb, NEW p, NEW q, NEW st, NEW o, NEW h, NEW cl, NEW ob, NEW u,
           NEW r, r = Rec(lv, d, e, pb, p, q, st, o, h, cl, ob, u), NEW c
    PROVE  Quoted(r, c) = Rec(lv, d, e, <<>>, p, c, st, o, h, cl, ob, u)
<1>1. r.level = lv /\ r.depth = d /\ r.pb = pb /\ r.pos = p /\ r.offset = o /\ r.caseLen = cl /\ r.err = e
  BY RecFields
<1>2. PICK y1 : y1 = [r EXCEPT !.pb = <<>>]
  OBVIOUS
<1>3. y1 = Rec(lv, d, e, <<>>, p, q, st, o, h, cl, ob, u)
  BY <1>2 DEF Rec
<1>4. Quoted(r, c) = [y1 EXCEPT !.quote = c]
  BY <1>1, <1>2 DEF Quoted
<1>5. [y1 EXCEPT !.quote = c] = Rec(lv, d, e, <<>>, p, c, st, o, h, cl, ob, u)
  BY <1>3 DEF Rec
<1> QED
  BY <1>4, <1>5

LEMMA QuotedFields ==
    ASSUME NEW t, IsTok(t), NEW c
    PROVE  Has(Quoted(t, c), t.level, t.depth, t.err, <<>>, t.pos, c, t.strict, t.offset, t.hi, t.caseLen,
           t.obj, t.out)
<1>1. Quoted(t, c) = Rec(t.level, t.depth, t.err, <<>>, t.pos, c, t.strict, t.offset, t.hi, t.caseLen,
          t.obj, t.out)
  BY QuotedRec DEF IsTok
<1>2. <<>> \in Seq(Chars)
  BY DEF IsTok
<1> QED
  BY <1>1, <1>2, HasRec DEF IsTok

LEMMA CountedRec ==
    ASSUME NEW lv, NEW d, NEW e, NEW pb, NEW p, NEW q, NEW st, NEW o, NEW h, NEW cl, NEW ob, NEW u,
           NEW r, r = Rec(lv, d, e, pb, p, q, st, o, h, cl, ob, u), NEW n
    PROVE  Counted(r, n) = Rec(lv, d, e, pb, p + n, q, st, o, h, cl, ob, u)
<1>1. r.level = lv /\ r.depth = d /\ r.pb = pb /\ r.pos = p /\ r.offset = o /\ r.caseLen = cl /\ r.err = e
  BY RecFields
<1>2. Counted(r, n) = [r EXCEPT !.pos = p + n]
  BY <1>1 DEF Counted
<1>3. [r EXCEPT !.pos = p + n] = Rec(lv, d, e, pb, p + n, q, st, o, h, cl, ob, u)
  BY DEF Rec
<1> QED
  BY <1>2, <1>3

LEMMA CountedFields ==
    ASSUME NEW t, IsTok(t), NEW n \in Nat
    PROVE  Has(Counted(t, n), t.level, t.depth, t.err, t.pb, t.pos + n, t.quote, t.strict, t.offset, t.hi,
           t.caseLen, t.obj, t.out)
<1>1. Counted(t, n) = Rec(t.level, t.depth, t.err, t.pb, t.pos + n, t.quote, t.strict, t.offset, t.hi,
          t.caseLen, t.obj, t.out)
  BY CountedRec DEF IsTok
<1>2. t.pos + n \in Nat
  BY DEF IsTok
<1> QED
  BY <1>1, <1>2, HasRec DEF IsTok

LEMMA LengthenedRec ==
    ASSUME NEW lv, NEW d, NEW e, NEW pb, NEW p, NEW q, NEW st, NEW o, NEW h, NEW cl, NEW ob, NEW u,
           NEW r, r = Rec(lv, d, e, pb, p, q, st, o, h, cl, ob, u)
    PROVE  Lengthened(r) = Rec(lv, d, e, pb, p, q, st, o, h, cl + 1, ob, u)
<1>1. r.level = lv /\ r.depth = d /\ r.pb = pb /\ r.pos = p /\ r.offset = o /\ r.caseLen = cl /\ r.err = e
  BY RecFields
<1>2. Lengthened(r) = [r EXCEPT !.caseLen = cl + 1]
  BY <1>1 DEF Lengthened
<1>3. [r EXCEPT !.caseLen = cl + 1] = Rec(lv, d, e, pb, p, q, st, o, h, cl + 1, ob, u)
  BY DEF Rec
<1> QED
  BY <1>2, <1>3

LEMMA LengthenedFields ==
    ASSUME NEW t, IsTok(t)
    PROVE  Has(Lengthened(t), t.level, t.depth, t.err, t.pb, t.pos, t.quote, t.strict, t.offset, t.hi,
           t.caseLen + 1, t.obj, t.out)
<1>1. Lengthened(t) = Rec(t.level, t.depth, t.err, t.pb, t.pos, t.quote, t.strict, t.offset, t.hi,
          t.caseLen + 1, t.obj, t.out)
  BY LengthenedRec DEF IsTok
<1>2. t.caseLen + 1 \in Nat
  BY DEF IsTok
<1> QED
  BY <1>1, <1>2, HasRec DEF IsTok

LEMMA FirstDigitRec ==
    ASSUME NEW lv, NEW d, NEW e, NEW pb, NEW p, NEW q, NEW st, NEW o, NEW h, NEW cl, NEW ob, NEW u,
           NEW r, r = Rec(lv, d, e, pb, p, q, st, o, h, cl, ob, u)
    PROVE  FirstDigit(r) = Rec(lv, d, e, pb, 0, q, st, o, h, cl, ob, u)
<1>1. r.level = lv /\ r.depth = d /\ r.pb = pb /\ r.pos = p /\ r.offset = o /\ r.caseLen = cl /\ r.err = e
  BY RecFields
<1>2. FirstDigit(r) = [r EXCEPT !.pos = 0]
  BY <1>1 DEF FirstDigit
<1>3. [r EXCEPT !.pos = 0] = Rec(lv, d, e, pb, 0, q, st, o, h, cl, ob, u)
  BY DEF Rec
<1> QED
  BY <1>2, <1>3

LEMMA FirstDigitFields ==
    ASSUME NEW t, IsTok(t)
    PROVE  Has(FirstDigit(t), t.level, t.depth, t.err, t.pb, 0, t.quote, t.strict, t.offset, t.hi,
           t.caseLen, t.obj, t.out)
<1>1. FirstDigit(t) = Rec(t.level, t.depth, t.err, t.pb, 0, t.quote, t.strict, t.offset, t.hi, t.caseLen,
          t.obj, t.out)
  BY FirstDigitRec DEF IsTok
<1>2. 0 \in Nat
  BY DEF IsTok
<1> QED
  BY <1>1, <1>2, HasRec DEF IsTok

LEMMA SecondHalfRec ==
    ASSUME NEW lv, NEW d, NEW e, NEW pb, NEW p, NEW q, NEW st, NEW o, NEW h, NEW cl, NEW ob, NEW u,
           NEW r, r = Rec(lv, d, e, pb, p, q, st, o, h, cl, ob, u)
    PROVE  SecondHalf(r) = Rec(lv, d, e, pb, 0, q, st, o + 3, Yes, cl, ob, u)
<1>1. r.level = lv /\ r.depth = d /\ r.pb = pb /\ r.pos = p /\ r.offset = o /\ r.caseLen = cl /\ r.err = e
  BY RecFields
<1>2. PICK y1 : y1 = [r EXCEPT !.offset = o + 3]
  OBVIOUS
<1>3. y1 = Rec(lv, d, e, pb, p, q, st, o + 3, h, cl, ob, u)
  BY <1>2 DEF Rec
<1>4. PICK y2 : y2 = [y1 EXCEPT !.hi = Yes]
  OBVIOUS
<1>5. y2 = Rec(lv, d, e, pb, p, q, st, o + 3, Yes, cl, ob, u)
  BY <1>4, <1>3 DEF Rec
<1>6. SecondHalf(r) = [y2 EXCEPT !.pos = 0]
  BY <1>1, <1>2, <1>4 DEF SecondHalf, Yes, No
<1>7. [y2 EXCEPT !.pos = 0] = Rec(lv, d, e, pb, 0, q, st, o + 3, Yes, cl, ob, u)
  BY <1>5 DEF Rec
<1> QED
  BY <1>6, <1>7

LEMMA SecondHalfFields ==
    ASSUME NEW t, IsTok(t)
    PROVE  Has(SecondHalf(t), t.level, t.depth, t.err, t.pb, 0, t.quote, t.strict, t.offset + 3, Yes,
           t.caseLen, t.obj, t.out)
<1>1. SecondHalf(t) = Rec(t.level, t.depth, t.err, t.pb, 0, t.quote, t.strict, t.offset + 3, Yes,
          t.caseLen, t.obj, t.out)
  BY SecondHalfRec DEF IsTok
<1>2. t.offset + 3 \in Nat /\ 0 \in Nat
  BY DEF IsTok
<1> QED
  BY <1>1, <1>2, HasRec DEF IsTok

LEMMA TruncatedRec ==
    ASSUME NEW lv, NEW d, NEW e, NEW pb, NEW p, NEW q, NEW st, NEW o, NEW h, NEW cl, NEW ob, NEW u,
           NEW r, r = Rec(lv, d, e, pb, p, q, st, o, h, cl, ob, u)
    PROVE  Truncated(r) = Rec(lv, d, "continue", pb, p, q, st, o + 3, h, cl, ob, Yes)
<1>1. r.level = lv /\ r.depth = d /\ r.pb = pb /\ r.pos = p /\ r.offset = o /\ r.caseLen = cl /\ r.err = e
  BY RecFields
<1>2. PICK y1 : y1 = [r EXCEPT !.offset = o + 3]
  OBVIOUS
<1>3. y1 = Rec(lv, d, e, pb, p, q, st, o + 3, h, cl, ob, u)
  BY <1>2 DEF Rec
<1>4. PICK y2 : y2 = [y1 EXCEPT !.err = "continue"]
  OBVIOUS
<1>5. y2 = Rec(lv, d, "continue", pb, p, q, st, o + 3, h, cl, ob, u)
  BY <1>4, <1>3 DEF Rec
<1>6. Truncated(r) = [y2 EXCEPT !.out = Yes]
  BY <1>1, <1>2, <1>4 DEF Truncated, Yes, No
<1>7. [y2 EXCEPT !.out = Yes] = Rec(lv, d, "continue", pb, p, q, st, o + 3, h, cl, ob, Yes)
  BY <1>5 DEF Rec
<1> QED
  BY <1>6, <1>7

LEMMA TruncatedFields ==
    ASSUME NEW t, IsTok(t)
    PROVE  Has(Truncated(t), t.level, t.depth, "continue", t.pb, t.pos, t.quote, t.strict, t.offset + 3,
           t.hi, t.caseLen, t.obj, Yes)
<1>1. Truncated(t) = Rec(t.level, t.depth, "continue", t.pb, t.pos, t.quote, t.strict, t.offset + 3, t.hi,
          t.caseLen, t.obj, Yes)
  BY TruncatedRec DEF IsTok
<1>2. t.offset + 3 \in Nat
  BY DEF IsTok
<1> QED
  BY <1>1, <1>2, HasRec DEF IsTok

LEMMA AloneRec ==
    ASSUME NEW lv, NEW d, NEW e, NEW pb, NEW p, NEW q, NEW st, NEW o, NEW h, NEW cl, NEW ob, NEW u,
           NEW r, r = Rec(lv, d, e, pb, p, q, st, o, h, cl, ob, u)
    PROVE  Alone(r) = Rec(lv, d, e, pb, p, q, st, o, No, cl, ob, u)
<1>1. r.level = lv /\ r.depth = d /\ r.pb = pb /\ r.pos = p /\ r.offset = o /\ r.caseLen = cl /\ r.err = e
  BY RecFields
<1>2. Alone(r) = [r EXCEPT !.hi = No]
  BY <1>1 DEF Alone, Yes, No
<1>3. [r EXCEPT !.hi = No] = Rec(lv, d, e, pb, p, q, st, o, No, cl, ob, u)
  BY DEF Rec
<1> QED
  BY <1>2, <1>3

LEMMA AloneFields ==
    ASSUME NEW t, IsTok(t)
    PROVE  Has(Alone(t), t.level, t.depth, t.err, t.pb, t.pos, t.quote, t.strict, t.offset, No, t.caseLen,
           t.obj, t.out)
<1>1. Alone(t) = Rec(t.level, t.depth, t.err, t.pb, t.pos, t.quote, t.strict, t.offset, No, t.caseLen,
          t.obj, t.out)
  BY AloneRec DEF IsTok
<1> QED
  BY <1>1, HasRec DEF IsTok

LEMMA BegunRec ==
    ASSUME NEW lv, NEW d, NEW e, NEW pb, NEW p, NEW q, NEW st, NEW o, NEW h, NEW cl, NEW ob, NEW u,
           NEW r, r = Rec(lv, d, e, pb, p, q, st, o, h, cl, ob, u)
    PROVE  Begun(r) = Rec(lv, d, "success", pb, p, q, st, 0, h, cl, ob, u)
<1>1. r.level = lv /\ r.depth = d /\ r.pb = pb /\ r.pos = p /\ r.offset = o /\ r.caseLen = cl /\ r.err = e
  BY RecFields
<1>2. PICK y1 : y1 = [r EXCEPT !.offset = 0]
  OBVIOUS
<1>3. y1 = Rec(lv, d, e, pb, p, q, st, 0, h, cl, ob, u)
  BY <1>2 DEF Rec
<1>4. Begun(r) = [y1 EXCEPT !.err = "success"]
  BY <1>1, <1>2 DEF Begun
<1>5. [y1 EXCEPT !.err = "success"] = Rec(lv, d, "success", pb, p, q, st, 0, h, cl, ob, u)
  BY <1>3 DEF Rec
<1> QED
  BY <1>4, <1>5

LEMMA BegunFields ==
    ASSUME NEW t, IsTok(t)
    PROVE  Has(Begun(t), t.level, t.depth, "success", t.pb, t.pos, t.quote, t.strict, 0, t.hi, t.caseLen,
           t.obj, t.out)
<1>1. Begun(t) = Rec(t.level, t.depth, "success", t.pb, t.pos, t.quote, t.strict, 0, t.hi, t.caseLen,
          t.obj, t.out)
  BY BegunRec DEF IsTok
<1>2. 0 \in Nat
  BY DEF IsTok
<1> QED
  BY <1>1, <1>2, HasRec DEF IsTok

LEMMA ReturnedRec ==
    ASSUME NEW lv, NEW d, NEW e, NEW pb, NEW p, NEW q, NEW st, NEW o, NEW h, NEW cl, NEW ob, NEW u,
           NEW r, r = Rec(lv, d, e, pb, p, q, st, o, h, cl, ob, u)
    PROVE  Returned(r) = Rec(lv, d, e, pb, p, q, st, o, No, 0, NullValue, No)
<1>1. r.level = lv /\ r.depth = d /\ r.pb = pb /\ r.pos = p /\ r.offset = o /\ r.caseLen = cl /\ r.err = e
  BY RecFields
<1>2. PICK y1 : y1 = [r EXCEPT !.out = No]
  OBVIOUS
<1>3. y1 = Rec(lv, d, e, pb, p, q, st, o, h, cl, ob, No)
  BY <1>2 DEF Rec
<1>4. PICK y2 : y2 = [y1 EXCEPT !.hi = No]
  OBVIOUS
<1>5. y2 = Rec(lv, d, e, pb, p, q, st, o, No, cl, ob, No)
  BY <1>4, <1>3 DEF Rec
<1>6. PICK y3 : y3 = [y2 EXCEPT !.caseLen = 0]
  OBVIOUS
<1>7. y3 = Rec(lv, d, e, pb, p, q, st, o, No, 0, ob, No)
  BY <1>6, <1>5 DEF Rec
<1>8. Returned(r) = [y3 EXCEPT !.obj = NullValue]
  BY <1>1, <1>2, <1>4, <1>6 DEF Returned, Yes, No
<1>9. [y3 EXCEPT !.obj = NullValue] = Rec(lv, d, e, pb, p, q, st, o, No, 0, NullValue, No)
  BY <1>7 DEF Rec
<1> QED
  BY <1>8, <1>9

LEMMA ReturnedFields ==
    ASSUME NEW t, IsTok(t)
    PROVE  Has(Returned(t), t.level, t.depth, t.err, t.pb, t.pos, t.quote, t.strict, t.offset, No, 0,
           NullValue, No)
<1>1. Returned(t) = Rec(t.level, t.depth, t.err, t.pb, t.pos, t.quote, t.strict, t.offset, No, 0,
          NullValue, No)
  BY ReturnedRec DEF IsTok
<1>2. 0 \in Nat
  BY DEF IsTok
<1> QED
  BY <1>1, <1>2, HasRec DEF IsTok

LEMMA AtTopRec ==
    ASSUME NEW lv, NEW d, NEW e, NEW pb, NEW p, NEW q, NEW st, NEW o, NEW h, NEW cl, NEW ob, NEW u,
           NEW r, r = Rec(lv, d, e, pb, p, q, st, o, h, cl, ob, u), NEW l
    PROVE  AtTop(r, l) = Rec(LevelWith(lv, d, l), d, e, pb, p, q, st, o, h, cl, ob, u)
<1>1. r.level = lv /\ r.depth = d /\ r.pb = pb /\ r.pos = p /\ r.offset = o /\ r.caseLen = cl /\ r.err = e
  BY RecFields
<1>2. AtTop(r, l) = [r EXCEPT !.level = LevelWith(lv, d, l)]
  BY <1>1 DEF AtTop, LevelWith
<1>3. [r EXCEPT !.level = LevelWith(lv, d, l)] = Rec(LevelWith(lv, d, l), d, e, pb, p, q, st, o, h, cl, ob,
          u)
  BY DEF Rec
<1> QED
  BY <1>2, <1>3

LEMMA AtTopFields ==
    ASSUME NEW t, IsTok(t), NEW l, IsLevel(l)
    PROVE  Has(AtTop(t, l), LevelWith(t.level, t.depth, l), t.depth, t.err, t.pb, t.pos, t.quote, t.strict,
           t.offset, t.hi, t.caseLen, t.obj, t.out)
<1>1. AtTop(t, l) = Rec(LevelWith(t.level, t.depth, l), t.depth, t.err, t.pb, t.pos, t.quote, t.strict,
          t.offset, t.hi, t.caseLen, t.obj, t.out)
  BY AtTopRec DEF IsTok
<1> QED
  BY <1>1, HasRec, LevelWithFacts, TokenerAssumption DEF IsTok

LEMMA DeeperRec ==
    ASSUME NEW lv, NEW d, NEW e, NEW pb, NEW p, NEW q, NEW st, NEW o, NEW h, NEW cl, NEW ob, NEW u,
           NEW r, r = Rec(lv, d, e, pb, p, q, st, o, h, cl, ob, u)
    PROVE  Deeper(r) = Rec(LevelWith(lv, d + 1, Empty), d + 1, e, pb, p, q, st, o, h, cl, ob, u)
<1>1. r.level = lv /\ r.depth = d /\ r.pb = pb /\ r.pos = p /\ r.offset = o /\ r.caseLen = cl /\ r.err = e
  BY RecFields
<1>2. PICK y1 : y1 = [r EXCEPT !.level = LevelWith(lv, d + 1, Empty)]
  OBVIOUS
<1>3. y1 = Rec(LevelWith(lv, d + 1, Empty), d, e, pb, p, q, st, o, h, cl, ob, u)
  BY <1>2 DEF Rec
<1>4. Deeper(r) = [y1 EXCEPT !.depth = d + 1]
  BY <1>1, <1>2 DEF Deeper, LevelWith
<1>5. [y1 EXCEPT !.depth = d + 1] = Rec(LevelWith(lv, d + 1, Empty), d + 1, e, pb, p, q, st, o, h, cl, ob,
          u)
  BY <1>3 DEF Rec
<1> QED
  BY <1>4, <1>5

LEMMA DeeperFields ==
    ASSUME NEW t, IsTok(t), t.depth + 1 < MaxDepth
    PROVE  Has(Deeper(t), LevelWith(t.level, t.depth + 1, Empty), t.depth + 1, t.err, t.pb, t.pos, t.quote,
           t.strict, t.offset, t.hi, t.caseLen, t.obj, t.out)
<1>1. Deeper(t) = Rec(LevelWith(t.level, t.depth + 1, Empty), t.depth + 1, t.err, t.pb, t.pos, t.quote,
          t.strict, t.offset, t.hi, t.caseLen, t.obj, t.out)
  BY DeeperRec DEF IsTok
<1>2. PICK n : n = t.depth + 1
  OBVIOUS
<1>3. n \in 0 .. MaxDepth - 1 /\ n \in 0 .. MaxDepth
  BY <1>2, TokenerAssumption DEF IsTok
<1>4. Levels(LevelWith(t.level, n, Empty))
  BY <1>3, LevelWithFacts, EmptyLevel DEF IsTok
<1> QED
  BY <1>1, <1>2, <1>3, <1>4, HasRec DEF IsTok

LEMMA ShallowerRec ==
    ASSUME NEW lv, NEW d, NEW e, NEW pb, NEW p, NEW q, NEW st, NEW o, NEW h, NEW cl, NEW ob, NEW u,
           NEW r, r = Rec(lv, d, e, pb, p, q, st, o, h, cl, ob, u), NEW v, v = Top(r).current
    PROVE  Shallower(r) = Rec(LevelWith(lv, d, Empty), d - 1, e, pb, p, q, st, o, h, cl, v, u)
<1>1. r.level = lv /\ r.depth = d
  BY RecFields
<1>2. PICK l : l = LevelWith(lv, d, Empty)
  OBVIOUS
<1>3. PICK y1 : y1 = [r EXCEPT !.obj = v]
  OBVIOUS
<1>4. y1 = Rec(lv, d, e, pb, p, q, st, o, h, cl, v, u)
  BY <1>3 DEF Rec
<1>5. PICK y2 : y2 = [y1 EXCEPT !.level = l]
  OBVIOUS
<1>6. y2 = Rec(l, d, e, pb, p, q, st, o, h, cl, v, u)
  BY <1>4, <1>5 DEF Rec
<1>7. Shallower(r) = [y2 EXCEPT !.depth = d - 1]
  BY <1>1, <1>2, <1>3, <1>5 DEF Shallower, LeftLevel, LevelWith
<1>8. [y2 EXCEPT !.depth = d - 1] = Rec(l, d - 1, e, pb, p, q, st, o, h, cl, v, u)
  BY <1>6 DEF Rec
<1> QED
  BY <1>2, <1>7, <1>8

LEMMA ShallowerFields ==
    ASSUME NEW t, IsTok(t), t.depth # 0
    PROVE  Has(Shallower(t), LevelWith(t.level, t.depth, Empty), t.depth - 1, t.err, t.pb, t.pos, t.quote,
               t.strict, t.offset, t.hi, t.caseLen, Top(t).current, t.out)
<1>1. Shallower(t) = Rec(LevelWith(t.level, t.depth, Empty), t.depth - 1, t.err, t.pb, t.pos, t.quote,
                         t.strict, t.offset, t.hi, t.caseLen, Top(t).current, t.out)
  BY ShallowerRec DEF IsTok
<1>2. PICK n : n = t.depth - 1
  OBVIOUS
<1>3. n \in 0 .. MaxDepth - 1 /\ t.depth \in 0 .. MaxDepth
  BY <1>2, TokenerAssumption DEF IsTok
<1>4. Levels(LevelWith(t.level, t.depth, Empty))
  BY <1>3, LevelWithFacts, EmptyLevel DEF IsTok
<1> QED
  BY <1>1, <1>2, <1>3, <1>4, HasRec DEF IsTok

LEMMA AtTopHas ==
    ASSUME NEW t, IsTok(t), NEW s, NEW sv, NEW cur, NEW nm
    PROVE  HasTop(AtTop(t, Lev(s, sv, cur, nm)), t, s, sv, cur, nm)
<1>1. PICK l : l = Lev(s, sv, cur, nm)
  OBVIOUS
<1>2. IsLevel(l) /\ l.state = s /\ l.saved = sv /\ l.current = cur /\ l.name = nm
  BY <1>1, LevFields
<1>3. PICK u : u = AtTop(t, l)
  OBVIOUS
<1>4. Has(u, LevelWith(t.level, t.depth, l), t.depth, t.err, t.pb, t.pos, t.quote, t.strict,
          t.offset, t.hi, t.caseLen, t.obj, t.out)
  BY <1>2, <1>3, AtTopFields
<1>5. Top(u) = l
  BY <1>2, <1>4, LevelWithFacts, TopLevelFacts DEF Has, Top
<1> QED
  BY <1>1, <1>2, <1>3, <1>4, <1>5 DEF HasTop

LEMMA GotoFields ==
    ASSUME NEW t, IsTok(t), NEW s
    PROVE  HasTop(Goto(t, s), t, s, Top(t).saved, Top(t).current, Top(t).name)
<1>1. PICK s0, sv0, cur0, nm0 : s0 = Top(t).state /\ sv0 = Top(t).saved /\ cur0 = Top(t).current
           /\ nm0 = Top(t).name
  OBVIOUS
<1>2. PICK l : l = Top(t)
  OBVIOUS
<1>3. l = Lev(s0, sv0, cur0, nm0)
  BY <1>1, <1>2, TopLevelFacts
<1>4. PICK m1 : m1 = [l EXCEPT !.state = s]
  OBVIOUS
<1>5. m1 = Lev(s, sv0, cur0, nm0)
  BY <1>3, <1>4 DEF Lev
<1>6. Goto(t, s) = AtTop(t, m1)
  BY <1>1, <1>2, <1>4 DEF Goto
<1> QED
  BY <1>1, <1>5, <1>6, AtTopHas

LEMMA EscapeFields ==
    ASSUME NEW t, IsTok(t), NEW s
    PROVE  HasTop(Escape(t, s), t, s, Top(t).state, Top(t).current, Top(t).name)
<1>1. PICK s0, sv0, cur0, nm0 : s0 = Top(t).state /\ sv0 = Top(t).saved /\ cur0 = Top(t).current
           /\ nm0 = Top(t).name
  OBVIOUS
<1>2. PICK l : l = Top(t)
  OBVIOUS
<1>3. l = Lev(s0, sv0, cur0, nm0)
  BY <1>1, <1>2, TopLevelFacts
<1>4. PICK m1 : m1 = [l EXCEPT !.state = s]
  OBVIOUS
<1>5. m1 = Lev(s, sv0, cur0, nm0)
  BY <1>3, <1>4 DEF Lev
<1>6. PICK m2 : m2 = [m1 EXCEPT !.saved = s0]
  OBVIOUS
<1>7. m2 = Lev(s, s0, cur0, nm0)
  BY <1>5, <1>6 DEF Lev
<1>8. Escape(t, s) = AtTop(t, m2)
  BY <1>1, <1>2, <1>4, <1>6 DEF Escape
<1> QED
  BY <1>1, <1>7, <1>8, AtTopHas

LEMMA ExpectFields ==
    ASSUME NEW t, IsTok(t), NEW s
    PROVE  HasTop(Expect(t, s), t, "eatws", s, Top(t).current, Top(t).name)
<1>1. PICK s0, sv0, cur0, nm0 : s0 = Top(t).state /\ sv0 = Top(t).saved /\ cur0 = Top(t).current
           /\ nm0 = Top(t).name
  OBVIOUS
<1>2. PICK l : l = Top(t)
  OBVIOUS
<1>3. l = Lev(s0, sv0, cur0, nm0)
  BY <1>1, <1>2, TopLevelFacts
<1>4. PICK m1 : m1 = [l EXCEPT !.state = "eatws"]
  OBVIOUS
<1>5. m1 = Lev("eatws", sv0, cur0, nm0)
  BY <1>3, <1>4 DEF Lev
<1>6. PICK m2 : m2 = [m1 EXCEPT !.saved = s]
  OBVIOUS
<1>7. m2 = Lev("eatws", s, cur0, nm0)
  BY <1>5, <1>6 DEF Lev
<1>8. Expect(t, s) = AtTop(t, m2)
  BY <1>1, <1>2, <1>4, <1>6 DEF Expect
<1> QED
  BY <1>1, <1>7, <1>8, AtTopHas

LEMMA BecomeFields ==
    ASSUME NEW t, IsTok(t), NEW s, NEW v
    PROVE  HasTop(Become(t, s, v), t, "eatws", s, v, Top(t).name)
<1>1. PICK s0, sv0, cur0, nm0 : s0 = Top(t).state /\ sv0 = Top(t).saved /\ cur0 = Top(t).current
           /\ nm0 = Top(t).name
  OBVIOUS
<1>2. PICK l : l = Top(t)
  OBVIOUS
<1>3. l = Lev(s0, sv0, cur0, nm0)
  BY <1>1, <1>2, TopLevelFacts
<1>4. PICK m1 : m1 = [l EXCEPT !.state = "eatws"]
  OBVIOUS
<1>5. m1 = Lev("eatws", sv0, cur0, nm0)
  BY <1>3, <1>4 DEF Lev
<1>6. PICK m2 : m2 = [m1 EXCEPT !.saved = s]
  OBVIOUS
<1>7. m2 = Lev("eatws", s, cur0, nm0)
  BY <1>5, <1>6 DEF Lev
<1>8. PICK m3 : m3 = [m2 EXCEPT !.current = v]
  OBVIOUS
<1>9. m3 = Lev("eatws", s, v, nm0)
  BY <1>7, <1>8 DEF Lev
<1>10. Become(t, s, v) = AtTop(t, m3)
  BY <1>1, <1>2, <1>4, <1>6, <1>8 DEF Become
<1> QED
  BY <1>1, <1>9, <1>10, AtTopHas

LEMMA NamedFields ==
    ASSUME NEW t, IsTok(t), NEW s, NEW n
    PROVE  HasTop(Named(t, s, n), t, "eatws", s, Top(t).current, n)
<1>1. PICK s0, sv0, cur0, nm0 : s0 = Top(t).state /\ sv0 = Top(t).saved /\ cur0 = Top(t).current
           /\ nm0 = Top(t).name
  OBVIOUS
<1>2. PICK l : l = Top(t)
  OBVIOUS
<1>3. l = Lev(s0, sv0, cur0, nm0)
  BY <1>1, <1>2, TopLevelFacts
<1>4. PICK m1 : m1 = [l EXCEPT !.state = "eatws"]
  OBVIOUS
<1>5. m1 = Lev("eatws", sv0, cur0, nm0)
  BY <1>3, <1>4 DEF Lev
<1>6. PICK m2 : m2 = [m1 EXCEPT !.saved = s]
  OBVIOUS
<1>7. m2 = Lev("eatws", s, cur0, nm0)
  BY <1>5, <1>6 DEF Lev
<1>8. PICK m3 : m3 = [m2 EXCEPT !.name = n]
  OBVIOUS
<1>9. m3 = Lev("eatws", s, cur0, n)
  BY <1>7, <1>8 DEF Lev
<1>10. Named(t, s, n) = AtTop(t, m3)
  BY <1>1, <1>2, <1>4, <1>6, <1>8 DEF Named
<1> QED
  BY <1>1, <1>9, <1>10, AtTopHas

-----------------------------------------------------------------------------
(* What one pass keeps: the types, and a rank that falls if no character is taken.*)

AddStates == {"array_add", "object_value_add"}
Within == {"comment", "comment_eol", "comment_end"}
InString == {"string", "object_field"}
InEscape == {"string_escape", "escape_unicode"}
AfterBlanks == {"start", "finish", "array", "array_sep", "array_after_sep", "object_field_start",
                "object_field_end", "object_value", "object_sep", "field_start_after_sep"}

Blank == {"eatws", "comment_start"} \cup Within
States == AfterBlanks \cup AddStates \cup Blank \cup InString \cup InEscape
          \cup {"inf", "null", "boolean", "number"}

GoodLevel(l) ==
    /\ l.state \in States
    /\ l.state \in Blank => l.saved \in AfterBlanks
    /\ l.state \in InEscape => l.saved \in InString
    /\ l.saved = "finish" => l.state \in Blank \cup {"finish"}
    /\ l.state \in ArrayStates \/ l.saved \in ArrayStates => l.current[1] = "array"
    /\ l.state \in ObjectStates \/ l.saved \in ObjectStates => l.current[1] = "object"

Stack(lv, d) ==
    /\ \A x \in 0 .. MaxDepth : GoodLevel(lv[x])
    /\ \A x \in 0 .. MaxDepth : x < d => lv[x].state \in AddStates
    /\ \A x \in 0 .. MaxDepth : x > d => lv[x] = Empty

QuoteKnown(t) == Top(t).state \in InString \cup InEscape => t.quote \notin {Nul, "\\"}
Sane(t, size) ==
    /\ IsTok(t) /\ Stack(t.level, t.depth)
    /\ t.err \in Errors /\ (t.out \/ t.err = "success") /\ t.offset <= size
    /\ t.out \/ t.offset < size \/ Top(t).state \notin AddStates \cup {"finish"}
    /\ t.hi => t.out \/ (Top(t).state = "escape_unicode" /\ t.pos = 0 /\ t.offset < size)
    /\ t.err \in {"success", "continue"} => QuoteKnown(t)

Ready(t, str) == str \in Seq(STRING) /\ Sane(t, Len(str)) /\ ~t.out /\ t.offset < Len(str)

RankOf(s) ==
    IF s = "start" THEN 7 ELSE IF s = "number" THEN 6
    ELSE IF s \in {"inf", "null", "boolean"} THEN 5
    ELSE IF s = "finish" THEN 3 ELSE IF s \in AddStates THEN 2
    ELSE IF s \in {"array", "array_after_sep", "object_value"} THEN 9 ELSE 0

Rank(t) == IF Top(t).state = "eatws" THEN RankOf(Top(t).saved) + 1 ELSE RankOf(Top(t).state)

Commented(t, x, c) ==
    /\ Top(x).state = "comment_start" => x.offset = t.offset + 1 /\ c = "/"
    /\ Top(x).state \in Within =>
          \/ Top(t).state \in Within
          \/ Top(t).state = "comment_start" /\ c \in {"*", "/"} /\ x.offset = t.offset + 1

Moves(t, x, c, str) ==
    /\ Sane(x, Len(str)) /\ x.offset >= t.offset /\ x.strict = t.strict
    /\ x.out \/ x.offset > t.offset \/ Rank(x) < Rank(t)
    /\ x.err \in {"success", "continue"} => Commented(t, x, c)
    /\ x.out /\ x.err = "success" =>
          \/ x.depth = 0 /\ Top(x).state = "finish"
          \/ c = Nul /\ x.offset = t.offset + 1 /\ Top(x).state \notin {"eatws", "finish", "comment_start"}
    /\ x.err = "continue" =>
          /\ Top(x).state = "escape_unicode" /\ x.offset = Len(str) /\ Len(str) >= 3
          /\ str[Len(str) - 2] = "hi" /\ str[Len(str) - 1] = "\\" /\ str[Len(str)] = "u"

\* y is still before the same character as t.
Near(t, y) ==
    /\ IsTok(y) /\ y.depth = t.depth /\ Stack(y.level, y.depth) /\ GoodLevel(Top(y))
    /\ y.err = t.err /\ y.offset = t.offset /\ y.out = t.out /\ y.strict = t.strict

LEMMA StackWith ==
    ASSUME NEW lv, Levels(lv), NEW d \in 0 .. MaxDepth, Stack(lv, d), NEW l, IsLevel(l), GoodLevel(l)
    PROVE  Stack(LevelWith(lv, d, l), d)
  BY LevelWithFacts DEF Stack

LEMMA NearItself ==
    ASSUME NEW str, NEW t, Ready(t, str)
    PROVE  Near(t, t) /\ IsTok(t) /\ (t.hi => Top(t).state = "escape_unicode") /\ QuoteKnown(t)
<1>1. GoodLevel(Top(t))
  BY TopLevelFacts DEF Ready, Sane, Top, Stack
<1> QED
  BY <1>1 DEF Ready, Sane, Near

LEMMA NearTop ==
    ASSUME NEW t, NEW y, Near(t, y), NEW x, NEW s, NEW sv, NEW cur, NEW nm,
           HasTop(x, y, s, sv, cur, nm), GoodLevel(Lev(s, sv, cur, nm))
    PROVE  /\ Near(t, x) /\ x.hi = y.hi
           /\ Top(x).state = s /\ Top(x).saved = sv /\ Top(x).current = cur
<1>1. PICK l : l = Lev(s, sv, cur, nm)
  OBVIOUS
<1>2. IsLevel(l)
  BY <1>1, LevFields
<1>3. Stack(LevelWith(y.level, y.depth, l), y.depth)
  BY <1>1, <1>2, StackWith, TopLevelFacts DEF Near, IsTok
<1> QED
  BY <1>1, <1>3 DEF Near, HasTop, Has

LEMMA NearAdvance ==
    ASSUME NEW str, NEW t, Ready(t, str), NEW y, Near(t, y), NEW c, ~y.hi, QuoteKnown(y),
           Top(y).state \notin AddStates \cup {"finish"},
           c = Nul => Top(y).state \notin {"eatws", "comment_start"},
           Top(y).state = "comment_start" => c = "/",
           Top(y).state \in Within => Top(t).state \in Within
               \/ (Top(t).state = "comment_start" /\ c \in {"*", "/"})
    PROVE  Moves(t, Advance(y, c), c, str)
<1>1. PICK x : x = Advance(y, c)
  OBVIOUS
<1>2. Has(x, y.level, y.depth, y.err, y.pb, y.pos, y.quote, y.strict, y.offset + 1, y.hi, y.caseLen, y.obj,
          (c = Nul))
  BY <1>1, AdvanceFields DEF Near
<1>3. Sane(x, Len(str)) /\ x.offset = t.offset + 1 /\ x.err = "success" /\ x.strict = t.strict
  BY <1>2 DEF Near, Ready, Sane, IsTok, Has, Top, QuoteKnown
<1>4. Top(x) = Top(y) /\ (x.out => c = Nul) /\ t.offset \in Nat
  BY <1>2 DEF Top, Has, Ready, Sane, IsTok
<1> QED
  BY <1>1, <1>3, <1>4 DEF Moves, Commented

LEMMA NearFail ==
    ASSUME NEW str, NEW t, Ready(t, str), NEW y, Near(t, y), NEW e \in Errors \ {"success", "continue"}
    PROVE  \A c : Moves(t, Fail(y, e), c, str)
<1>1. PICK x : x = Fail(y, e)
  OBVIOUS
<1>2. Has(x, y.level, y.depth, e, y.pb, y.pos, y.quote, y.strict, y.offset, y.hi, y.caseLen, y.obj, Yes)
  BY <1>1, FailFields DEF Near
<1>3. x.out /\ x.err = e /\ x.err \notin {"success", "continue"}
  BY <1>2 DEF Has, Yes
<1>4. Sane(x, Len(str)) /\ x.offset = t.offset /\ x.strict = t.strict
  BY <1>2, <1>3 DEF Near, Ready, Sane, IsTok, Has, Top
<1>5. x.offset >= t.offset
  BY <1>4 DEF Ready, Sane, IsTok
<1> QED
  BY <1>1, <1>3, <1>4, <1>5 DEF Moves

LEMMA NearStays ==
    ASSUME NEW str, NEW t, Ready(t, str), NEW y, Near(t, y), ~y.hi, QuoteKnown(y), Rank(y) < Rank(t),
           Top(y).state \notin {"comment_start"} \cup Within
    PROVE  \A c : Moves(t, y, c, str)
<1>1. Sane(y, Len(str)) /\ y.offset = t.offset /\ y.strict = t.strict /\ y.offset >= t.offset /\ ~y.out
      /\ y.err = "success"
  BY DEF Near, Ready, Sane, IsTok
<1> QED
  BY <1>1 DEF Moves, Commented

LEMMA NearGoto ==
    ASSUME NEW t, NEW y, Near(t, y), NEW s,
           GoodLevel(Lev(s, Top(y).saved, Top(y).current, Top(y).name))
    PROVE  /\ Near(t, Goto(y, s)) /\ Goto(y, s).hi = y.hi /\ Goto(y, s).quote = y.quote
           /\ Top(Goto(y, s)).state = s /\ Top(Goto(y, s)).saved = Top(y).saved
           /\ Top(Goto(y, s)).current = Top(y).current
<1>1. HasTop(Goto(y, s), y, s, Top(y).saved, Top(y).current, Top(y).name)
  BY GotoFields DEF Near
<1> QED
  BY <1>1, NearTop DEF HasTop, Has

LEMMA NearEscape ==
    ASSUME NEW t, NEW y, Near(t, y), NEW s,
           GoodLevel(Lev(s, Top(y).state, Top(y).current, Top(y).name))
    PROVE  /\ Near(t, Escape(y, s)) /\ Escape(y, s).hi = y.hi /\ Escape(y, s).quote = y.quote
           /\ Top(Escape(y, s)).state = s /\ Top(Escape(y, s)).saved = Top(y).state
           /\ Top(Escape(y, s)).current = Top(y).current
<1>1. HasTop(Escape(y, s), y, s, Top(y).state, Top(y).current, Top(y).name)
  BY EscapeFields DEF Near
<1> QED
  BY <1>1, NearTop DEF HasTop, Has

LEMMA NearExpect ==
    ASSUME NEW t, NEW y, Near(t, y), NEW s,
           GoodLevel(Lev("eatws", s, Top(y).current, Top(y).name))
    PROVE  /\ Near(t, Expect(y, s)) /\ Expect(y, s).hi = y.hi /\ Expect(y, s).quote = y.quote
           /\ Top(Expect(y, s)).state = "eatws" /\ Top(Expect(y, s)).saved = s
           /\ Top(Expect(y, s)).current = Top(y).current
<1>1. HasTop(Expect(y, s), y, "eatws", s, Top(y).current, Top(y).name)
  BY ExpectFields DEF Near
<1> QED
  BY <1>1, NearTop DEF HasTop, Has

LEMMA NearBecome ==
    ASSUME NEW t, NEW y, Near(t, y), NEW s, NEW v,
           GoodLevel(Lev("eatws", s, v, Top(y).name))
    PROVE  /\ Near(t, Become(y, s, v)) /\ Become(y, s, v).hi = y.hi /\ Become(y, s, v).quote = y.quote
           /\ Top(Become(y, s, v)).state = "eatws" /\ Top(Become(y, s, v)).saved = s
           /\ Top(Become(y, s, v)).current = v
<1>1. HasTop(Become(y, s, v), y, "eatws", s, v, Top(y).name)
  BY BecomeFields DEF Near
<1> QED
  BY <1>1, NearTop DEF HasTop, Has

LEMMA NearNamed ==
    ASSUME NEW t, NEW y, Near(t, y), NEW s, NEW n,
           GoodLevel(Lev("eatws", s, Top(y).current, n))
    PROVE  /\ Near(t, Named(y, s, n)) /\ Named(y, s, n).hi = y.hi /\ Named(y, s, n).quote = y.quote
           /\ Top(Named(y, s, n)).state = "eatws" /\ Top(Named(y, s, n)).saved = s
           /\ Top(Named(y, s, n)).current = Top(y).current
<1>1. HasTop(Named(y, s, n), y, "eatws", s, Top(y).current, n)
  BY NamedFields DEF Near
<1> QED
  BY <1>1, NearTop DEF HasTop, Has

LEMMA NearCollect ==
    ASSUME NEW t, NEW y, Near(t, y), NEW c \in Chars
    PROVE  Near(t, Collect(y, c)) /\ Top(Collect(y, c)) = Top(y) /\ Collect(y, c).hi = y.hi
           /\ Collect(y, c).quote = y.quote
<1>1. PICK x : x = Collect(y, c)
  OBVIOUS
<1>2. IsTok(x) /\ x.level = y.level /\ x.depth = y.depth /\ x.err = y.err /\ x.offset = y.offset
      /\ x.out = y.out /\ x.strict = y.strict /\ x.hi = y.hi /\ x.quote = y.quote
  BY <1>1, CollectFields DEF Has, Near
<1>3. Top(x) = Top(y)
  BY <1>2 DEF Top
<1> QED
  BY <1>1, <1>2, <1>3 DEF Near

LEMMA NearKeyword ==
    ASSUME NEW t, NEW y, Near(t, y)
    PROVE  Near(t, Keyword(y)) /\ Top(Keyword(y)) = Top(y) /\ Keyword(y).hi = y.hi
           /\ Keyword(y).quote = y.quote
<1>1. PICK x : x = Keyword(y)
  OBVIOUS
<1>2. IsTok(x) /\ x.level = y.level /\ x.depth = y.depth /\ x.err = y.err /\ x.offset = y.offset
      /\ x.out = y.out /\ x.strict = y.strict /\ x.hi = y.hi /\ x.quote = y.quote
  BY <1>1, KeywordFields DEF Has, Near
<1>3. Top(x) = Top(y)
  BY <1>2 DEF Top
<1> QED
  BY <1>1, <1>2, <1>3 DEF Near

LEMMA NearNumeral ==
    ASSUME NEW t, NEW y, Near(t, y)
    PROVE  Near(t, Numeral(y)) /\ Top(Numeral(y)) = Top(y) /\ Numeral(y).hi = y.hi
           /\ Numeral(y).quote = y.quote
<1>1. PICK x : x = Numeral(y)
  OBVIOUS
<1>2. IsTok(x) /\ x.level = y.level /\ x.depth = y.depth /\ x.err = y.err /\ x.offset = y.offset
      /\ x.out = y.out /\ x.strict = y.strict /\ x.hi = y.hi /\ x.quote = y.quote
  BY <1>1, NumeralFields DEF Has, Near
<1>3. Top(x) = Top(y)
  BY <1>2 DEF Top
<1> QED
  BY <1>1, <1>2, <1>3 DEF Near

LEMMA NearQuoted ==
    ASSUME NEW t, NEW y, Near(t, y), NEW c
    PROVE  Near(t, Quoted(y, c)) /\ Top(Quoted(y, c)) = Top(y) /\ Quoted(y, c).hi = y.hi
           /\ Quoted(y, c).quote = c
<1>1. PICK x : x = Quoted(y, c)
  OBVIOUS
<1>2. IsTok(x) /\ x.level = y.level /\ x.depth = y.depth /\ x.err = y.err /\ x.offset = y.offset
      /\ x.out = y.out /\ x.strict = y.strict /\ x.hi = y.hi /\ x.quote = c
  BY <1>1, QuotedFields DEF Has, Near
<1>3. Top(x) = Top(y)
  BY <1>2 DEF Top
<1> QED
  BY <1>1, <1>2, <1>3 DEF Near

LEMMA NearCounted ==
    ASSUME NEW t, NEW y, Near(t, y), NEW n \in Nat
    PROVE  Near(t, Counted(y, n)) /\ Top(Counted(y, n)) = Top(y) /\ Counted(y, n).hi = y.hi
           /\ Counted(y, n).quote = y.quote
<1>1. PICK x : x = Counted(y, n)
  OBVIOUS
<1>2. IsTok(x) /\ x.level = y.level /\ x.depth = y.depth /\ x.err = y.err /\ x.offset = y.offset
      /\ x.out = y.out /\ x.strict = y.strict /\ x.hi = y.hi /\ x.quote = y.quote
  BY <1>1, CountedFields DEF Has, Near
<1>3. Top(x) = Top(y)
  BY <1>2 DEF Top
<1> QED
  BY <1>1, <1>2, <1>3 DEF Near

LEMMA NearLengthened ==
    ASSUME NEW t, NEW y, Near(t, y)
    PROVE  Near(t, Lengthened(y)) /\ Top(Lengthened(y)) = Top(y) /\ Lengthened(y).hi = y.hi
           /\ Lengthened(y).quote = y.quote
<1>1. PICK x : x = Lengthened(y)
  OBVIOUS
<1>2. IsTok(x) /\ x.level = y.level /\ x.depth = y.depth /\ x.err = y.err /\ x.offset = y.offset
      /\ x.out = y.out /\ x.strict = y.strict /\ x.hi = y.hi /\ x.quote = y.quote
  BY <1>1, LengthenedFields DEF Has, Near
<1>3. Top(x) = Top(y)
  BY <1>2 DEF Top
<1> QED
  BY <1>1, <1>2, <1>3 DEF Near

LEMMA NearFirstDigit ==
    ASSUME NEW t, NEW y, Near(t, y)
    PROVE  Near(t, FirstDigit(y)) /\ Top(FirstDigit(y)) = Top(y) /\ FirstDigit(y).hi = y.hi
           /\ FirstDigit(y).quote = y.quote
<1>1. PICK x : x = FirstDigit(y)
  OBVIOUS
<1>2. IsTok(x) /\ x.level = y.level /\ x.depth = y.depth /\ x.err = y.err /\ x.offset = y.offset
      /\ x.out = y.out /\ x.strict = y.strict /\ x.hi = y.hi /\ x.quote = y.quote
  BY <1>1, FirstDigitFields DEF Has, Near
<1>3. Top(x) = Top(y)
  BY <1>2 DEF Top
<1> QED
  BY <1>1, <1>2, <1>3 DEF Near

LEMMA PushMoves ==
    ASSUME NEW str, NEW t, Ready(t, str), NEW s \in AddStates, NEW c,
           Top(t).state \in {"array", "array_after_sep", "object_value"},
           s = "array_add" <=> Top(t).state # "object_value"
    PROVE  Moves(t, Push(t, s), c, str)
<1>0. Near(t, t) /\ IsTok(t) /\ ~t.hi /\ GoodLevel(Top(t))
  BY NearItself DEF Near
<1>1. CASE TooDeep(t)
  BY <1>0, <1>1, NearFail DEF Push, Errors
<1>2. CASE ~TooDeep(t)
  <2>1. PICK y : y = Goto(t, s)
    OBVIOUS
  <2>2. GoodLevel(Lev(s, Top(t).saved, Top(t).current, Top(t).name))
    BY <1>0, LevFields DEF GoodLevel, States, AfterBlanks, Blank, Within, InString, InEscape, AddStates,
       ArrayStates, ObjectStates
  <2>3. Near(t, y) /\ ~y.hi /\ Top(y).state = s
    BY <1>0, <2>1, <2>2, NearGoto
  <2>4. t.depth + 1 < MaxDepth /\ t.depth \in Nat /\ MaxDepth \in Nat
    BY <1>0, <1>2, TokenerAssumption DEF TooDeep, IsTok
  <2>5. PICK x : x = Deeper(y)
    OBVIOUS
  <2>6. Has(x, LevelWith(y.level, y.depth + 1, Empty), y.depth + 1, y.err, y.pb, y.pos, y.quote,
            y.strict, y.offset, y.hi, y.caseLen, y.obj, y.out)
    BY <2>3, <2>4, <2>5, DeeperFields DEF Near
  <2>7. PICK lv, n : n = y.depth + 1 /\ lv = LevelWith(y.level, n, Empty)
    OBVIOUS
  <2>18. Levels(y.level) /\ n \in 0 .. MaxDepth /\ n = y.depth + 1
    BY <2>3, <2>4, <2>7 DEF Near, IsTok
  <2>19. lv[n] = Empty /\ \A d \in 0 .. MaxDepth : d # n => lv[d] = y.level[d]
    BY <2>7, <2>18, LevelWithFacts, EmptyLevel
  <2>8. /\ lv[y.depth + 1] = Empty
        /\ \A d \in 0 .. MaxDepth : d # y.depth + 1 => lv[d] = y.level[d]
    BY <2>18, <2>19
  <2>9. GoodLevel(Empty) /\ Empty.state = "eatws" /\ Empty.saved = "start"
    BY DEF Empty, GoodLevel, States, AfterBlanks, Blank, Within, InString, InEscape, AddStates,
       ArrayStates, ObjectStates
  <2>10. /\ \A d \in 0 .. MaxDepth : GoodLevel(lv[d])
         /\ \A d \in 0 .. MaxDepth : d > y.depth + 1 => lv[d] = Empty
    BY <2>3, <2>4, <2>8, <2>9 DEF Near, Stack
  <2>11. \A d \in 0 .. MaxDepth : d < y.depth + 1 => lv[d].state \in AddStates
    BY <2>3, <2>4, <2>8 DEF Near, Stack, Top
  <2>12. Stack(lv, y.depth + 1)
    BY <2>10, <2>11 DEF Stack
  <2>13. Top(x) = Empty
    BY <2>6, <2>7, <2>8 DEF Top, Has
  <2>14. Sane(x, Len(str)) /\ x.offset = t.offset /\ x.strict = t.strict /\ x.err = "success" /\ ~x.out
    BY <2>3, <2>6, <2>7, <2>9, <2>12, <2>13 DEF Near, Ready, Sane, Has, AddStates, QuoteKnown, InString,
       InEscape
  <2>15. Rank(x) < Rank(t)
    BY <2>9, <2>13 DEF Rank, RankOf, AddStates
  <2>16. Push(t, s) = x
    BY <1>2, <2>1, <2>5 DEF Push
  <2>17. x.offset >= t.offset
    BY <2>14 DEF Ready, Sane, IsTok
  <2> QED
    BY <2>9, <2>13, <2>14, <2>15, <2>16, <2>17 DEF Moves, Commented, Within
<1> QED
  BY <1>1, <1>2

LEMMA EatWsMoves ==
    ASSUME NEW str, NEW t, NEW c \in Chars, Ready(t, str), Top(t).state = "eatws"
    PROVE  Moves(t, EatWs(t, c), c, str)
<1>0. Near(t, t) /\ IsTok(t) /\ ~t.hi /\ GoodLevel(Top(t)) /\ QuoteKnown(t)
  BY NearItself DEF Near, InString
<1>1. CASE c \in Blanks
  <2>1. EatWs(t, c) = Advance(t, c)
    BY <1>1 DEF EatWs, Blanks
  <2>2. c # Nul
    BY <1>1 DEF Nul, Blanks, NumberChars
  <2> QED
    BY <1>1, <1>0, <2>2, <2>1, NearAdvance DEF AddStates, Blank, Within, QuoteKnown, GoodLevel, InString,
       InEscape, AfterBlanks
<1>2. CASE c \notin Blanks /\ c = "/" /\ ~t.strict
  <2>1. PICK y1 : y1 = Goto(t, "comment_start")
    OBVIOUS
  <2>2. GoodLevel(Lev("comment_start", Top(t).saved, Top(t).current, Top(t).name))
    BY <1>2, <1>0, <2>1, LevFields DEF GoodLevel, States, AfterBlanks, Blank, Within, InString, InEscape,
       AddStates, ArrayStates, ObjectStates
  <2>3. Near(t, y1) /\ ~y1.hi /\ Top(y1).state = "comment_start" /\ Top(y1).saved = Top(t).saved
            /\ y1.quote = t.quote
    BY <1>0, <2>1, <2>2, NearGoto
  <2>4. EatWs(t, c) = Advance(y1, c)
    BY <1>2, <2>1 DEF EatWs, Blanks
  <2>5. c # Nul
    BY <1>2 DEF Nul, Blanks, NumberChars
  <2> QED
    BY <1>2, <1>0, <2>1, <2>3, <2>5, <2>4, NearAdvance DEF AddStates, Blank, Within, QuoteKnown, GoodLevel,
       InString, InEscape, AfterBlanks
<1>3. CASE c \notin Blanks /\ ~(c = "/" /\ ~t.strict)
  <2>1. PICK y1 : y1 = Goto(t, Top(t).saved)
    OBVIOUS
  <2>2. GoodLevel(Lev(Top(t).saved, Top(t).saved, Top(t).current, Top(t).name))
    BY <1>3, <1>0, <2>1, LevFields DEF GoodLevel, States, AfterBlanks, Blank, Within, InString, InEscape,
       AddStates, ArrayStates, ObjectStates
  <2>3. Near(t, y1) /\ ~y1.hi /\ Top(y1).state = Top(t).saved /\ Top(y1).saved = Top(t).saved
            /\ y1.quote = t.quote
    BY <1>0, <2>1, <2>2, NearGoto
  <2>4. EatWs(t, c) = y1
    BY <1>3, <2>1 DEF EatWs, Blanks
  <2>5. Rank(y1) < Rank(t)
    BY <1>0, <2>1, <2>3 DEF Rank, RankOf, AddStates, Blank, Within, QuoteKnown, GoodLevel, InString,
       InEscape, AfterBlanks
  <2> QED
    BY <1>0, <2>1, <2>3, <2>4, <2>5, NearStays DEF AddStates, Blank, Within, QuoteKnown, GoodLevel,
       InString, InEscape, AfterBlanks
<1> QED
  BY <1>1, <1>2, <1>3 DEF InString

LEMMA CommentStartMoves ==
    ASSUME NEW str, NEW t, NEW c \in Chars, Ready(t, str), Top(t).state = "comment_start"
    PROVE  Moves(t, CommentStart(t, c), c, str)
<1>0. Near(t, t) /\ IsTok(t) /\ ~t.hi /\ GoodLevel(Top(t)) /\ QuoteKnown(t)
  BY NearItself DEF Near, InString
<1>1. CASE c = "*"
  <2>1. PICK y1 : y1 = Goto(t, "comment")
    OBVIOUS
  <2>2. GoodLevel(Lev("comment", Top(t).saved, Top(t).current, Top(t).name))
    BY <1>1, <1>0, <2>1, LevFields DEF GoodLevel, States, AfterBlanks, Blank, Within, InString, InEscape,
       AddStates, ArrayStates, ObjectStates
  <2>3. Near(t, y1) /\ ~y1.hi /\ Top(y1).state = "comment" /\ Top(y1).saved = Top(t).saved
            /\ y1.quote = t.quote
    BY <1>0, <2>1, <2>2, NearGoto
  <2>4. CommentStart(t, c) = Advance(y1, c)
    BY <1>1, <2>1 DEF CommentStart
  <2>5. c # Nul
    BY <1>1 DEF Nul, Blanks, NumberChars
  <2> QED
    BY <1>1, <1>0, <2>1, <2>3, <2>5, <2>4, NearAdvance DEF AddStates, Blank, Within, QuoteKnown, GoodLevel,
       InString, InEscape, AfterBlanks
<1>2. CASE c = "/"
  <2>1. PICK y1 : y1 = Goto(t, "comment_eol")
    OBVIOUS
  <2>2. GoodLevel(Lev("comment_eol", Top(t).saved, Top(t).current, Top(t).name))
    BY <1>2, <1>0, <2>1, LevFields DEF GoodLevel, States, AfterBlanks, Blank, Within, InString, InEscape,
       AddStates, ArrayStates, ObjectStates
  <2>3. Near(t, y1) /\ ~y1.hi /\ Top(y1).state = "comment_eol" /\ Top(y1).saved = Top(t).saved
            /\ y1.quote = t.quote
    BY <1>0, <2>1, <2>2, NearGoto
  <2>4. CommentStart(t, c) = Advance(y1, c)
    BY <1>2, <2>1 DEF CommentStart
  <2>5. c # Nul
    BY <1>2 DEF Nul, Blanks, NumberChars
  <2> QED
    BY <1>2, <1>0, <2>1, <2>3, <2>5, <2>4, NearAdvance DEF AddStates, Blank, Within, QuoteKnown, GoodLevel,
       InString, InEscape, AfterBlanks
<1>3. CASE c \notin {"*", "/"}
  <2>1. CommentStart(t, c) = Fail(t, "comment")
    BY <1>3 DEF CommentStart
  <2> QED
    BY <1>0, <2>1, NearFail DEF Errors
<1> QED
  BY <1>1, <1>2, <1>3 DEF InString

LEMMA CommentMoves ==
    ASSUME NEW str, NEW t, NEW c \in Chars, Ready(t, str), Top(t).state = "comment"
    PROVE  Moves(t, Comment(t, c), c, str)
<1>0. Near(t, t) /\ IsTok(t) /\ ~t.hi /\ GoodLevel(Top(t)) /\ QuoteKnown(t)
  BY NearItself DEF Near, InString
<1>1. CASE c = "*"
  <2>1. PICK y1 : y1 = Goto(t, "comment_end")
    OBVIOUS
  <2>2. GoodLevel(Lev("comment_end", Top(t).saved, Top(t).current, Top(t).name))
    BY <1>1, <1>0, <2>1, LevFields DEF GoodLevel, States, AfterBlanks, Blank, Within, InString, InEscape,
       AddStates, ArrayStates, ObjectStates
  <2>3. Near(t, y1) /\ ~y1.hi /\ Top(y1).state = "comment_end" /\ Top(y1).saved = Top(t).saved
            /\ y1.quote = t.quote
    BY <1>0, <2>1, <2>2, NearGoto
  <2>4. Comment(t, c) = Advance(y1, c)
    BY <1>1, <2>1 DEF Comment
  <2>5. c # Nul
    BY <1>1 DEF Nul, Blanks, NumberChars
  <2> QED
    BY <1>1, <1>0, <2>1, <2>3, <2>5, <2>4, NearAdvance DEF AddStates, Blank, Within, QuoteKnown, GoodLevel,
       InString, InEscape, AfterBlanks
<1>2. CASE c # "*"
  <2>1. Comment(t, c) = Advance(t, c)
    BY <1>2 DEF Comment
  <2> QED
    BY <1>2, <1>0, <2>1, NearAdvance DEF AddStates, Blank, Within, QuoteKnown, GoodLevel, InString,
       InEscape, AfterBlanks
<1> QED
  BY <1>1, <1>2 DEF InString

LEMMA CommentEolMoves ==
    ASSUME NEW str, NEW t, NEW c \in Chars, Ready(t, str), Top(t).state = "comment_eol"
    PROVE  Moves(t, CommentEol(t, c), c, str)
<1>0. Near(t, t) /\ IsTok(t) /\ ~t.hi /\ GoodLevel(Top(t)) /\ QuoteKnown(t)
  BY NearItself DEF Near, InString
<1>1. CASE c = "\n"
  <2>1. PICK y1 : y1 = Goto(t, "eatws")
    OBVIOUS
  <2>2. GoodLevel(Lev("eatws", Top(t).saved, Top(t).current, Top(t).name))
    BY <1>1, <1>0, <2>1, LevFields DEF GoodLevel, States, AfterBlanks, Blank, Within, InString, InEscape,
       AddStates, ArrayStates, ObjectStates
  <2>3. Near(t, y1) /\ ~y1.hi /\ Top(y1).state = "eatws" /\ Top(y1).saved = Top(t).saved
            /\ y1.quote = t.quote
    BY <1>0, <2>1, <2>2, NearGoto
  <2>4. CommentEol(t, c) = Advance(y1, c)
    BY <1>1, <2>1 DEF CommentEol
  <2>5. c # Nul
    BY <1>1 DEF Nul, Blanks, NumberChars
  <2> QED
    BY <1>1, <1>0, <2>1, <2>3, <2>5, <2>4, NearAdvance DEF AddStates, Blank, Within, QuoteKnown, GoodLevel,
       InString, InEscape, AfterBlanks
<1>2. CASE c # "\n"
  <2>1. CommentEol(t, c) = Advance(t, c)
    BY <1>2 DEF CommentEol
  <2> QED
    BY <1>2, <1>0, <2>1, NearAdvance DEF AddStates, Blank, Within, QuoteKnown, GoodLevel, InString,
       InEscape, AfterBlanks
<1> QED
  BY <1>1, <1>2 DEF InString

LEMMA CommentEndMoves ==
    ASSUME NEW str, NEW t, NEW c \in Chars, Ready(t, str), Top(t).state = "comment_end"
    PROVE  Moves(t, CommentEnd(t, c), c, str)
<1>0. Near(t, t) /\ IsTok(t) /\ ~t.hi /\ GoodLevel(Top(t)) /\ QuoteKnown(t)
  BY NearItself DEF Near, InString
<1>1. CASE c = "/"
  <2>1. PICK y1 : y1 = Goto(t, "eatws")
    OBVIOUS
  <2>2. GoodLevel(Lev("eatws", Top(t).saved, Top(t).current, Top(t).name))
    BY <1>1, <1>0, <2>1, LevFields DEF GoodLevel, States, AfterBlanks, Blank, Within, InString, InEscape,
       AddStates, ArrayStates, ObjectStates
  <2>3. Near(t, y1) /\ ~y1.hi /\ Top(y1).state = "eatws" /\ Top(y1).saved = Top(t).saved
            /\ y1.quote = t.quote
    BY <1>0, <2>1, <2>2, NearGoto
  <2>4. CommentEnd(t, c) = Advance(y1, c)
    BY <1>1, <2>1 DEF CommentEnd
  <2>5. c # Nul
    BY <1>1 DEF Nul, Blanks, NumberChars
  <2> QED
    BY <1>1, <1>0, <2>1, <2>3, <2>5, <2>4, NearAdvance DEF AddStates, Blank, Within, QuoteKnown, GoodLevel,
       InString, InEscape, AfterBlanks
<1>2. CASE c # "/"
  <2>1. PICK y1 : y1 = Goto(t, "comment")
    OBVIOUS
  <2>2. GoodLevel(Lev("comment", Top(t).saved, Top(t).current, Top(t).name))
    BY <1>2, <1>0, <2>1, LevFields DEF GoodLevel, States, AfterBlanks, Blank, Within, InString, InEscape,
       AddStates, ArrayStates, ObjectStates
  <2>3. Near(t, y1) /\ ~y1.hi /\ Top(y1).state = "comment" /\ Top(y1).saved = Top(t).saved
            /\ y1.quote = t.quote
    BY <1>0, <2>1, <2>2, NearGoto
  <2>4. CommentEnd(t, c) = Advance(y1, c)
    BY <1>2, <2>1 DEF CommentEnd
  <2> QED
    BY <1>2, <1>0, <2>1, <2>3, <2>4, NearAdvance DEF AddStates, Blank, Within, QuoteKnown, GoodLevel,
       InString, InEscape, AfterBlanks
<1> QED
  BY <1>1, <1>2 DEF InString

LEMMA StartMoves ==
    ASSUME NEW str, NEW t, NEW c \in Chars, Ready(t, str), Top(t).state = "start"
    PROVE  Moves(t, Start(t, c), c, str)
<1>0. Near(t, t) /\ IsTok(t) /\ ~t.hi /\ GoodLevel(Top(t)) /\ QuoteKnown(t)
  BY NearItself DEF Near, InString
<1>1. CASE c = "{"
  <2>1. PICK y1 : y1 = Become(t, "object_field_start", <<"object", <<>>>>)
    OBVIOUS
  <2>2. GoodLevel(Lev("eatws", "object_field_start", <<"object", <<>>>>, Top(t).name))
    BY <1>0, <2>1, LevFields DEF GoodLevel, States, AfterBlanks, Blank, Within, InString, InEscape,
       AddStates, ArrayStates, ObjectStates
  <2>3. Near(t, y1) /\ ~y1.hi /\ Top(y1).state = "eatws" /\ Top(y1).saved = "object_field_start"
            /\ y1.quote = t.quote
    BY <1>0, <2>1, <2>2, NearBecome
  <2>4. Start(t, c) = Advance(y1, c)
    BY <1>1, <2>1 DEF Start
  <2>5. c # Nul
    BY <1>1 DEF Nul, Blanks, NumberChars
  <2> QED
    BY <1>0, <2>1, <2>3, <2>5, <2>4, NearAdvance DEF AddStates, Blank, Within, QuoteKnown, GoodLevel,
       InString, InEscape, AfterBlanks
<1>2. CASE c = "["
  <2>1. PICK y1 : y1 = Become(t, "array", <<"array", <<>>>>)
    OBVIOUS
  <2>2. GoodLevel(Lev("eatws", "array", <<"array", <<>>>>, Top(t).name))
    BY <1>2, <1>0, <2>1, LevFields DEF GoodLevel, States, AfterBlanks, Blank, Within, InString, InEscape,
       AddStates, ArrayStates, ObjectStates
  <2>3. Near(t, y1) /\ ~y1.hi /\ Top(y1).state = "eatws" /\ Top(y1).saved = "array" /\ y1.quote = t.quote
    BY <1>0, <2>1, <2>2, NearBecome
  <2>4. Start(t, c) = Advance(y1, c)
    BY <1>2, <2>1 DEF Start
  <2>5. c # Nul
    BY <1>2 DEF Nul, Blanks, NumberChars
  <2> QED
    BY <1>2, <1>0, <2>1, <2>3, <2>5, <2>4, NearAdvance DEF AddStates, Blank, Within, QuoteKnown, GoodLevel,
       InString, InEscape, AfterBlanks
<1>3. CASE c \in {"i", "I"}
  <2>1. PICK y1 : y1 = Goto(t, "inf")
    OBVIOUS
  <2>2. GoodLevel(Lev("inf", Top(t).saved, Top(t).current, Top(t).name))
    BY <1>3, <1>0, <2>1, LevFields DEF GoodLevel, States, AfterBlanks, Blank, Within, InString, InEscape,
       AddStates, ArrayStates, ObjectStates
  <2>3. Near(t, y1) /\ ~y1.hi /\ Top(y1).state = "inf" /\ Top(y1).saved = Top(t).saved /\ y1.quote = t.quote
    BY <1>0, <2>1, <2>2, NearGoto
  <2>4. PICK y2 : y2 = Keyword(y1)
    OBVIOUS
  <2>5. Near(t, y2) /\ ~y2.hi /\ Top(y2) = Top(y1) /\ y2.quote = y1.quote
    BY <1>0, <2>1, <2>3, <2>4, NearKeyword
  <2>6. Start(t, c) = y2
    BY <1>3, <2>1, <2>4 DEF Start
  <2>7. Rank(y2) < Rank(t)
    BY <1>0, <2>1, <2>3, <2>4, <2>5 DEF Rank, RankOf, AddStates, Blank, Within, QuoteKnown, GoodLevel,
       InString, InEscape, AfterBlanks
  <2> QED
    BY <1>0, <2>1, <2>3, <2>4, <2>5, <2>6, <2>7, NearStays DEF AddStates, Blank, Within, QuoteKnown,
       GoodLevel, InString, InEscape, AfterBlanks
<1>4. CASE c \in {"n", "N"}
  <2>1. PICK y1 : y1 = Goto(t, "null")
    OBVIOUS
  <2>2. GoodLevel(Lev("null", Top(t).saved, Top(t).current, Top(t).name))
    BY <1>4, <1>0, <2>1, LevFields DEF GoodLevel, States, AfterBlanks, Blank, Within, InString, InEscape,
       AddStates, ArrayStates, ObjectStates
  <2>3. Near(t, y1) /\ ~y1.hi /\ Top(y1).state = "null" /\ Top(y1).saved = Top(t).saved
            /\ y1.quote = t.quote
    BY <1>0, <2>1, <2>2, NearGoto
  <2>4. PICK y2 : y2 = Keyword(y1)
    OBVIOUS
  <2>5. Near(t, y2) /\ ~y2.hi /\ Top(y2) = Top(y1) /\ y2.quote = y1.quote
    BY <1>0, <2>1, <2>3, <2>4, NearKeyword
  <2>6. Start(t, c) = y2
    BY <1>4, <2>1, <2>4 DEF Start
  <2>7. Rank(y2) < Rank(t)
    BY <1>0, <2>1, <2>3, <2>4, <2>5 DEF Rank, RankOf, AddStates, Blank, Within, QuoteKnown, GoodLevel,
       InString, InEscape, AfterBlanks
  <2> QED
    BY <1>0, <2>1, <2>3, <2>4, <2>5, <2>6, <2>7, NearStays DEF AddStates, Blank, Within, QuoteKnown,
       GoodLevel, InString, InEscape, AfterBlanks
<1>5. CASE c \in {"t", "f"}
  <2>1. PICK y1 : y1 = Goto(t, "boolean")
    OBVIOUS
  <2>2. GoodLevel(Lev("boolean", Top(t).saved, Top(t).current, Top(t).name))
    BY <1>5, <1>0, <2>1, LevFields DEF GoodLevel, States, AfterBlanks, Blank, Within, InString, InEscape,
       AddStates, ArrayStates, ObjectStates
  <2>3. Near(t, y1) /\ ~y1.hi /\ Top(y1).state = "boolean" /\ Top(y1).saved = Top(t).saved
            /\ y1.quote = t.quote
    BY <1>0, <2>1, <2>2, NearGoto
  <2>4. PICK y2 : y2 = Keyword(y1)
    OBVIOUS
  <2>5. Near(t, y2) /\ ~y2.hi /\ Top(y2) = Top(y1) /\ y2.quote = y1.quote
    BY <1>0, <2>1, <2>3, <2>4, NearKeyword
  <2>6. Start(t, c) = y2
    BY <1>5, <2>1, <2>4 DEF Start
  <2>7. Rank(y2) < Rank(t)
    BY <1>0, <2>1, <2>3, <2>4, <2>5 DEF Rank, RankOf, AddStates, Blank, Within, QuoteKnown, GoodLevel,
       InString, InEscape, AfterBlanks
  <2> QED
    BY <1>0, <2>1, <2>3, <2>4, <2>5, <2>6, <2>7, NearStays DEF AddStates, Blank, Within, QuoteKnown,
       GoodLevel, InString, InEscape, AfterBlanks
<1>6. CASE c = "\"" \/ (c = "'" /\ ~t.strict)
  <2>1. PICK y1 : y1 = Goto(t, "string")
    OBVIOUS
  <2>2. GoodLevel(Lev("string", Top(t).saved, Top(t).current, Top(t).name))
    BY <1>0, <2>1, LevFields DEF GoodLevel, States, AfterBlanks, Blank, Within, InString, InEscape,
       AddStates, ArrayStates, ObjectStates
  <2>3. Near(t, y1) /\ ~y1.hi /\ Top(y1).state = "string" /\ Top(y1).saved = Top(t).saved
            /\ y1.quote = t.quote
    BY <1>0, <2>1, <2>2, NearGoto
  <2>4. PICK y2 : y2 = Quoted(y1, c)
    OBVIOUS
  <2>5. Near(t, y2) /\ ~y2.hi /\ Top(y2) = Top(y1) /\ y2.quote = c
    BY <1>0, <2>1, <2>3, <2>4, NearQuoted
  <2>6. Start(t, c) = Advance(y2, c)
    BY <1>6, <2>1, <2>4 DEF Start
  <2>7. c \notin {Nul, "\\"}
    BY <1>6 DEF Nul
  <2> QED
    BY <1>0, <2>1, <2>3, <2>4, <2>5, <2>7, <2>6, NearAdvance DEF AddStates, Blank, Within, QuoteKnown,
       GoodLevel, InString, InEscape, AfterBlanks
<1>7. CASE c \in {"0", "1", "-"}
  <2>1. PICK y1 : y1 = Goto(t, "number")
    OBVIOUS
  <2>2. GoodLevel(Lev("number", Top(t).saved, Top(t).current, Top(t).name))
    BY <1>7, <1>0, <2>1, LevFields DEF GoodLevel, States, AfterBlanks, Blank, Within, InString, InEscape,
       AddStates, ArrayStates, ObjectStates
  <2>3. Near(t, y1) /\ ~y1.hi /\ Top(y1).state = "number" /\ Top(y1).saved = Top(t).saved
            /\ y1.quote = t.quote
    BY <1>0, <2>1, <2>2, NearGoto
  <2>4. PICK y2 : y2 = Numeral(y1)
    OBVIOUS
  <2>5. Near(t, y2) /\ ~y2.hi /\ Top(y2) = Top(y1) /\ y2.quote = y1.quote
    BY <1>0, <2>1, <2>3, <2>4, NearNumeral
  <2>6. Start(t, c) = y2
    BY <1>7, <2>1, <2>4 DEF Start
  <2>7. Rank(y2) < Rank(t)
    BY <1>0, <2>1, <2>3, <2>4, <2>5 DEF Rank, RankOf, AddStates, Blank, Within, QuoteKnown, GoodLevel,
       InString, InEscape, AfterBlanks
  <2> QED
    BY <1>0, <2>1, <2>3, <2>4, <2>5, <2>6, <2>7, NearStays DEF AddStates, Blank, Within, QuoteKnown,
       GoodLevel, InString, InEscape, AfterBlanks
<1>8. CASE c \notin {"{", "[", "i", "I", "n", "N", "t", "f", "\"", "0", "1", "-"} /\ ~(c = "'" /\ ~t.strict)
  <2>1. Start(t, c) = Fail(t, "unexpected")
    BY <1>8 DEF Start
  <2> QED
    BY <1>0, <2>1, NearFail DEF Errors
<1> QED
  BY <1>1, <1>2, <1>3, <1>4, <1>5, <1>6, <1>7, <1>8 DEF InString

LEMMA StringMoves ==
    ASSUME NEW str, NEW t, NEW c \in Chars, Ready(t, str), Top(t).state \in InString
    PROVE  Moves(t, String(t, c), c, str)
<1>0. Near(t, t) /\ IsTok(t) /\ ~t.hi /\ GoodLevel(Top(t)) /\ QuoteKnown(t)
  BY NearItself DEF Near, InString
<1>1. CASE c = t.quote /\ Top(t).state = "string"
  <2>1. PICK y1 : y1 = Become(t, "finish", <<"string", t.pb>>)
    OBVIOUS
  <2>2. GoodLevel(Lev("eatws", "finish", <<"string", t.pb>>, Top(t).name))
    BY <1>1, <1>0, <2>1, LevFields DEF GoodLevel, States, AfterBlanks, Blank, Within, InString, InEscape,
       AddStates, ArrayStates, ObjectStates
  <2>3. Near(t, y1) /\ ~y1.hi /\ Top(y1).state = "eatws" /\ Top(y1).saved = "finish" /\ y1.quote = t.quote
    BY <1>0, <2>1, <2>2, NearBecome
  <2>4. String(t, c) = Advance(y1, c)
    BY <1>1, <2>1, <1>0 DEF String, Make, QuoteKnown, InString
  <2>5. c # Nul
    BY <1>1, <1>0 DEF Nul, Blanks, NumberChars, QuoteKnown, InString, InEscape
  <2> QED
    BY <1>1, <1>0, <2>1, <2>3, <2>5, <2>4, NearAdvance DEF AddStates, Blank, Within, QuoteKnown, GoodLevel,
       InString, InEscape, AfterBlanks
<1>2. CASE c = t.quote /\ Top(t).state = "object_field"
  <2>1. PICK y1 : y1 = Named(t, "object_field_end", t.pb)
    OBVIOUS
  <2>2. GoodLevel(Lev("eatws", "object_field_end", Top(t).current, t.pb))
    BY <1>2, <1>0, <2>1, LevFields DEF GoodLevel, States, AfterBlanks, Blank, Within, InString, InEscape,
       AddStates, ArrayStates, ObjectStates
  <2>3. Near(t, y1) /\ ~y1.hi /\ Top(y1).state = "eatws" /\ Top(y1).saved = "object_field_end"
            /\ y1.quote = t.quote
    BY <1>0, <2>1, <2>2, NearNamed
  <2>4. String(t, c) = Advance(y1, c)
    BY <1>2, <2>1, <1>0 DEF String, Make, QuoteKnown, InString
  <2>5. c # Nul
    BY <1>2, <1>0 DEF Nul, Blanks, NumberChars, QuoteKnown, InString, InEscape
  <2> QED
    BY <1>2, <1>0, <2>1, <2>3, <2>5, <2>4, NearAdvance DEF AddStates, Blank, Within, QuoteKnown, GoodLevel,
       InString, InEscape, AfterBlanks
<1>3. CASE c # t.quote /\ c = "\\"
  <2>1. PICK y1 : y1 = Escape(t, "string_escape")
    OBVIOUS
  <2>2. GoodLevel(Lev("string_escape", Top(t).state, Top(t).current, Top(t).name))
    BY <1>0, <2>1, LevFields DEF GoodLevel, States, AfterBlanks, Blank, Within, InString, InEscape,
       AddStates, ArrayStates, ObjectStates
  <2>3. Near(t, y1) /\ ~y1.hi /\ Top(y1).state = "string_escape" /\ Top(y1).saved = Top(t).state
            /\ y1.quote = t.quote
    BY <1>0, <2>1, <2>2, NearEscape
  <2>4. String(t, c) = Advance(y1, c)
    BY <1>3, <2>1, <1>0 DEF String, Make, QuoteKnown, InString
  <2>5. c # Nul
    BY <1>3, <1>0 DEF Nul, Blanks, NumberChars, QuoteKnown, InString, InEscape
  <2> QED
    BY <1>0, <2>1, <2>3, <2>5, <2>4, NearAdvance DEF AddStates, Blank, Within, QuoteKnown, GoodLevel,
       InString, InEscape, AfterBlanks
<1>4. CASE c # t.quote /\ c # "\\"
  <2>1. PICK y1 : y1 = Collect(t, c)
    OBVIOUS
  <2>2. Near(t, y1) /\ ~y1.hi /\ Top(y1) = Top(t) /\ y1.quote = t.quote
    BY <1>0, <2>1, NearCollect
  <2>3. String(t, c) = Advance(y1, c)
    BY <1>4, <2>1, <1>0 DEF String, Make, QuoteKnown, InString
  <2> QED
    BY <1>0, <2>1, <2>2, <2>3, NearAdvance DEF AddStates, Blank, Within, QuoteKnown, GoodLevel, InString,
       InEscape, AfterBlanks
<1> QED
  BY <1>1, <1>2, <1>3, <1>4, <1>0 DEF InString

LEMMA StringEscapeMoves ==
    ASSUME NEW str, NEW t, NEW c \in Chars, Ready(t, str), Top(t).state = "string_escape"
    PROVE  Moves(t, StringEscape(t, c), c, str)
<1>0. Near(t, t) /\ IsTok(t) /\ ~t.hi /\ GoodLevel(Top(t)) /\ QuoteKnown(t)
  BY NearItself DEF Near, InString
<1>1. CASE c \in {"\"", "\\", "/"}
  <2>1. PICK y1 : y1 = Goto(t, Top(t).saved)
    OBVIOUS
  <2>2. GoodLevel(Lev(Top(t).saved, Top(t).saved, Top(t).current, Top(t).name))
    BY <1>0, <2>1, LevFields DEF GoodLevel, States, AfterBlanks, Blank, Within, InString, InEscape,
       AddStates, ArrayStates, ObjectStates
  <2>3. Near(t, y1) /\ ~y1.hi /\ Top(y1).state = Top(t).saved /\ Top(y1).saved = Top(t).saved
            /\ y1.quote = t.quote
    BY <1>0, <2>1, <2>2, NearGoto
  <2>4. PICK y2 : y2 = Collect(y1, c)
    OBVIOUS
  <2>5. Near(t, y2) /\ ~y2.hi /\ Top(y2) = Top(y1) /\ y2.quote = y1.quote
    BY <1>0, <2>1, <2>3, <2>4, NearCollect
  <2>6. StringEscape(t, c) = Advance(y2, c)
    BY <1>1, <2>1, <2>4 DEF StringEscape
  <2>7. c # Nul
    BY <1>1 DEF Nul, Blanks, NumberChars
  <2> QED
    BY <1>0, <2>1, <2>3, <2>4, <2>5, <2>7, <2>6, NearAdvance DEF AddStates, Blank, Within, QuoteKnown,
       GoodLevel, InString, InEscape, AfterBlanks
<1>2. CASE c = "n"
  <2>1. PICK lf \in Chars : lf = "\n"
    BY DEF Chars
  <2>2. PICK y1 : y1 = Goto(t, Top(t).saved)
    OBVIOUS
  <2>3. GoodLevel(Lev(Top(t).saved, Top(t).saved, Top(t).current, Top(t).name))
    BY <1>2, <1>0, <2>2, LevFields DEF GoodLevel, States, AfterBlanks, Blank, Within, InString, InEscape,
       AddStates, ArrayStates, ObjectStates
  <2>4. Near(t, y1) /\ ~y1.hi /\ Top(y1).state = Top(t).saved /\ Top(y1).saved = Top(t).saved
            /\ y1.quote = t.quote
    BY <1>0, <2>2, <2>3, NearGoto
  <2>5. PICK y2 : y2 = Collect(y1, lf)
    OBVIOUS
  <2>6. Near(t, y2) /\ ~y2.hi /\ Top(y2) = Top(y1) /\ y2.quote = y1.quote
    BY <1>0, <2>2, <2>4, <2>5, NearCollect
  <2>7. StringEscape(t, c) = Advance(y2, c)
    BY <1>2, <2>2, <2>5, <2>1 DEF StringEscape
  <2>8. c # Nul
    BY <1>2 DEF Nul, Blanks, NumberChars
  <2> QED
    BY <1>2, <1>0, <2>2, <2>4, <2>5, <2>6, <2>8, <2>7, NearAdvance DEF AddStates, Blank, Within,
       QuoteKnown, GoodLevel, InString, InEscape, AfterBlanks
<1>3. CASE c = "u"
  <2>1. PICK y1 : y1 = Goto(t, "escape_unicode")
    OBVIOUS
  <2>2. GoodLevel(Lev("escape_unicode", Top(t).saved, Top(t).current, Top(t).name))
    BY <1>3, <1>0, <2>1, LevFields DEF GoodLevel, States, AfterBlanks, Blank, Within, InString, InEscape,
       AddStates, ArrayStates, ObjectStates
  <2>3. Near(t, y1) /\ ~y1.hi /\ Top(y1).state = "escape_unicode" /\ Top(y1).saved = Top(t).saved
            /\ y1.quote = t.quote
    BY <1>0, <2>1, <2>2, NearGoto
  <2>4. PICK y2 : y2 = FirstDigit(y1)
    OBVIOUS
  <2>5. Near(t, y2) /\ ~y2.hi /\ Top(y2) = Top(y1) /\ y2.quote = y1.quote
    BY <1>0, <2>1, <2>3, <2>4, NearFirstDigit
  <2>6. StringEscape(t, c) = Advance(y2, c)
    BY <1>3, <2>1, <2>4 DEF StringEscape
  <2>7. c # Nul
    BY <1>3 DEF Nul, Blanks, NumberChars
  <2> QED
    BY <1>3, <1>0, <2>1, <2>3, <2>4, <2>5, <2>7, <2>6, NearAdvance DEF AddStates, Blank, Within,
       QuoteKnown, GoodLevel, InString, InEscape, AfterBlanks
<1>4. CASE c \notin {"\"", "\\", "/", "n", "u"}
  <2>1. StringEscape(t, c) = Fail(t, "string")
    BY <1>4 DEF StringEscape
  <2> QED
    BY <1>0, <2>1, NearFail DEF Errors
<1> QED
  BY <1>1, <1>2, <1>3, <1>4 DEF InString

LEMMA NumberMoves ==
    ASSUME NEW str, NEW t, NEW c \in Chars, Ready(t, str), Top(t).state = "number"
    PROVE  Moves(t, Number(t, c), c, str)
<1>0. Near(t, t) /\ IsTok(t) /\ ~t.hi /\ GoodLevel(Top(t)) /\ QuoteKnown(t)
  BY NearItself DEF Near, InString
<1>1. CASE c \in NumberChars
  <2>1. PICK y1 : y1 = Collect(t, c)
    OBVIOUS
  <2>2. Near(t, y1) /\ ~y1.hi /\ Top(y1) = Top(t) /\ y1.quote = t.quote
    BY <1>0, <2>1, NearCollect
  <2>3. PICK y2 : y2 = Lengthened(y1)
    OBVIOUS
  <2>4. Near(t, y2) /\ ~y2.hi /\ Top(y2) = Top(y1) /\ y2.quote = y1.quote
    BY <1>0, <2>1, <2>2, <2>3, NearLengthened
  <2>5. Number(t, c) = Advance(y2, c)
    BY <1>1, <2>1, <2>3 DEF Number, Make
  <2>6. c # Nul
    BY <1>1 DEF Nul, Blanks, NumberChars
  <2> QED
    BY <1>1, <1>0, <2>1, <2>2, <2>3, <2>4, <2>6, <2>5, NearAdvance DEF AddStates, Blank, Within,
       QuoteKnown, GoodLevel, InString, InEscape, AfterBlanks
<1>2. CASE c \notin NumberChars /\ Head(t.pb) = "-" /\ t.caseLen = 1 /\ c \in {"i", "I"}
  <2>1. PICK y1 : y1 = Goto(t, "inf")
    OBVIOUS
  <2>2. GoodLevel(Lev("inf", Top(t).saved, Top(t).current, Top(t).name))
    BY <1>2, <1>0, <2>1, LevFields DEF GoodLevel, States, AfterBlanks, Blank, Within, InString, InEscape,
       AddStates, ArrayStates, ObjectStates
  <2>3. Near(t, y1) /\ ~y1.hi /\ Top(y1).state = "inf" /\ Top(y1).saved = Top(t).saved /\ y1.quote = t.quote
    BY <1>0, <2>1, <2>2, NearGoto
  <2>4. Number(t, c) = y1
    BY <1>2, <2>1 DEF Number, Make
  <2>5. Rank(y1) < Rank(t)
    BY <1>0, <2>1, <2>3 DEF Rank, RankOf, AddStates, Blank, Within, QuoteKnown, GoodLevel, InString,
       InEscape, AfterBlanks
  <2> QED
    BY <1>0, <2>1, <2>3, <2>4, <2>5, NearStays DEF AddStates, Blank, Within, QuoteKnown, GoodLevel,
       InString, InEscape, AfterBlanks
<1>3. CASE c \notin NumberChars /\ ~(Head(t.pb) = "-" /\ t.caseLen = 1 /\ c \in {"i", "I"})
           /\ (~Parses(t.pb) \/ (t.strict /\ LeadingZero(t.pb)))
  <2>1. Number(t, c) = Fail(t, "number")
    BY <1>3 DEF Number, Make
  <2> QED
    BY <1>0, <2>1, NearFail DEF Errors
<1>4. CASE c \notin NumberChars /\ ~(Head(t.pb) = "-" /\ t.caseLen = 1 /\ c \in {"i", "I"})
           /\ ~(~Parses(t.pb) \/ (t.strict /\ LeadingZero(t.pb)))
  <2>1. PICK y1 : y1 = Become(t, "finish", <<IF IsDouble(t.pb) THEN "double" ELSE "int", t.pb>>)
    OBVIOUS
  <2>2. GoodLevel(Lev("eatws", "finish", <<IF IsDouble(t.pb) THEN "double" ELSE "int", t.pb>>, Top(t).name))
    BY <1>4, <1>0, <2>1, LevFields DEF GoodLevel, States, AfterBlanks, Blank, Within, InString, InEscape,
       AddStates, ArrayStates, ObjectStates
  <2>3. Near(t, y1) /\ ~y1.hi /\ Top(y1).state = "eatws" /\ Top(y1).saved = "finish" /\ y1.quote = t.quote
    BY <1>0, <2>1, <2>2, NearBecome
  <2>4. Number(t, c) = y1
    BY <1>4, <2>1 DEF Number, Make
  <2>5. Rank(y1) < Rank(t)
    BY <1>0, <2>1, <2>3 DEF Rank, RankOf, AddStates, Blank, Within, QuoteKnown, GoodLevel, InString,
       InEscape, AfterBlanks
  <2> QED
    BY <1>0, <2>1, <2>3, <2>4, <2>5, NearStays DEF AddStates, Blank, Within, QuoteKnown, GoodLevel,
       InString, InEscape, AfterBlanks
<1> QED
  BY <1>1, <1>2, <1>3, <1>4 DEF InString

LEMMA ArrayMoves ==
    ASSUME NEW str, NEW t, NEW c \in Chars, Ready(t, str), Top(t).state \in {"array", "array_after_sep"}
    PROVE  Moves(t, Array(t, c), c, str)
<1>0. Near(t, t) /\ IsTok(t) /\ ~t.hi /\ GoodLevel(Top(t)) /\ QuoteKnown(t)
  BY NearItself DEF Near, InString
<1>1. CASE c = "]" /\ StrayComma(t, "array_after_sep")
  <2>1. Array(t, c) = Fail(t, "unexpected")
    BY <1>1 DEF Array, CloseBracket
  <2> QED
    BY <1>0, <2>1, NearFail DEF Errors
<1>2. CASE c = "]" /\ ~StrayComma(t, "array_after_sep")
  <2>1. PICK y1 : y1 = Expect(t, "finish")
    OBVIOUS
  <2>2. GoodLevel(Lev("eatws", "finish", Top(t).current, Top(t).name))
    BY <1>2, <1>0, <2>1, LevFields DEF GoodLevel, States, AfterBlanks, Blank, Within, InString, InEscape,
       AddStates, ArrayStates, ObjectStates
  <2>3. Near(t, y1) /\ ~y1.hi /\ Top(y1).state = "eatws" /\ Top(y1).saved = "finish" /\ y1.quote = t.quote
    BY <1>0, <2>1, <2>2, NearExpect
  <2>4. Array(t, c) = Advance(y1, c)
    BY <1>2, <2>1 DEF Array, CloseBracket
  <2>5. c # Nul
    BY <1>2 DEF Nul, Blanks, NumberChars
  <2> QED
    BY <1>2, <1>0, <2>1, <2>3, <2>5, <2>4, NearAdvance DEF AddStates, Blank, Within, QuoteKnown, GoodLevel,
       InString, InEscape, AfterBlanks
<1>3. CASE c # "]"
  <2>1. Array(t, c) = Push(t, "array_add")
    BY <1>3 DEF Array, CloseBracket
  <2> QED
    BY <1>0, <2>1, PushMoves DEF AddStates
<1> QED
  BY <1>1, <1>2, <1>3, <1>0 DEF InString

LEMMA ArraySepMoves ==
    ASSUME NEW str, NEW t, NEW c \in Chars, Ready(t, str), Top(t).state = "array_sep"
    PROVE  Moves(t, ArraySep(t, c), c, str)
<1>0. Near(t, t) /\ IsTok(t) /\ ~t.hi /\ GoodLevel(Top(t)) /\ QuoteKnown(t)
  BY NearItself DEF Near, InString
<1>1. CASE c = "]"
  <2>1. PICK y1 : y1 = Expect(t, "finish")
    OBVIOUS
  <2>2. GoodLevel(Lev("eatws", "finish", Top(t).current, Top(t).name))
    BY <1>1, <1>0, <2>1, LevFields DEF GoodLevel, States, AfterBlanks, Blank, Within, InString, InEscape,
       AddStates, ArrayStates, ObjectStates
  <2>3. Near(t, y1) /\ ~y1.hi /\ Top(y1).state = "eatws" /\ Top(y1).saved = "finish" /\ y1.quote = t.quote
    BY <1>0, <2>1, <2>2, NearExpect
  <2>4. ArraySep(t, c) = Advance(y1, c)
    BY <1>1, <2>1 DEF ArraySep, Separated
  <2>5. c # Nul
    BY <1>1 DEF Nul, Blanks, NumberChars
  <2> QED
    BY <1>1, <1>0, <2>1, <2>3, <2>5, <2>4, NearAdvance DEF AddStates, Blank, Within, QuoteKnown, GoodLevel,
       InString, InEscape, AfterBlanks
<1>2. CASE c = ","
  <2>1. PICK y1 : y1 = Expect(t, "array_after_sep")
    OBVIOUS
  <2>2. GoodLevel(Lev("eatws", "array_after_sep", Top(t).current, Top(t).name))
    BY <1>0, <2>1, LevFields DEF GoodLevel, States, AfterBlanks, Blank, Within, InString, InEscape,
       AddStates, ArrayStates, ObjectStates
  <2>3. Near(t, y1) /\ ~y1.hi /\ Top(y1).state = "eatws" /\ Top(y1).saved = "array_after_sep"
            /\ y1.quote = t.quote
    BY <1>0, <2>1, <2>2, NearExpect
  <2>4. ArraySep(t, c) = Advance(y1, c)
    BY <1>2, <2>1 DEF ArraySep, Separated
  <2>5. c # Nul
    BY <1>2 DEF Nul, Blanks, NumberChars
  <2> QED
    BY <1>0, <2>1, <2>3, <2>5, <2>4, NearAdvance DEF AddStates, Blank, Within, QuoteKnown, GoodLevel,
       InString, InEscape, AfterBlanks
<1>3. CASE c \notin {"]", ","}
  <2>1. ArraySep(t, c) = Fail(t, "array")
    BY <1>3 DEF ArraySep, Separated
  <2> QED
    BY <1>0, <2>1, NearFail DEF Errors
<1> QED
  BY <1>1, <1>2, <1>3 DEF InString

LEMMA ObjectSepMoves ==
    ASSUME NEW str, NEW t, NEW c \in Chars, Ready(t, str), Top(t).state = "object_sep"
    PROVE  Moves(t, ObjectSep(t, c), c, str)
<1>0. Near(t, t) /\ IsTok(t) /\ ~t.hi /\ GoodLevel(Top(t)) /\ QuoteKnown(t)
  BY NearItself DEF Near, InString
<1>1. CASE c = "}"
  <2>1. PICK y1 : y1 = Expect(t, "finish")
    OBVIOUS
  <2>2. GoodLevel(Lev("eatws", "finish", Top(t).current, Top(t).name))
    BY <1>0, <2>1, LevFields DEF GoodLevel, States, AfterBlanks, Blank, Within, InString, InEscape,
       AddStates, ArrayStates, ObjectStates
  <2>3. Near(t, y1) /\ ~y1.hi /\ Top(y1).state = "eatws" /\ Top(y1).saved = "finish" /\ y1.quote = t.quote
    BY <1>0, <2>1, <2>2, NearExpect
  <2>4. ObjectSep(t, c) = Advance(y1, c)
    BY <1>1, <2>1 DEF ObjectSep, Separated
  <2>5. c # Nul
    BY <1>1 DEF Nul, Blanks, NumberChars
  <2> QED
    BY <1>0, <2>1, <2>3, <2>5, <2>4, NearAdvance DEF AddStates, Blank, Within, QuoteKnown, GoodLevel,
       InString, InEscape, AfterBlanks
<1>2. CASE c = ","
  <2>1. PICK y1 : y1 = Expect(t, "field_start_after_sep")
    OBVIOUS
  <2>2. GoodLevel(Lev("eatws", "field_start_after_sep", Top(t).current, Top(t).name))
    BY <1>0, <2>1, LevFields DEF GoodLevel, States, AfterBlanks, Blank, Within, InString, InEscape,
       AddStates, ArrayStates, ObjectStates
  <2>3. Near(t, y1) /\ ~y1.hi /\ Top(y1).state = "eatws" /\ Top(y1).saved = "field_start_after_sep"
            /\ y1.quote = t.quote
    BY <1>0, <2>1, <2>2, NearExpect
  <2>4. ObjectSep(t, c) = Advance(y1, c)
    BY <1>2, <2>1 DEF ObjectSep, Separated
  <2>5. c # Nul
    BY <1>2 DEF Nul, Blanks, NumberChars
  <2> QED
    BY <1>0, <2>1, <2>3, <2>5, <2>4, NearAdvance DEF AddStates, Blank, Within, QuoteKnown, GoodLevel,
       InString, InEscape, AfterBlanks
<1>3. CASE c \notin {"}", ","}
  <2>1. ObjectSep(t, c) = Fail(t, "value_sep")
    BY <1>3 DEF ObjectSep, Separated
  <2> QED
    BY <1>0, <2>1, NearFail DEF Errors
<1> QED
  BY <1>1, <1>2, <1>3 DEF InString

LEMMA FieldStartMoves ==
    ASSUME NEW str, NEW t, NEW c \in Chars, Ready(t, str),
           Top(t).state \in {"object_field_start", "field_start_after_sep"}
    PROVE  Moves(t, FieldStart(t, c), c, str)
<1>0. Near(t, t) /\ IsTok(t) /\ ~t.hi /\ GoodLevel(Top(t)) /\ QuoteKnown(t)
  BY NearItself DEF Near, InString
<1>1. CASE c = "}" /\ StrayComma(t, "field_start_after_sep")
  <2>1. FieldStart(t, c) = Fail(t, "unexpected")
    BY <1>1 DEF FieldStart, CloseBracket
  <2> QED
    BY <1>0, <2>1, NearFail DEF Errors
<1>2. CASE c = "}" /\ ~StrayComma(t, "field_start_after_sep")
  <2>1. PICK y1 : y1 = Expect(t, "finish")
    OBVIOUS
  <2>2. GoodLevel(Lev("eatws", "finish", Top(t).current, Top(t).name))
    BY <1>0, <2>1, LevFields DEF GoodLevel, States, AfterBlanks, Blank, Within, InString, InEscape,
       AddStates, ArrayStates, ObjectStates
  <2>3. Near(t, y1) /\ ~y1.hi /\ Top(y1).state = "eatws" /\ Top(y1).saved = "finish" /\ y1.quote = t.quote
    BY <1>0, <2>1, <2>2, NearExpect
  <2>4. FieldStart(t, c) = Advance(y1, c)
    BY <1>2, <2>1 DEF FieldStart, CloseBracket
  <2>5. c # Nul
    BY <1>2 DEF Nul, Blanks, NumberChars
  <2> QED
    BY <1>0, <2>1, <2>3, <2>5, <2>4, NearAdvance DEF AddStates, Blank, Within, QuoteKnown, GoodLevel,
       InString, InEscape, AfterBlanks
<1>3. CASE c \in {"\"", "'"}
  <2>1. PICK y1 : y1 = Goto(t, "object_field")
    OBVIOUS
  <2>2. GoodLevel(Lev("object_field", Top(t).saved, Top(t).current, Top(t).name))
    BY <1>0, <2>1, LevFields DEF GoodLevel, States, AfterBlanks, Blank, Within, InString, InEscape,
       AddStates, ArrayStates, ObjectStates
  <2>3. Near(t, y1) /\ ~y1.hi /\ Top(y1).state = "object_field" /\ Top(y1).saved = Top(t).saved
            /\ y1.quote = t.quote
    BY <1>0, <2>1, <2>2, NearGoto
  <2>4. PICK y2 : y2 = Quoted(y1, c)
    OBVIOUS
  <2>5. Near(t, y2) /\ ~y2.hi /\ Top(y2) = Top(y1) /\ y2.quote = c
    BY <1>0, <2>1, <2>3, <2>4, NearQuoted
  <2>6. FieldStart(t, c) = Advance(y2, c)
    BY <1>3, <2>1, <2>4 DEF FieldStart, CloseBracket
  <2>7. c \notin {Nul, "\\"}
    BY <1>3 DEF Nul
  <2> QED
    BY <1>0, <2>1, <2>3, <2>4, <2>5, <2>7, <2>6, NearAdvance DEF AddStates, Blank, Within, QuoteKnown,
       GoodLevel, InString, InEscape, AfterBlanks
<1>4. CASE c \notin {"}", "\"", "'"}
  <2>1. FieldStart(t, c) = Fail(t, "key_name")
    BY <1>4 DEF FieldStart, CloseBracket
  <2> QED
    BY <1>0, <2>1, NearFail DEF Errors
<1> QED
  BY <1>1, <1>2, <1>3, <1>4, <1>0 DEF InString

LEMMA FieldEndMoves ==
    ASSUME NEW str, NEW t, NEW c \in Chars, Ready(t, str), Top(t).state = "object_field_end"
    PROVE  Moves(t, FieldEnd(t, c), c, str)
<1>0. Near(t, t) /\ IsTok(t) /\ ~t.hi /\ GoodLevel(Top(t)) /\ QuoteKnown(t)
  BY NearItself DEF Near, InString
<1>1. CASE c = ":"
  <2>1. PICK y1 : y1 = Expect(t, "object_value")
    OBVIOUS
  <2>2. GoodLevel(Lev("eatws", "object_value", Top(t).current, Top(t).name))
    BY <1>1, <1>0, <2>1, LevFields DEF GoodLevel, States, AfterBlanks, Blank, Within, InString, InEscape,
       AddStates, ArrayStates, ObjectStates
  <2>3. Near(t, y1) /\ ~y1.hi /\ Top(y1).state = "eatws" /\ Top(y1).saved = "object_value"
            /\ y1.quote = t.quote
    BY <1>0, <2>1, <2>2, NearExpect
  <2>4. FieldEnd(t, c) = Advance(y1, c)
    BY <1>1, <2>1 DEF FieldEnd
  <2>5. c # Nul
    BY <1>1 DEF Nul, Blanks, NumberChars
  <2> QED
    BY <1>1, <1>0, <2>1, <2>3, <2>5, <2>4, NearAdvance DEF AddStates, Blank, Within, QuoteKnown, GoodLevel,
       InString, InEscape, AfterBlanks
<1>2. CASE c # ":"
  <2>1. FieldEnd(t, c) = Fail(t, "key_sep")
    BY <1>2 DEF FieldEnd
  <2> QED
    BY <1>0, <2>1, NearFail DEF Errors
<1> QED
  BY <1>1, <1>2 DEF InString

LEMMA ElementAddMoves ==
    ASSUME NEW str, NEW t, NEW c \in Chars, Ready(t, str), Top(t).state = "array_add"
    PROVE  Moves(t, ElementAdd(t), c, str)
<1>0. Near(t, t) /\ IsTok(t) /\ ~t.hi /\ GoodLevel(Top(t)) /\ QuoteKnown(t)
  BY NearItself DEF Near, InString
<1>2. PICK y1 : y1 = Become(t, "array_sep", <<"array", Append(Top(t).current[2], t.obj)>>)
  OBVIOUS
<1>3. GoodLevel(Lev("eatws", "array_sep", <<"array", Append(Top(t).current[2], t.obj)>>, Top(t).name))
  BY <1>0, <1>2, LevFields DEF GoodLevel, States, AfterBlanks, Blank, Within, InString, InEscape,
     AddStates, ArrayStates, ObjectStates
<1>4. Near(t, y1) /\ ~y1.hi /\ Top(y1).state = "eatws" /\ Top(y1).saved = "array_sep" /\ y1.quote = t.quote
  BY <1>0, <1>2, <1>3, NearBecome
<1>5. ElementAdd(t) = y1
  BY <1>2 DEF ElementAdd
<1>6. Rank(y1) < Rank(t)
  BY <1>0, <1>2, <1>4 DEF Rank, RankOf, AddStates, Blank, Within, QuoteKnown, GoodLevel, InString,
     InEscape, AfterBlanks
<1> QED
  BY <1>0, <1>2, <1>4, <1>5, <1>6, NearStays DEF AddStates, Blank, Within, QuoteKnown, GoodLevel, InString,
     InEscape, AfterBlanks

LEMMA ValueAddMoves ==
    ASSUME NEW str, NEW t, NEW c \in Chars, Ready(t, str), Top(t).state = "object_value_add"
    PROVE  Moves(t, ValueAdd(t), c, str)
<1>0. Near(t, t) /\ IsTok(t) /\ ~t.hi /\ GoodLevel(Top(t)) /\ QuoteKnown(t)
  BY NearItself DEF Near, InString
<1>2. PICK y1 : y1 = Become(t, "object_sep", <<"object", With(Top(t).current[2], Top(t).name, t.obj)>>)
  OBVIOUS
<1>3. GoodLevel(Lev("eatws", "object_sep", <<"object", With(Top(t).current[2], Top(t).name, t.obj)>>,
          Top(t).name))
  BY <1>0, <1>2, LevFields DEF GoodLevel, States, AfterBlanks, Blank, Within, InString, InEscape,
     AddStates, ArrayStates, ObjectStates
<1>4. Near(t, y1) /\ ~y1.hi /\ Top(y1).state = "eatws" /\ Top(y1).saved = "object_sep" /\ y1.quote = t.quote
  BY <1>0, <1>2, <1>3, NearBecome
<1>5. PICK y2 : y2 = Named(y1, "object_sep", <<>>)
  OBVIOUS
<1>6. GoodLevel(Lev("eatws", "object_sep", Top(y1).current, <<>>))
  BY <1>0, <1>2, <1>4, <1>5, LevFields DEF GoodLevel, States, AfterBlanks, Blank, Within, InString,
     InEscape, AddStates, ArrayStates, ObjectStates, Near
<1>7. Near(t, y2) /\ ~y2.hi /\ Top(y2).state = "eatws" /\ Top(y2).saved = "object_sep"
          /\ y2.quote = y1.quote
  BY <1>0, <1>2, <1>4, <1>5, <1>6, NearNamed
<1>8. ValueAdd(t) = y2
  BY <1>2, <1>5 DEF ValueAdd
<1>9. Rank(y2) < Rank(t)
  BY <1>0, <1>2, <1>4, <1>5, <1>7 DEF Rank, RankOf, AddStates, Blank, Within, QuoteKnown, GoodLevel,
     InString, InEscape, AfterBlanks
<1> QED
  BY <1>0, <1>2, <1>4, <1>5, <1>7, <1>8, <1>9, NearStays DEF AddStates, Blank, Within, QuoteKnown,
     GoodLevel, InString, InEscape, AfterBlanks

LEMMA LetterMoves ==
    ASSUME NEW str, NEW t, NEW c \in Chars, Ready(t, str), Top(t).state \in {"inf", "null", "boolean"},
           NEW word, NEW v
    PROVE  Moves(t, Letter(t, c, word, v), c, str)
<1>0. Near(t, t) /\ IsTok(t) /\ ~t.hi /\ GoodLevel(Top(t)) /\ QuoteKnown(t)
  BY NearItself DEF Near, InString
<1>1. CASE t.pos = Len(word)
  <2>1. PICK y1 : y1 = Collect(t, c)
    OBVIOUS
  <2>2. Near(t, y1) /\ ~y1.hi /\ Top(y1) = Top(t) /\ y1.quote = t.quote
    BY <1>0, <2>1, NearCollect
  <2>3. PICK y2 : y2 = Become(y1, "finish", v)
    OBVIOUS
  <2>4. GoodLevel(Lev("eatws", "finish", v, Top(y1).name))
    BY <1>0, <2>1, <2>2, <2>3, LevFields DEF GoodLevel, States, AfterBlanks, Blank, Within, InString,
       InEscape, AddStates, ArrayStates, ObjectStates, Near
  <2>5. Near(t, y2) /\ ~y2.hi /\ Top(y2).state = "eatws" /\ Top(y2).saved = "finish" /\ y2.quote = y1.quote
    BY <1>0, <2>1, <2>2, <2>3, <2>4, NearBecome
  <2>6. Letter(t, c, word, v) = y2
    BY <1>1, <2>1, <2>3 DEF Letter, Make
  <2>7. Rank(y2) < Rank(t)
    BY <1>0, <2>1, <2>2, <2>3, <2>5 DEF Rank, RankOf, AddStates, Blank, Within, QuoteKnown, GoodLevel,
       InString, InEscape, AfterBlanks
  <2> QED
    BY <1>0, <2>1, <2>2, <2>3, <2>5, <2>6, <2>7, NearStays DEF AddStates, Blank, Within, QuoteKnown,
       GoodLevel, InString, InEscape, AfterBlanks
<1>2. CASE t.pos # Len(word)
  <2>1. PICK y1 : y1 = Collect(t, c)
    OBVIOUS
  <2>2. Near(t, y1) /\ ~y1.hi /\ Top(y1) = Top(t) /\ y1.quote = t.quote
    BY <1>0, <2>1, NearCollect
  <2>3. PICK y2 : y2 = Counted(y1, 1)
    OBVIOUS
  <2>4. Near(t, y2) /\ ~y2.hi /\ Top(y2) = Top(y1) /\ y2.quote = y1.quote
    BY <1>0, <2>1, <2>2, <2>3, NearCounted
  <2>5. Letter(t, c, word, v) = Advance(y2, c)
    BY <1>2, <2>1, <2>3 DEF Letter, Make
  <2> QED
    BY <1>2, <1>0, <2>1, <2>2, <2>3, <2>4, <2>5, NearAdvance DEF AddStates, Blank, Within, QuoteKnown,
       GoodLevel, InString, InEscape, AfterBlanks
<1> QED
  BY <1>1, <1>2, <1>0 DEF InString

LEMMA Collected ==
    ASSUME NEW str, NEW t, NEW c \in Chars, Ready(t, str), Top(t).state \in {"inf", "null", "boolean"},
           NEW e \in Errors \ {"success", "continue"}
    PROVE  Moves(t, Fail(Collect(t, c), e), c, str)
<1>1. Near(t, t)
  BY NearItself
<1>2. PICK y : y = Collect(t, c)
  OBVIOUS
<1>3. Near(t, y)
  BY <1>1, <1>2, NearCollect
<1> QED
  BY <1>2, <1>3, NearFail

LEMMA KeywordMoves ==
    ASSUME NEW str, NEW t, NEW c \in Chars, Ready(t, str)
    PROVE  /\ Top(t).state = "inf" => Moves(t, Inf(t, c), c, str)
           /\ Top(t).state = "null" => Moves(t, NullOrNaN(t, c), c, str)
           /\ Top(t).state = "boolean" => Moves(t, Boolean(t, c), c, str)
<1>1. {"unexpected", "null", "boolean"} \subseteq Errors \ {"success", "continue"}
  BY DEF Errors
<1>2. ASSUME Top(t).state = "inf" PROVE Moves(t, Inf(t, c), c, str)
  <2>1. PICK b : b = Append(t.pb, c)
    OBVIOUS
  <2>2. PICK v : v = <<"double", IF b[1] = "-" THEN <<"-", "Inf">> ELSE <<"Inf">>>>
    OBVIOUS
  <2>3. Inf(t, c) = Letter(t, c, <<"I", "y">>, v) \/ Inf(t, c) = Fail(Collect(t, c), "unexpected")
    BY <2>1, <2>2 DEF Inf
  <2> QED
    BY <1>1, <1>2, <2>3, Collected, LetterMoves
<1>3. ASSUME Top(t).state = "null" PROVE Moves(t, NullOrNaN(t, c), c, str)
  <2>1. \/ NullOrNaN(t, c) = Letter(t, c, <<"n", "l">>, NullValue)
        \/ NullOrNaN(t, c) = Letter(t, c, <<"N", "a">>, <<"double", <<"NaN">>>>)
        \/ NullOrNaN(t, c) = Fail(Collect(t, c), "null")
    BY DEF NullOrNaN
  <2> QED
    BY <1>1, <1>3, <2>1, Collected, LetterMoves
<1>4. ASSUME Top(t).state = "boolean" PROVE Moves(t, Boolean(t, c), c, str)
  <2>1. \/ Boolean(t, c) = Letter(t, c, <<"t", "e">>, <<"boolean", <<"true">>>>)
        \/ Boolean(t, c) = Letter(t, c, <<"f", "e">>, <<"boolean", <<"false">>>>)
        \/ Boolean(t, c) = Fail(Collect(t, c), "boolean")
    BY DEF Boolean
  <2> QED
    BY <1>1, <1>4, <2>1, Collected, LetterMoves
<1> QED
  BY <1>2, <1>3, <1>4

LEMMA NearAlone ==
    ASSUME NEW t, NEW y, Near(t, y)
    PROVE  Near(t, Alone(y)) /\ Top(Alone(y)) = Top(y) /\ ~Alone(y).hi /\ Alone(y).quote = y.quote
<1>1. PICK x : x = Alone(y)
  OBVIOUS
<1>2. IsTok(x) /\ x.level = y.level /\ x.depth = y.depth /\ x.err = y.err /\ x.offset = y.offset
      /\ x.out = y.out /\ x.strict = y.strict /\ x.quote = y.quote /\ x.hi = No
  BY <1>1, AloneFields DEF Has, Near
<1>3. Top(x) = Top(y)
  BY <1>2 DEF Top
<1>4. ~x.hi
  BY <1>2 DEF No
<1> QED
  BY <1>1, <1>2, <1>3, <1>4 DEF Near

LEMMA NulInEscape ==
    ASSUME NEW str, NEW t, Ready(t, str), Top(t).state = "escape_unicode"
    PROVE  Moves(t, Advance(Counted(t, 1), Nul), Nul, str)
<1>1. Near(t, t) /\ QuoteKnown(t)
  BY NearItself
<1>2. PICK y : y = Counted(t, 1)
  OBVIOUS
<1>3. Near(t, y) /\ Top(y) = Top(t) /\ y.quote = t.quote
  BY <1>1, <1>2, NearCounted
<1>4. PICK x, z : x = Advance(y, z) /\ z = Nul
  OBVIOUS
<1>5. Has(x, y.level, y.depth, y.err, y.pb, y.pos, y.quote, y.strict, y.offset + 1, y.hi, y.caseLen, y.obj,
          (z = Nul))
  BY <1>3, <1>4, AdvanceFields DEF Near
<1>6. x.out /\ Top(x) = Top(y)
  BY <1>4, <1>5 DEF Has, Top
<1>7. Sane(x, Len(str)) /\ x.offset = t.offset + 1 /\ x.err = "success" /\ x.strict = t.strict
          /\ t.offset \in Nat
  BY <1>1, <1>3, <1>5, <1>6 DEF Near, Ready, Sane, IsTok, Has, QuoteKnown
<1> QED
  BY <1>2, <1>3, <1>4, <1>6, <1>7 DEF Moves, Commented, Within

LEMMA BackInString ==
    ASSUME NEW str, NEW t, Ready(t, str), Top(t).state = "escape_unicode",
           NEW y, Near(t, y), Top(y) = Top(t), y.quote = t.quote, ~y.hi, NEW c, c # Nul, NEW d \in Chars
    PROVE  Moves(t, Advance(Collect(Goto(y, Top(t).saved), d), c), c, str)
<1>0. QuoteKnown(t) /\ GoodLevel(Top(t))
  BY NearItself DEF Near
<1>1. PICK y1 : y1 = Goto(y, Top(t).saved)
  OBVIOUS
<1>2. GoodLevel(Lev(Top(t).saved, Top(t).saved, Top(t).current, Top(t).name))
  BY <1>0, LevFields DEF GoodLevel, States, AfterBlanks, Blank, Within, InString, InEscape, AddStates,
     ArrayStates, ObjectStates
<1>3. Near(t, y1) /\ ~y1.hi /\ Top(y1).state = Top(t).saved /\ y1.quote = t.quote
  BY <1>1, <1>2, NearGoto
<1>4. PICK y2 : y2 = Collect(y1, d)
  OBVIOUS
<1>5. Near(t, y2) /\ ~y2.hi /\ Top(y2) = Top(y1) /\ y2.quote = t.quote
  BY <1>3, <1>4, NearCollect
<1>6. Top(y2).state \in InString
  BY <1>0, <1>3, <1>5 DEF GoodLevel, InEscape
<1> QED
  BY <1>0, <1>1, <1>4, <1>5, <1>6, NearAdvance DEF AddStates, Within, InString, InEscape, QuoteKnown

LEMMA FirstHalfMoves ==
    ASSUME NEW str, NEW t, Ready(t, str), Top(t).state = "escape_unicode", str[t.offset + 1] = "hi",
           NEW y, Near(t, y), Top(y) = Top(t), y.quote = t.quote, ~y.hi
    PROVE  Moves(t, FirstHalf(y, str), "hi", str)
<1>0. QuoteKnown(t) /\ GoodLevel(Top(t)) /\ "rep" \in Chars /\ "hi" # Nul
  BY NearItself DEF Near, Chars, Nul
<1>1. CASE ~Ahead(y, str)
  BY <1>0, <1>1, BackInString DEF FirstHalf
<1>2. CASE Ahead(y, str) /\ y.offset + 3 = Len(str)
  <2>1. PICK z : z = Collect(y, "rep")
    OBVIOUS
  <2>2. Near(t, z) /\ Top(z) = Top(t) /\ ~z.hi /\ z.quote = t.quote
    BY <1>0, <2>1, NearCollect
  <2>3. PICK x : x = Truncated(z)
    OBVIOUS
  <2>4. Has(x, z.level, z.depth, "continue", z.pb, z.pos, z.quote, z.strict, z.offset + 3, z.hi, z.caseLen,
            z.obj, Yes)
    BY <2>2, <2>3, TruncatedFields DEF Near
  <2>5. x.out /\ Top(x) = Top(t) /\ x.err = "continue" /\ "continue" \in Errors
    BY <2>2, <2>4 DEF Has, Top, Yes, Errors
  <2>6. y.offset = t.offset /\ z.offset = t.offset /\ x.offset = Len(str) /\ t.offset \in Nat
            /\ Len(str) = t.offset + 3
    BY <1>2, <2>2, <2>4 DEF Near, Has, Ready, Sane, IsTok
  <2>7. Sane(x, Len(str)) /\ x.strict = t.strict
    BY <1>0, <2>2, <2>4, <2>5, <2>6 DEF Near, Sane, Has, QuoteKnown
  <2>8. SubSeq(str, t.offset + 2, t.offset + 3) = <<"\\", "u">>
    BY <1>2, <2>6 DEF Ahead
  <2>9. str[t.offset + 2] = "\\" /\ str[t.offset + 3] = "u"
    <3>1. str \in Seq(STRING)
      BY DEF Ready
    <3>2. PICK m, n : m = t.offset + 2 /\ n = t.offset + 3
      OBVIOUS
    <3>3. m \in 1 .. Len(str) /\ n \in m .. Len(str) /\ n = m + 1
      BY <2>6, <3>2
    <3>4. \A i \in 1 .. n - m + 1 : SubSeq(str, m, n)[i] = str[m + i - 1]
      BY <3>1, <3>3, SubSeqProperties
    <3>5. SubSeq(str, m, n)[1] = str[m] /\ SubSeq(str, m, n)[2] = str[n]
      BY <3>3, <3>4
    <3>6. SubSeq(str, m, n) = <<"\\", "u">>
      BY <2>8, <3>2
    <3>7. str[m] = "\\" /\ str[n] = "u"
      BY <3>5, <3>6
    <3> QED
      BY <3>2, <3>7
  <2>10. FirstHalf(y, str) = x
    BY <1>2, <2>1, <2>3 DEF FirstHalf
  <2>11. Commented(t, x, "hi")
    BY <2>5 DEF Commented, Within
  <2>12. /\ Top(x).state = "escape_unicode" /\ x.offset = Len(str) /\ Len(str) >= 3
         /\ str[Len(str) - 2] = "hi" /\ str[Len(str) - 1] = "\\" /\ str[Len(str)] = "u"
    <3>1. Len(str) - 2 = t.offset + 1 /\ Len(str) - 1 = t.offset + 2 /\ Len(str) >= 3
      BY <2>6
    <3> QED
      BY <2>5, <2>6, <2>9, <3>1
  <2>13. x.offset >= t.offset
    BY <2>6
  <2> QED
    BY <2>5, <2>7, <2>10, <2>11, <2>12, <2>13 DEF Moves
<1>3. CASE Ahead(y, str) /\ y.offset + 3 # Len(str)
  <2>1. PICK x : x = SecondHalf(y)
    OBVIOUS
  <2>2. Has(x, y.level, y.depth, y.err, y.pb, 0, y.quote, y.strict, y.offset + 3, Yes, y.caseLen, y.obj,
            y.out)
    BY <2>1, SecondHalfFields DEF Near
  <2>3. y.offset = t.offset /\ t.offset \in Nat /\ x.offset = t.offset + 3 /\ x.offset < Len(str)
    BY <1>3, <2>2 DEF Near, Has, Ready, Sane, IsTok, Ahead
  <2>4. Top(x) = Top(t) /\ ~x.out /\ x.err = "success" /\ x.pos = 0
    BY <2>2 DEF Near, Has, Top, Ready, Sane
  <2>5. Sane(x, Len(str)) /\ x.strict = t.strict
    BY <1>0, <2>2, <2>3, <2>4 DEF Near, Sane, Has, QuoteKnown, Errors
  <2>6. FirstHalf(y, str) = x
    BY <1>3, <2>1 DEF FirstHalf
  <2> QED
    BY <2>3, <2>4, <2>5, <2>6 DEF Moves, Commented, Within
<1> QED
  BY <1>1, <1>2, <1>3

LEMMA EscapeUnicodeMoves ==
    ASSUME NEW str, NEW t, Ready(t, str), Top(t).state = "escape_unicode", NEW c, c = str[t.offset + 1]
    PROVE  Moves(t, EscapeUnicode(t, c, str), c, str)
<1>0. Near(t, t) /\ QuoteKnown(t) /\ "rep" \in Chars /\ "pair" \in Chars /\ "ctl" \in Chars
  BY NearItself DEF Chars
<1>1. PICK y : y = Counted(t, 4)
  OBVIOUS
<1>2. Near(t, y) /\ Top(y) = Top(t) /\ y.quote = t.quote
  BY <1>0, <1>1, NearCounted
<1>3. PICK four : four = Alone(y)
  OBVIOUS
<1>4. Near(t, four) /\ Top(four) = Top(t) /\ ~four.hi /\ four.quote = t.quote
  BY <1>2, <1>3, NearAlone
<1>5. PICK rest : rest = IF t.hi THEN Collect(four, "rep") ELSE four
  OBVIOUS
<1>6. Near(t, rest) /\ Top(rest) = Top(t) /\ ~rest.hi /\ rest.quote = t.quote
  BY <1>0, <1>4, <1>5, NearCollect
<1>7. CASE c = Nul
  BY <1>7, NulInEscape DEF EscapeUnicode, HexGroups, Nul
<1>8. CASE c \in HexGroups /\ four.pos # 4
  <2>1. EscapeUnicode(t, c, str) = Advance(four, c)
    BY <1>1, <1>3, <1>8 DEF EscapeUnicode, HexGroups, Nul
  <2>2. c # Nul
    BY <1>8 DEF HexGroups, Nul
  <2> QED
    BY <1>0, <1>4, <2>1, <2>2, NearAdvance DEF AddStates, Within, QuoteKnown, InString, InEscape
<1>9. CASE c = "lo" /\ four.pos = 4
  <2>1. PICK d \in Chars : d = IF t.hi THEN "pair" ELSE "rep"
    BY <1>0
  <2>2. EscapeUnicode(t, c, str) = Advance(Collect(Goto(four, Top(t).saved), d), c)
    BY <1>1, <1>3, <1>9, <2>1 DEF EscapeUnicode, HexGroups, Nul
  <2> QED
    BY <1>4, <1>9, <2>2, BackInString DEF Nul
<1>10. CASE c = "hx" /\ four.pos = 4
  <2>1. EscapeUnicode(t, c, str) = Advance(Collect(Goto(rest, Top(t).saved), "ctl"), c)
    BY <1>1, <1>3, <1>5, <1>10 DEF EscapeUnicode, HexGroups, Nul
  <2> QED
    BY <1>0, <1>6, <1>10, <2>1, BackInString DEF Nul
<1>11. CASE c = "hi" /\ four.pos = 4
  <2>1. EscapeUnicode(t, c, str) = FirstHalf(rest, str)
    BY <1>1, <1>3, <1>5, <1>11 DEF EscapeUnicode, HexGroups, Nul
  <2> QED
    BY <1>6, <1>11, <2>1, FirstHalfMoves
<1>12. CASE c \notin HexGroups \cup {Nul}
  <2>1. EscapeUnicode(t, c, str) = Fail(t, "string")
    BY <1>12 DEF EscapeUnicode, HexGroups
  <2> QED
    BY <1>0, <2>1, NearFail DEF Errors
<1> QED
  BY <1>7, <1>8, <1>9, <1>10, <1>11, <1>12 DEF HexGroups

LEMMA FinishMoves ==
    ASSUME NEW str, NEW t, NEW c, Ready(t, str), Top(t).state = "finish"
    PROVE  Moves(t, Finish(t), c, str)
<1>0. Near(t, t) /\ ~t.hi /\ IsTok(t) /\ t.err = "success" /\ t.offset \in Nat /\ t.offset < Len(str)
  BY NearItself DEF Ready, Sane, IsTok
<1>1. CASE t.depth = 0
  <2>1. PICK x : x = Leave(t)
    OBVIOUS
  <2>2. Has(x, t.level, t.depth, t.err, t.pb, t.pos, t.quote, t.strict, t.offset, t.hi, t.caseLen, t.obj,
            Yes)
    BY <1>0, <2>1, LeaveFields
  <2>3. x.out /\ Top(x) = Top(t)
    BY <2>2 DEF Has, Top, Yes
  <2>4. Sane(x, Len(str)) /\ x.strict = t.strict /\ x.offset = t.offset
    BY <1>0, <2>2, <2>3 DEF Ready, Sane, Has, QuoteKnown
  <2>5. Finish(t) = x
    BY <1>1, <2>1 DEF Finish
  <2> QED
    BY <1>0, <1>1, <2>2, <2>3, <2>4, <2>5 DEF Moves, Has, Commented, Within
<1>2. CASE t.depth # 0
  <2>1. PICK x : x = Shallower(t)
    OBVIOUS
  <2>2. Has(x, LevelWith(t.level, t.depth, Empty), t.depth - 1, t.err, t.pb, t.pos, t.quote,
               t.strict, t.offset, t.hi, t.caseLen, Top(t).current, t.out)
    BY <1>0, <1>2, <2>1, ShallowerFields
  <2>3. PICK lv : lv = LevelWith(t.level, t.depth, Empty)
    OBVIOUS
  <2>4. lv[t.depth] = Empty /\ \A d \in 0 .. MaxDepth : d # t.depth => lv[d] = t.level[d]
    <3>1. t.depth \in 0 .. MaxDepth /\ Levels(t.level) /\ IsLevel(Empty)
      BY <1>0, EmptyLevel, TopLevelFacts
    <3> QED
      BY <2>3, <3>1, LevelWithFacts
  <2>5. GoodLevel(Empty)
    BY DEF Empty, GoodLevel, States, AfterBlanks, Blank, Within, InString, InEscape, AddStates,
       ArrayStates, ObjectStates
  <2>6. t.depth \in Nat /\ MaxDepth \in Nat /\ t.depth < MaxDepth /\ t.depth > 0
    BY <1>0, <1>2, TokenerAssumption DEF IsTok
  <2>7. \A d \in 0 .. MaxDepth : GoodLevel(lv[d]) /\ (d > t.depth - 1 => lv[d] = Empty)
    BY <1>0, <2>4, <2>5, <2>6 DEF Near, Stack
  <2>8. \A d \in 0 .. MaxDepth : d < t.depth => lv[d].state \in AddStates
    BY <1>0, <2>4, <2>6 DEF Near, Stack
  <2>9. Stack(lv, t.depth - 1)
    BY <2>6, <2>7, <2>8 DEF Stack
  <2>10. Top(x) = lv[t.depth - 1] /\ Top(x).state \in AddStates
    BY <2>2, <2>3, <2>6, <2>8 DEF Has, Top
  <2>11. Sane(x, Len(str)) /\ x.strict = t.strict /\ x.offset = t.offset /\ ~x.out /\ x.err = "success"
    BY <1>0, <2>2, <2>3, <2>9, <2>10 DEF Ready, Sane, Has, QuoteKnown, AddStates, InString, InEscape
  <2>12. Rank(x) < Rank(t)
    BY <2>10 DEF Rank, RankOf, AddStates
  <2>13. Finish(t) = x
    BY <1>2, <2>1 DEF Finish
  <2> QED
    BY <1>0, <2>10, <2>11, <2>12, <2>13 DEF Moves, Commented, Within, AddStates
<1> QED
  BY <1>1, <1>2

LEMMA PassMoves ==
    ASSUME NEW str, NEW t, NEW c, Ready(t, str), c = str[t.offset + 1]
    PROVE  Moves(t, Pass(t, c, str), c, str)
<1>0. GoodLevel(Top(t)) /\ Top(t).state \in States
  BY NearItself DEF Near, GoodLevel
<1>1. c \in Chars /\ str \in Seq(STRING)
  <2>1. str \in Seq(STRING) /\ t.offset + 1 \in 1 .. Len(str)
    BY DEF Ready, Sane, IsTok
  <2>2. c \in STRING
    BY <2>1
  <2> QED
    BY <2>1, <2>2 DEF Chars
<1>2. PICK s : s = Top(t).state
  OBVIOUS
<1>3. CASE s = "eatws"
  BY <1>1, <1>2, <1>3, EatWsMoves DEF Pass
<1>4. CASE s = "start"
  BY <1>1, <1>2, <1>4, StartMoves DEF Pass
<1>5. CASE s = "finish"
  BY <1>1, <1>2, <1>5, FinishMoves DEF Pass
<1>6. CASE s = "inf"
  BY <1>1, <1>2, <1>6, KeywordMoves DEF Pass
<1>7. CASE s = "null"
  BY <1>1, <1>2, <1>7, KeywordMoves DEF Pass
<1>8. CASE s = "boolean"
  BY <1>1, <1>2, <1>8, KeywordMoves DEF Pass
<1>9. CASE s = "number"
  BY <1>1, <1>2, <1>9, NumberMoves DEF Pass
<1>10. CASE s = "comment_start"
  BY <1>1, <1>2, <1>10, CommentStartMoves DEF Pass
<1>11. CASE s = "comment"
  BY <1>1, <1>2, <1>11, CommentMoves DEF Pass
<1>12. CASE s = "comment_eol"
  BY <1>1, <1>2, <1>12, CommentEolMoves DEF Pass
<1>13. CASE s = "comment_end"
  BY <1>1, <1>2, <1>13, CommentEndMoves DEF Pass
<1>14. CASE s = "string"
  BY <1>1, <1>2, <1>14, StringMoves DEF Pass, InString
<1>15. CASE s = "object_field"
  BY <1>1, <1>2, <1>15, StringMoves DEF Pass, InString
<1>16. CASE s = "string_escape"
  BY <1>1, <1>2, <1>16, StringEscapeMoves DEF Pass
<1>17. CASE s = "escape_unicode"
  BY <1>2, <1>17, EscapeUnicodeMoves DEF Pass
<1>18. CASE s \in {"array", "array_after_sep"}
  BY <1>1, <1>2, <1>18, ArrayMoves DEF Pass
<1>19. CASE s = "array_add"
  BY <1>1, <1>2, <1>19, ElementAddMoves DEF Pass
<1>20. CASE s = "array_sep"
  BY <1>1, <1>2, <1>20, ArraySepMoves DEF Pass
<1>21. CASE s \in {"object_field_start", "field_start_after_sep"}
  BY <1>1, <1>2, <1>21, FieldStartMoves DEF Pass
<1>22. CASE s = "object_field_end"
  BY <1>1, <1>2, <1>22, FieldEndMoves DEF Pass
<1>23. CASE s = "object_value"
  <2>1. Pass(t, c, str) = Push(t, "object_value_add")
    BY <1>2, <1>23 DEF Pass
  <2>2. PICK a : a = "object_value_add"
    OBVIOUS
  <2>3. a \in AddStates /\ a # "array_add" /\ Top(t).state = "object_value"
    BY <1>2, <1>23, <2>2 DEF AddStates
  <2>4. Moves(t, Push(t, a), c, str)
    BY <2>3, PushMoves
  <2> QED
    BY <2>1, <2>2, <2>4
<1>24. CASE s = "object_value_add"
  BY <1>1, <1>2, <1>24, ValueAddMoves DEF Pass
<1>25. CASE s = "object_sep"
  BY <1>1, <1>2, <1>25, ObjectSepMoves DEF Pass
<1> QED
  BY <1>0, <1>2, <1>3, <1>4, <1>5, <1>6, <1>7, <1>8, <1>9, <1>10, <1>11, <1>12, <1>13, <1>14, <1>15,
     <1>16, <1>17, <1>18, <1>19, <1>20, <1>21, <1>22, <1>23, <1>24, <1>25
  DEF States, AfterBlanks, AddStates, Blank, Within, InString, InEscape

LEMMA LeastNumber ==
    ASSUME NEW T \in SUBSET Nat, T # {}
    PROVE  \E x \in T : \A y \in T : x <= y
<1> DEFINE Upto(k) == T \cap 0 .. k
           F == {Upto(k) : k \in T}
<1>1. F \subseteq FiniteSubsetsOf(Nat)
  <2> SUFFICES ASSUME NEW k \in T PROVE Upto(k) \in FiniteSubsetsOf(Nat)
    OBVIOUS
  <2>1. IsFiniteSet(0 .. k)
    BY FS_Interval
  <2>2. IsFiniteSet(Upto(k))
    BY <2>1, FS_Intersection
  <2> QED
    BY <2>2 DEF FiniteSubsetsOf
<1>2. F # {}
  OBVIOUS
<1>3. \E X \in F : \A Y \in F : ~ (<<Y, X>> \in StrictSubsetOrdering(Nat))
  <2> HIDE DEF F
  <2> QED
    BY <1>1, <1>2, FS_StrictSubsetOrderingWellFounded, WFMin
<1>4. PICK x \in T : \A y \in T : ~ (<<Upto(y), Upto(x)>> \in StrictSubsetOrdering(Nat))
  BY <1>3
<1>5. ASSUME NEW y \in T, y < x PROVE FALSE
  <2>1. Upto(y) \subseteq Upto(x) /\ x \in Upto(x) /\ x \notin Upto(y)
    BY <1>5
  <2>2. <<Upto(y), Upto(x)>> \in StrictSubsetOrdering(Nat)
    BY <2>1 DEF StrictSubsetOrdering
  <2> QED
    BY <1>4, <2>2
<1> QED
  BY <1>5

LEMMA NumberInduction ==
    ASSUME NEW T \in SUBSET Nat, 0 \in T, \A n \in T : n + 1 \in T
    PROVE  T = Nat
<1> SUFFICES ASSUME Nat \ T # {} PROVE FALSE
  OBVIOUS
<1>1. PICK x \in Nat \ T : \A y \in Nat \ T : x <= y
  <2>1. Nat \ T \in SUBSET Nat
    OBVIOUS
  <2> QED
    BY <2>1, LeastNumber
<1>2. x # 0 /\ x - 1 \in Nat /\ (x - 1) + 1 = x
  BY <1>1
<1>3. x - 1 \in T
  BY <1>1, <1>2
<1> QED
  BY <1>1, <1>2, <1>3

\* The turns for one character, and the loop, as the functions they are.
After(f, m, r, n, str) == f = [j \in 0 .. m |-> IF j = 0 THEN r ELSE Turn(f[j - 1], n, str)]
UpTo(f, m, t, str) ==
    f = [n \in 0 .. m |-> IF n = 0 THEN [tok |-> t, c |-> "none"] ELSE Turns(f[n - 1], n, str)]

LEMMA AfterExists ==
    ASSUME NEW r, NEW n, NEW str, NEW m \in Nat
    PROVE  \E f : After(f, m, r, n, str)
<1> DEFINE T == {i \in Nat : \E f : After(f, i, r, n, str)}
<1>1. 0 \in T
  <2>1. PICK f : f = [j \in 0 .. 0 |-> r]
    OBVIOUS
  <2>2. f = [j \in 0 .. 0 |-> IF j = 0 THEN r ELSE Turn(f[j - 1], n, str)]
    BY <2>1
  <2> QED
    BY <2>2 DEF After
<1>2. ASSUME NEW i \in T PROVE i + 1 \in T
  <2>1. PICK f : After(f, i, r, n, str)
    BY <1>2
  <2>2. \A j \in 0 .. i : f[j] = IF j = 0 THEN r ELSE Turn(f[j - 1], n, str)
    BY <2>1 DEF After
  <2>3. PICK g : g = [j \in 0 .. i + 1 |-> IF j = i + 1 THEN Turn(f[i], n, str) ELSE f[j]]
    OBVIOUS
  <2>4. \A j \in 0 .. i : g[j] = f[j]
    BY <2>3
  <2>5. g[i + 1] = Turn(f[i], n, str)
    BY <2>3
  <2>6. ASSUME NEW j \in 0 .. i + 1
        PROVE  g[j] = IF j = 0 THEN r ELSE Turn(g[j - 1], n, str)
    <3>1. CASE j = i + 1
      BY <2>4, <2>5, <3>1
    <3>2. CASE j \in 0 .. i /\ j # 0
      <4>1. j - 1 \in 0 .. i
        BY <3>2
      <4> QED
        BY <2>2, <2>4, <3>2, <4>1
    <3>3. CASE j = 0
      BY <2>2, <2>4, <3>3
    <3> QED
      BY <3>1, <3>2, <3>3
  <2>7. g = [j \in 0 .. i + 1 |-> IF j = 0 THEN r ELSE Turn(g[j - 1], n, str)]
    BY <2>3, <2>6
  <2> QED
    BY <2>7 DEF After
<1>3. T = Nat
  <2>1. T \in SUBSET Nat /\ \A i \in T : i + 1 \in T
    BY <1>2
  <2> HIDE DEF T
  <2> QED
    BY <1>1, <2>1, NumberInduction
<1> QED
  BY <1>3

LEMMA UpToExists ==
    ASSUME NEW t, NEW str, NEW m \in Nat
    PROVE  \E f : UpTo(f, m, t, str)
<1>0. PICK r : r = [tok |-> t, c |-> "none"]
  OBVIOUS
<1> DEFINE T == {i \in Nat : \E f : UpTo(f, i, t, str)}
<1>1. 0 \in T
  <2>1. PICK f : f = [j \in 0 .. 0 |-> r]
    OBVIOUS
  <2>2. f = [j \in 0 .. 0 |-> IF j = 0 THEN r ELSE Turns(f[j - 1], j, str)]
    BY <2>1
  <2> QED
    BY <1>0, <2>2 DEF UpTo
<1>2. ASSUME NEW i \in T PROVE i + 1 \in T
  <2>1. PICK f : UpTo(f, i, t, str)
    BY <1>2
  <2>2. \A j \in 0 .. i : f[j] = IF j = 0 THEN r ELSE Turns(f[j - 1], j, str)
    BY <1>0, <2>1 DEF UpTo
  <2>3. PICK g : g = [j \in 0 .. i + 1 |-> IF j = i + 1 THEN Turns(f[i], i + 1, str) ELSE f[j]]
    OBVIOUS
  <2>4. \A j \in 0 .. i : g[j] = f[j]
    BY <2>3
  <2>5. g[i + 1] = Turns(f[i], i + 1, str)
    BY <2>3
  <2>6. ASSUME NEW j \in 0 .. i + 1
        PROVE  g[j] = IF j = 0 THEN r ELSE Turns(g[j - 1], j, str)
    <3>1. CASE j = i + 1
      BY <2>4, <2>5, <3>1
    <3>2. CASE j \in 0 .. i /\ j # 0
      <4>1. j - 1 \in 0 .. i
        BY <3>2
      <4> QED
        BY <2>2, <2>4, <3>2, <4>1
    <3>3. CASE j = 0
      BY <2>2, <2>4, <3>3
    <3> QED
      BY <3>1, <3>2, <3>3
  <2>7. g = [j \in 0 .. i + 1 |-> IF j = 0 THEN r ELSE Turns(g[j - 1], j, str)]
    BY <2>3, <2>6
  <2> QED
    BY <1>0, <2>7 DEF UpTo
<1>3. T = Nat
  <2>1. T \in SUBSET Nat /\ \A i \in T : i + 1 \in T
    BY <1>2
  <2> HIDE DEF T
  <2> QED
    BY <1>1, <2>1, NumberInduction
<1> QED
  BY <1>3

-----------------------------------------------------------------------------
(* The loop: it ends, at most eleven turns for a character.                 *)

\* What the loop is.
IsLoop(r, n, str) ==
    \E f : /\ f[0] = r /\ \A j \in 1 .. 11 : f[j] = Turn(f[j - 1], n, str)
           /\ Turns(r, n, str) = f[11]

LEMMA TurnsAre ==
    ASSUME NEW r, NEW n, NEW str, ~ r.tok.out
    PROVE  IsLoop(r, n, str)
<1> DEFINE F == CHOOSE f : f = [j \in 0 .. 11 |-> IF j = 0 THEN r ELSE Turn(f[j - 1], n, str)]
<1>1. \E f : f = [j \in 0 .. 11 |-> IF j = 0 THEN r ELSE Turn(f[j - 1], n, str)]
  <2>1. PICK f : After(f, 11, r, n, str)
    BY AfterExists
  <2> QED
    BY <2>1 DEF After
<1>2. F = [j \in 0 .. 11 |-> IF j = 0 THEN r ELSE Turn(F[j - 1], n, str)]
  BY <1>1
<1>3. Turns(r, n, str) = F[11]
  BY DEF Turns
<1> HIDE DEF F
<1>4. F[0] = r /\ \A j \in 1 .. 11 : F[j] = Turn(F[j - 1], n, str)
  BY <1>2
<1> QED
  BY <1>3, <1>4 DEF IsLoop

LEMMA PassesAre ==
    ASSUME NEW t, NEW str \in Seq(STRING)
    PROVE  \E f : /\ f[0] = [tok |-> t, c |-> "none"]
                  /\ \A n \in 1 .. Len(str) : f[n] = Turns(f[n - 1], n, str)
                  /\ Passes(t, str) = f[Len(str)]
<1> DEFINE F == CHOOSE f : f = [n \in 0 .. Len(str) |->
                                   IF n = 0 THEN [tok |-> t, c |-> "none"] ELSE Turns(f[n - 1], n, str)]
<1>1. \E f : f = [n \in 0 .. Len(str) |->
                     IF n = 0 THEN [tok |-> t, c |-> "none"] ELSE Turns(f[n - 1], n, str)]
  <2>1. Len(str) \in Nat
    OBVIOUS
  <2>2. PICK f : UpTo(f, Len(str), t, str)
    BY <2>1, UpToExists
  <2> QED
    BY <2>2 DEF UpTo
<1>2. F = [n \in 0 .. Len(str) |->
              IF n = 0 THEN [tok |-> t, c |-> "none"] ELSE Turns(F[n - 1], n, str)]
  BY <1>1
<1>3. Passes(t, str) = F[Len(str)]
  BY DEF Passes
<1> HIDE DEF F
<1>4. F[0] = [tok |-> t, c |-> "none"] /\ \A n \in 1 .. Len(str) : F[n] = Turns(F[n - 1], n, str)
  <2>1. Len(str) \in Nat
    OBVIOUS
  <2> QED
    BY <1>2, <2>1
<1> QED
  BY <1>3, <1>4

\* Where a run stands: text is str behind something of length k.
InComment(t, k, text0) ==
    /\ Top(t).state = "comment_start" => k + t.offset >= 1 /\ text0[k + t.offset] = "/"
    /\ Top(t).state \in Within =>
          \E j \in 1 .. k + t.offset - 1 : text0[j] = "/" /\ text0[j + 1] \in {"*", "/"}

AtNul(x, str) == Top(x).state \notin {"eatws", "finish", "comment_start"} /\ x.offset > 0
    /\ str[x.offset] = Nul

CutShort(x, str) ==
    /\ Top(x).state = "escape_unicode" /\ x.offset = Len(str) /\ Len(str) >= 3
    /\ str[Len(str) - 2] = "hi" /\ str[Len(str) - 1] = "\\" /\ str[Len(str)] = "u"

Ran(r, str, k, text0) ==
    /\ Sane(r.tok, Len(str))
    /\ r.tok.err \in {"success", "continue"} => InComment(r.tok, k, text0)
    /\ r.tok.out /\ r.tok.err = "success" =>
          (r.tok.depth = 0 /\ Top(r.tok).state = "finish") \/ (r.c = Nul /\ AtNul(r.tok, str))
    /\ r.tok.err = "continue" => CutShort(r.tok, str)

Behind(str, k, text0) == str \in Seq(STRING) /\ k \in Nat /\ \A i \in 1 .. Len(str) : text0[k + i] = str[i]

LEMMA TurnRuns ==
    ASSUME NEW str, NEW k, NEW text0, Behind(str, k, text0), NEW n \in 1 .. Len(str), NEW r,
           Ran(r, str, k, text0), ~ r.tok.out, r.tok.offset < n,
           NEW r2, r2 = Turn(r, n, str)
    PROVE  /\ Ran(r2, str, k, text0) /\ r2.tok.offset >= r.tok.offset /\ r2.tok.strict = r.tok.strict
           /\ r2.tok.out \/ r2.tok.offset > r.tok.offset \/ Rank(r2.tok) < Rank(r.tok)
<1>1. PICK t, c : t = r.tok /\ c = str[t.offset + 1]
  OBVIOUS
<1>2. str \in Seq(STRING) /\ k \in Nat /\ t.offset \in Nat /\ t.offset < Len(str)
  BY <1>1 DEF Behind, Ran, Sane, IsTok
<1>3. Ready(t, str) /\ ~t.out /\ t.err = "success"
  BY <1>1, <1>2 DEF Ready, Ran, Sane
<1>4. PICK x : x = Pass(t, c, str)
  OBVIOUS
<1>5. Moves(t, x, c, str)
  BY <1>1, <1>3, <1>4, PassMoves
<1>6. r2 = [tok |-> x, c |-> c]
  <2>1. ~(r.tok.out \/ r.tok.offset >= n)
    BY <1>2, <1>1
  <2>2. r2 = [tok |-> Pass(r.tok, str[r.tok.offset + 1], str), c |-> str[r.tok.offset + 1]]
    BY <2>1 DEF Turn
  <2> QED
    BY <1>1, <1>4, <2>2
<1>7. r2.tok = x /\ r2.c = c
  BY <1>6
<1>8. InComment(t, k, text0)
  BY <1>1, <1>3 DEF Ran
<1>9. x.offset \in Nat /\ x.offset <= Len(str) /\ x.offset >= t.offset
  BY <1>5 DEF Moves, Sane, IsTok
<1>10. ASSUME x.err \in {"success", "continue"} PROVE InComment(x, k, text0)
  <2>1. Commented(t, x, c)
    BY <1>5, <1>10 DEF Moves
  <2>2. x.offset = t.offset + 1 => text0[k + x.offset] = c
    <3>1. t.offset + 1 \in 1 .. Len(str)
      BY <1>2
    <3>2. text0[k + (t.offset + 1)] = c
      BY <1>1, <3>1 DEF Behind
    <3> QED
      BY <3>2
  <2>3. Top(x).state = "comment_start" => k + x.offset >= 1 /\ text0[k + x.offset] = "/"
    BY <1>2, <2>1, <2>2 DEF Commented
  <2>4. ASSUME Top(x).state \in Within
        PROVE  \E j \in 1 .. k + x.offset - 1 : text0[j] = "/" /\ text0[j + 1] \in {"*", "/"}
    <3>1. CASE Top(t).state \in Within
      <4>1. PICK j \in 1 .. k + t.offset - 1 : text0[j] = "/" /\ text0[j + 1] \in {"*", "/"}
        BY <1>8, <3>1 DEF InComment
      <4>2. j \in 1 .. k + x.offset - 1
        BY <1>2, <1>9
      <4> QED
        BY <4>1, <4>2
    <3>2. CASE Top(t).state = "comment_start" /\ c \in {"*", "/"} /\ x.offset = t.offset + 1
      <4>1. PICK j : j = k + t.offset
        OBVIOUS
      <4>2. j \in 1 .. k + x.offset - 1 /\ text0[j] = "/" /\ j + 1 = k + x.offset
        <5>1. k + t.offset >= 1 /\ text0[k + t.offset] = "/"
          BY <1>8, <3>2 DEF InComment
        <5> QED
          BY <1>2, <3>2, <4>1, <5>1
      <4>3. text0[j + 1] \in {"*", "/"}
        BY <2>2, <3>2, <4>2
      <4> QED
        BY <4>2, <4>3
    <3> QED
      BY <2>1, <2>4, <3>1, <3>2 DEF Commented
  <2> QED
    BY <2>3, <2>4 DEF InComment
<1>11. (x.err = "success" /\ x.out) =>
          \/ x.depth = 0 /\ Top(x).state = "finish"
          \/ c = Nul /\ AtNul(x, str)
  BY <1>1, <1>2, <1>5 DEF Moves, AtNul
<1>12. x.err = "continue" => CutShort(x, str)
  BY <1>5 DEF Moves, CutShort
<1>13. Ran(r2, str, k, text0)
  BY <1>5, <1>7, <1>10, <1>11, <1>12 DEF Ran, Moves
<1> QED
  BY <1>1, <1>5, <1>7, <1>13 DEF Moves

LEMMA RankBound ==
    ASSUME NEW t
    PROVE  Rank(t) \in 0 .. 10
  BY DEF Rank, RankOf

\* Eleven turns are enough.
LEMMA TurnsReach ==
    ASSUME NEW str, NEW k, NEW text0, Behind(str, k, text0), NEW n \in 1 .. Len(str), NEW r,
           Ran(r, str, k, text0), r.tok.out \/ r.tok.offset >= n - 1,
           NEW r2, r2 = Turns(r, n, str)
    PROVE  /\ Ran(r2, str, k, text0) /\ r2.tok.strict = r.tok.strict
           /\ r2.tok.out \/ r2.tok.offset >= n
<1>1. CASE r.tok.out
  BY <1>1 DEF Turns
<1>2. CASE ~r.tok.out
  <2>1. PICK f : /\ f[0] = r /\ \A j \in 1 .. 11 : f[j] = Turn(f[j - 1], n, str)
                 /\ Turns(r, n, str) = f[11]
    <3>1. ~r.tok.out
      BY <1>2
    <3>2. IsLoop(r, n, str)
      BY <3>1, TurnsAre
    <3> QED
      BY <3>2 DEF IsLoop
  <2> DEFINE Good(j) == /\ Ran(f[j], str, k, text0) /\ f[j].tok.strict = r.tok.strict
                        /\ f[j].tok.out \/ f[j].tok.offset >= n
                           \/ (f[j].tok.offset = n - 1 /\ Rank(f[j].tok) + j <= 10)
             T == {j \in Nat : j <= 11 => Good(j)}
  <2>2. 0 \in T
    <3>1. Rank(r.tok) \in 0 .. 10
      BY RankBound
    <3>2. r.tok.offset \in Nat
      BY DEF Ran, Sane, IsTok
    <3>3. r.tok.out \/ r.tok.offset >= n \/ (r.tok.offset = n - 1 /\ Rank(r.tok) + 0 <= 10)
      BY <3>1, <3>2
    <3>4. Good(0)
      BY <2>1, <3>3
    <3> HIDE DEF Good
    <3> QED
      BY <3>4
  <2>3. ASSUME NEW j \in T PROVE j + 1 \in T
    <3> SUFFICES ASSUME j + 1 <= 11 PROVE Good(j + 1)
      OBVIOUS
    <3>1. j \in Nat /\ j + 1 \in 1 .. 11 /\ Good(j)
      BY <2>3
    <3>2. PICK a, b : a = f[j] /\ b = f[j + 1]
      OBVIOUS
    <3>3. b = Turn(a, n, str)
      <4>1. f[j + 1] = Turn(f[(j + 1) - 1], n, str) /\ (j + 1) - 1 = j
        BY <2>1, <3>1
      <4> QED
        BY <3>2, <4>1
    <3>4. Ran(a, str, k, text0) /\ a.tok.strict = r.tok.strict /\ a.tok.offset \in Nat
      BY <3>1, <3>2 DEF Ran, Sane, IsTok
    <3>5. CASE a.tok.out \/ a.tok.offset >= n
      BY <3>1, <3>2, <3>3, <3>5 DEF Turn
    <3>6. CASE ~a.tok.out /\ a.tok.offset < n
      <4>1. /\ Ran(b, str, k, text0) /\ b.tok.offset >= a.tok.offset /\ b.tok.strict = a.tok.strict
            /\ b.tok.out \/ b.tok.offset > a.tok.offset \/ Rank(b.tok) < Rank(a.tok)
        BY <3>3, <3>4, <3>6, TurnRuns
      <4>2. b.tok.offset \in Nat /\ Rank(a.tok) \in Nat /\ Rank(b.tok) \in Nat
        <5>1. b.tok.offset \in Nat
          BY <4>1 DEF Ran, Sane, IsTok
        <5>2. Rank(a.tok) \in 0 .. 10 /\ Rank(b.tok) \in 0 .. 10
          BY RankBound
        <5> QED
          BY <5>1, <5>2
      <4>3. a.tok.offset = n - 1 /\ Rank(a.tok) + j <= 10
        BY <3>1, <3>2, <3>4, <3>6
      <4>4. b.tok.out \/ b.tok.offset >= n \/ (b.tok.offset = n - 1 /\ Rank(b.tok) + (j + 1) <= 10)
        BY <3>1, <4>1, <4>2, <4>3
      <4> QED
        BY <3>2, <3>4, <4>1, <4>4
    <3> QED
      BY <3>4, <3>5, <3>6
  <2>4. T = Nat
    <3>1. T \in SUBSET Nat /\ \A j \in T : j + 1 \in T
      BY <2>3
    <3> HIDE DEF T
    <3> QED
      BY <2>2, <3>1, NumberInduction
  <2>5. Good(11)
    BY <2>4
  <2>6. Rank(f[11].tok) \in 0 .. 10
    BY RankBound
  <2> QED
    BY <2>1, <2>5, <2>6
<1> QED
  BY <1>1, <1>2

\* The loop looks at the whole piece, or goes to out.
LEMMA PassesReach ==
    ASSUME NEW str, NEW k, NEW text0, Behind(str, k, text0), NEW t,
           Sane(t, Len(str)), ~t.out, t.err = "success", t.offset = 0, InComment(t, k, text0),
           NEW r, r = Passes(t, str)
    PROVE  /\ Ran(r, str, k, text0) /\ r.tok.strict = t.strict
           /\ r.tok.out \/ r.tok.offset = Len(str)
<1>0. str \in Seq(STRING) /\ Len(str) \in Nat
  BY DEF Behind
<1>1. PICK f : /\ f[0] = [tok |-> t, c |-> "none"]
               /\ \A n \in 1 .. Len(str) : f[n] = Turns(f[n - 1], n, str)
               /\ Passes(t, str) = f[Len(str)]
  BY <1>0, PassesAre
<1> DEFINE Good(n) == /\ Ran(f[n], str, k, text0) /\ f[n].tok.strict = t.strict
                      /\ f[n].tok.out \/ f[n].tok.offset >= n
           T == {n \in Nat : n <= Len(str) => Good(n)}
<1>2. 0 \in T
  <2>1. f[0].tok = t
    BY <1>1
  <2> QED
    BY <2>1 DEF Ran
<1>3. ASSUME NEW n \in T PROVE n + 1 \in T
  <2> SUFFICES ASSUME n + 1 <= Len(str) PROVE Good(n + 1)
    OBVIOUS
  <2>1. n + 1 \in 1 .. Len(str) /\ (n + 1) - 1 = n /\ Good(n)
    BY <1>0, <1>3
  <2>2. PICK a, b, m : a = f[n] /\ b = f[n + 1] /\ m = n + 1
    OBVIOUS
  <2>3. b = Turns(a, m, str) /\ m \in 1 .. Len(str) /\ m - 1 = n
    BY <1>1, <2>1, <2>2
  <2>4. Ran(a, str, k, text0) /\ a.tok.strict = t.strict /\ (a.tok.out \/ a.tok.offset >= m - 1)
    BY <2>1, <2>2, <2>3
  <2>5. Ran(b, str, k, text0) /\ b.tok.strict = a.tok.strict /\ (b.tok.out \/ b.tok.offset >= m)
    BY <2>3, <2>4, TurnsReach
  <2> QED
    BY <2>2, <2>4, <2>5
<1>4. T = Nat
  <2>1. T \in SUBSET Nat /\ \A n \in T : n + 1 \in T
    BY <1>3
  <2> HIDE DEF T
  <2> QED
    BY <1>2, <2>1, NumberInduction
<1>5. Good(Len(str))
  BY <1>0, <1>4
<1>6. r.tok.offset <= Len(str) /\ r.tok.offset \in Nat
  BY <1>1, <1>5 DEF Ran, Sane, IsTok
<1> QED
  BY <1>0, <1>1, <1>5, <1>6

-----------------------------------------------------------------------------
(* One call, and the inductive invariant.                                   *)

WithErr(t, x) == [t EXCEPT !.err = x]
WithLevel(t, l) == [t EXCEPT !.level = l]

LEMMA WithErrRec ==
    ASSUME NEW lv, NEW d, NEW e, NEW pb, NEW p, NEW q, NEW st, NEW o, NEW h, NEW cl, NEW ob, NEW u,
           NEW r, r = Rec(lv, d, e, pb, p, q, st, o, h, cl, ob, u), NEW x
    PROVE  WithErr(r, x) = Rec(lv, d, x, pb, p, q, st, o, h, cl, ob, u)
<1>1. r.level = lv /\ r.depth = d /\ r.pb = pb /\ r.pos = p /\ r.offset = o /\ r.caseLen = cl /\ r.err = e
  BY RecFields
<1>2. WithErr(r, x) = [r EXCEPT !.err = x]
  BY <1>1 DEF WithErr
<1>3. [r EXCEPT !.err = x] = Rec(lv, d, x, pb, p, q, st, o, h, cl, ob, u)
  BY DEF Rec
<1> QED
  BY <1>2, <1>3

LEMMA WithErrFields ==
    ASSUME NEW t, IsTok(t), NEW x
    PROVE  Has(WithErr(t, x), t.level, t.depth, x, t.pb, t.pos, t.quote, t.strict, t.offset, t.hi,
           t.caseLen, t.obj, t.out)
<1>1. WithErr(t, x) = Rec(t.level, t.depth, x, t.pb, t.pos, t.quote, t.strict, t.offset, t.hi, t.caseLen,
          t.obj, t.out)
  BY WithErrRec DEF IsTok
<1> QED
  BY <1>1, HasRec DEF IsTok

LEMMA WithLevelRec ==
    ASSUME NEW lv, NEW d, NEW e, NEW pb, NEW p, NEW q, NEW st, NEW o, NEW h, NEW cl, NEW ob, NEW u,
           NEW r, r = Rec(lv, d, e, pb, p, q, st, o, h, cl, ob, u), NEW l
    PROVE  WithLevel(r, l) = Rec(l, d, e, pb, p, q, st, o, h, cl, ob, u)
<1>1. r.level = lv /\ r.depth = d /\ r.pb = pb /\ r.pos = p /\ r.offset = o /\ r.caseLen = cl /\ r.err = e
  BY RecFields
<1>2. WithLevel(r, l) = [r EXCEPT !.level = l]
  BY <1>1 DEF WithLevel
<1>3. [r EXCEPT !.level = l] = Rec(l, d, e, pb, p, q, st, o, h, cl, ob, u)
  BY DEF Rec
<1> QED
  BY <1>2, <1>3

LEMMA WithLevelFields ==
    ASSUME NEW t, IsTok(t), NEW l, Levels(l)
    PROVE  Has(WithLevel(t, l), l, t.depth, t.err, t.pb, t.pos, t.quote, t.strict, t.offset, t.hi,
           t.caseLen, t.obj, t.out)
<1>1. WithLevel(t, l) = Rec(l, t.depth, t.err, t.pb, t.pos, t.quote, t.strict, t.offset, t.hi, t.caseLen,
          t.obj, t.out)
  BY WithLevelRec DEF IsTok
<1> QED
  BY <1>1, HasRec DEF IsTok

LEMMA AtEndIs ==
    ASSUME NEW t, IsTok(t), NEW u, u = AtEnd(t)
    PROVE  \E e : /\ Has(u, t.level, t.depth, e, t.pb, t.pos, t.quote, t.strict,
                         t.offset, t.hi, t.caseLen, t.obj, t.out)
                  /\ Top(u) = Top(t)
                  /\ e = IF t.out THEN t.err ELSE IF Complete(t) THEN "success" ELSE "continue"
<1>1. PICK e : e = IF t.out THEN t.err ELSE IF Complete(t) THEN "success" ELSE "continue"
  OBVIOUS
<1>2. CASE t.out
  BY <1>1, <1>2 DEF AtEnd, Has, Top
<1>3. CASE ~t.out
  <2>1. u = WithErr(t, e)
    BY <1>1, <1>3 DEF AtEnd, WithErr
  <2>2. Has(u, t.level, t.depth, e, t.pb, t.pos, t.quote, t.strict, t.offset, t.hi, t.caseLen, t.obj, t.out)
    BY <2>1, WithErrFields
  <2>3. Top(u) = Top(t)
    BY <2>2 DEF Has, Top
  <2> QED
    BY <1>1, <2>2, <2>3
<1> QED
  BY <1>2, <1>3

LEMMA ClearedLevels ==
    ASSUME NEW t, IsTok(t)
    PROVE  /\ Levels(Cleared(t))
           /\ \A d \in 0 .. MaxDepth : Cleared(t)[d] = IF d <= t.depth THEN Empty ELSE t.level[d]
<1>1. \A d \in 0 .. MaxDepth : Cleared(t)[d] = IF d <= t.depth THEN Empty ELSE t.level[d]
  BY DEF Cleared
<1>2. Cleared(t) = [d \in 0 .. MaxDepth |-> Cleared(t)[d]]
  BY DEF Cleared
<1>3. \A d \in 0 .. MaxDepth : IsLevel(Cleared(t)[d])
  <2>1. IsLevel(Empty) /\ \A d \in 0 .. MaxDepth : IsLevel(t.level[d])
    BY EmptyLevel DEF IsTok, Levels
  <2> QED
    BY <1>1, <2>1
<1> QED
  BY <1>1, <1>2, <1>3 DEF Levels

LEMMA ParseExIs ==
    ASSUME NEW t, NEW str, NEW q, q = Passes(Begun(t), str), IsTok(q.tok),
           NEW u, u = AtEnd(q.tok), IsTok(u), NEW e, e = AtOut(u, q.c), NEW r, r = ParseEx(t, str)
    PROVE  /\ Has(r[1], r[1].level, u.depth, e, u.pb, u.pos, u.quote, u.strict, u.offset, No, 0, NullValue,
                No)
           /\ e = "success" => r[1].level = Cleared(u) /\ r[2] = Top(u).current
           /\ e # "success" => r[1].level = u.level /\ r[2] = NullValue
<1>1. PICK d0 : d0 = Returned(u)
  OBVIOUS
<1>2. Has(d0, u.level, u.depth, u.err, u.pb, u.pos, u.quote, u.strict, u.offset, No, 0, NullValue, No)
  BY <1>1, ReturnedFields
<1>3. PICK d1 : d1 = WithErr(d0, e)
  OBVIOUS
<1>4. Has(d1, u.level, u.depth, e, u.pb, u.pos, u.quote, u.strict, u.offset, No, 0, NullValue, No)
  <2>1. Has(d1, d0.level, d0.depth, e, d0.pb, d0.pos, d0.quote, d0.strict, d0.offset, d0.hi, d0.caseLen,
            d0.obj, d0.out)
    BY <1>2, <1>3, WithErrFields DEF Has
  <2> QED
    BY <1>2, <2>1 DEF Has
<1>5. CASE e = "success"
  <2>1. PICK c, d2 : c = Cleared(u) /\ d2 = WithLevel(d1, c)
    OBVIOUS
  <2>2. Levels(c)
    BY <2>1, ClearedLevels
  <2>3. Has(d2, c, d1.depth, d1.err, d1.pb, d1.pos, d1.quote, d1.strict, d1.offset, d1.hi, d1.caseLen,
            d1.obj, d1.out)
    BY <1>4, <2>1, <2>2, WithLevelFields DEF Has
  <2>4. Has(d2, c, u.depth, e, u.pb, u.pos, u.quote, u.strict, u.offset, No, 0, NullValue, No)
    BY <1>4, <2>3 DEF Has
  <2>5. r = <<d2, Top(u).current>>
    BY <1>1, <1>3, <1>5, <2>1 DEF ParseEx, WithErr, WithLevel
  <2>6. r[1] = d2 /\ r[2] = Top(u).current
    BY <2>5
  <2>7. r[1].level = c
    BY <2>4, <2>6 DEF Has
  <2> QED
    BY <1>5, <2>1, <2>4, <2>6, <2>7
<1>6. CASE e # "success"
  <2>1. r = <<d1, NullValue>>
    BY <1>1, <1>3, <1>6 DEF ParseEx, WithErr
  <2>2. r[1] = d1 /\ r[2] = NullValue
    BY <2>1
  <2>3. r[1].level = u.level
    BY <1>4, <2>2 DEF Has
  <2> QED
    BY <1>4, <1>6, <2>2, <2>3
<1> QED
  BY <1>5, <1>6

Renewed(t, c) == [t EXCEPT !.level = c, !.depth = 0, !.err = "success"]

LEMMA RenewedRec ==
    ASSUME NEW lv, NEW d, NEW e, NEW pb, NEW p, NEW q, NEW st, NEW o, NEW h, NEW cl, NEW ob, NEW u,
           NEW r, r = Rec(lv, d, e, pb, p, q, st, o, h, cl, ob, u), NEW c
    PROVE  Renewed(r, c) = Rec(c, 0, "success", pb, p, q, st, o, h, cl, ob, u)
<1>1. r.level = lv /\ r.depth = d /\ r.pb = pb /\ r.pos = p /\ r.offset = o /\ r.caseLen = cl /\ r.err = e
  BY RecFields
<1>2. PICK y1 : y1 = [r EXCEPT !.level = c]
  OBVIOUS
<1>3. y1 = Rec(c, d, e, pb, p, q, st, o, h, cl, ob, u)
  BY <1>2 DEF Rec
<1>4. PICK y2 : y2 = [y1 EXCEPT !.depth = 0]
  OBVIOUS
<1>5. y2 = Rec(c, 0, e, pb, p, q, st, o, h, cl, ob, u)
  BY <1>4, <1>3 DEF Rec
<1>6. Renewed(r, c) = [y2 EXCEPT !.err = "success"]
  BY <1>1, <1>2, <1>4 DEF Renewed
<1>7. [y2 EXCEPT !.err = "success"] = Rec(c, 0, "success", pb, p, q, st, o, h, cl, ob, u)
  BY <1>5 DEF Rec
<1> QED
  BY <1>6, <1>7

LEMMA RenewedFields ==
    ASSUME NEW t, IsTok(t), NEW c, Levels(c)
    PROVE  Has(Renewed(t, c), c, 0, "success", t.pb, t.pos, t.quote, t.strict, t.offset, t.hi, t.caseLen,
           t.obj, t.out)
<1>1. Renewed(t, c) = Rec(c, 0, "success", t.pb, t.pos, t.quote, t.strict, t.offset, t.hi, t.caseLen,
          t.obj, t.out)
  BY RenewedRec DEF IsTok
<1> QED
  BY <1>1, HasRec, TokenerAssumption DEF IsTok

\* Between two calls.
Resting(t) ==
    /\ IsTok(t) /\ ~t.out /\ ~t.hi /\ t.caseLen = 0 /\ t.err \in Errors
    /\ t.err = "success" => \A d \in 0 .. MaxDepth : t.level[d] = Empty
    /\ t.err # "success" => Stack(t.level, t.depth)
    /\ t.err = "continue" => Top(t).state \notin AddStates \cup {"finish"} /\ QuoteKnown(t)

LEMMA GoodEmpty == GoodLevel(Empty) /\ Empty.state = "eatws" /\ Empty.saved = "start"
  BY DEF Empty, GoodLevel, States, AfterBlanks, Blank, Within, InString, InEscape, AddStates, ArrayStates,
     ObjectStates

LEMMA BegunIsSane ==
    ASSUME NEW t, Resting(t), t.err = "continue" \/ (t.err = "success" /\ t.depth = 0), NEW n \in Nat,
           NEW x, x = Begun(t)
    PROVE  /\ Sane(x, n) /\ ~x.out /\ x.err = "success" /\ x.offset = 0 /\ x.strict = t.strict
           /\ Top(x) = Top(t) /\ x.level = t.level /\ x.depth = t.depth
<1>1. Has(x, t.level, t.depth, "success", t.pb, t.pos, t.quote, t.strict, 0, t.hi, t.caseLen, t.obj, t.out)
  BY BegunFields DEF Resting
<1>2. Top(x) = Top(t) /\ ~x.out /\ ~x.hi
  BY <1>1 DEF Has, Top, Resting
<1>3. Stack(t.level, t.depth)
  <2>1. CASE t.err = "continue"
    BY <2>1 DEF Resting
  <2>2. CASE t.err = "success" /\ t.depth = 0
    <3>1. \A d \in 0 .. MaxDepth : t.level[d] = Empty
      BY <2>2 DEF Resting
    <3> QED
      BY <2>2, <3>1, GoodEmpty DEF Stack
  <2> QED
    BY <2>1, <2>2
<1>4. Top(t).state \notin AddStates \cup {"finish"} /\ QuoteKnown(t)
  <2>1. CASE t.err = "continue"
    BY <2>1 DEF Resting
  <2>2. CASE t.err = "success" /\ t.depth = 0
    <3>1. Top(t) = Empty
      BY <2>2, TopLevelFacts DEF Resting, Top
    <3> QED
      BY <3>1, GoodEmpty DEF QuoteKnown, InString, InEscape, AddStates
  <2> QED
    BY <2>1, <2>2
<1>5. Sane(x, n)
  BY <1>1, <1>2, <1>3, <1>4 DEF Sane, Has, QuoteKnown, Errors
<1> QED
  BY <1>1, <1>2, <1>5 DEF Has

LEMMA InCommentMoved ==
    ASSUME NEW s, NEW k, NEW text0, InComment(s, k, text0), NEW y, NEW m,
           k \in Nat, s.offset \in Nat, m \in Nat, y.offset \in Nat,
           m + y.offset = k + s.offset, Top(y) = Top(s)
    PROVE  InComment(y, m, text0)
  BY DEF InComment

\* What a call leaves.
LEMMA CallEnds ==
    ASSUME NEW str, NEW k, NEW text0, Behind(str, k, text0), NEW t, Resting(t),
           t.err = "continue" \/ (t.err = "success" /\ t.depth = 0),
           InComment(Begun(t), k, text0), NEW r, r = ParseEx(t, str), NEW x, x = r[1]
    PROVE  /\ Resting(x) /\ x.strict = t.strict /\ x.offset <= Len(str)
           /\ x.err = "success" =>
                 \/ x.depth = 0
                 \/ /\ x.offset > 0 /\ str[x.offset] = Nul
                    /\ \E j \in 1 .. k + x.offset - 1 : text0[j] = "/" /\ text0[j + 1] \in {"*", "/"}
           /\ x.err = "continue" => x.offset = Len(str) /\ InComment(Begun(x), k + Len(str), text0)
<1>0. str \in Seq(STRING) /\ Len(str) \in Nat /\ k \in Nat
  BY DEF Behind
<1>1. PICK t0 : t0 = Begun(t)
  OBVIOUS
<1>2. Sane(t0, Len(str)) /\ ~t0.out /\ t0.err = "success" /\ t0.offset = 0 /\ t0.strict = t.strict
  BY <1>0, <1>1, BegunIsSane
<1>3. PICK q, s : q = Passes(t0, str) /\ s = q.tok
  OBVIOUS
<1>4. Ran(q, str, k, text0) /\ s.strict = t.strict /\ (s.out \/ s.offset = Len(str))
  BY <1>1, <1>2, <1>3, PassesReach
<1>5. Sane(s, Len(str)) /\ IsTok(s) /\ s.offset \in Nat /\ s.offset <= Len(str)
  BY <1>3, <1>4 DEF Ran, Sane, IsTok
<1>6. PICK u : u = AtEnd(s)
  OBVIOUS
<1>7. PICK e1 : /\ Has(u, s.level, s.depth, e1, s.pb, s.pos, s.quote, s.strict,
                       s.offset, s.hi, s.caseLen, s.obj, s.out)
                /\ Top(u) = Top(s)
                /\ e1 = IF s.out THEN s.err ELSE IF Complete(s) THEN "success" ELSE "continue"
  BY <1>5, <1>6, AtEndIs
<1>8. PICK e : e = AtOut(u, q.c)
  OBVIOUS
<1>9. /\ Has(x, x.level, u.depth, e, u.pb, u.pos, u.quote, u.strict, u.offset, No, 0, NullValue, No)
      /\ e = "success" => x.level = Cleared(u) /\ r[2] = Top(u).current
      /\ e # "success" => x.level = u.level /\ r[2] = NullValue
  BY <1>1, <1>3, <1>5, <1>6, <1>7, <1>8, ParseExIs DEF Has
<1>10. x.strict = t.strict /\ x.offset = s.offset /\ x.depth = s.depth /\ x.err = e /\ x.quote = s.quote
  BY <1>4, <1>7, <1>9 DEF Has
<1>11. e = e1 \/ e \in {"eof", "unexpected"}
  BY <1>7, <1>8 DEF AtOut, Has
<1>12. e1 \in Errors /\ Stack(s.level, s.depth)
  BY <1>5, <1>7 DEF Sane, Errors
<1>13. ~x.out /\ ~x.hi /\ x.caseLen = 0 /\ IsTok(x) /\ x.err \in Errors
  BY <1>9, <1>10, <1>11, <1>12 DEF Has, No, Errors
<1>14. e # "success" => x.level = s.level /\ Top(x) = Top(s)
  BY <1>7, <1>9, <1>10 DEF Has, Top
<1>15. ASSUME e = "success" PROVE \A d \in 0 .. MaxDepth : x.level[d] = Empty
  <2>1. \A d \in 0 .. MaxDepth : Cleared(u)[d] = IF d <= u.depth THEN Empty ELSE u.level[d]
    BY <1>7, ClearedLevels DEF Has
  <2>2. u.level = s.level /\ u.depth = s.depth /\ s.depth \in Nat
    BY <1>5, <1>7 DEF Has, IsTok
  <2>3. \A d \in 0 .. MaxDepth : d > s.depth => s.level[d] = Empty
    BY <1>12 DEF Stack
  <2> QED
    BY <1>9, <1>15, <2>1, <2>2, <2>3
<1>16. ASSUME e = "continue"
       PROVE  /\ Top(x).state \notin AddStates \cup {"finish"} /\ QuoteKnown(x) /\ x.offset = Len(str)
              /\ InComment(s, k, text0)
  <2>1. e1 = "continue"
    BY <1>11, <1>16
  <2>2. s.err \in {"success", "continue"}
    BY <1>5, <1>7, <2>1 DEF Sane
  <2>3. InComment(s, k, text0) /\ QuoteKnown(s)
    BY <1>3, <1>4, <1>5, <2>2 DEF Ran, Sane
  <2>4. s.offset = Len(str) /\ Top(s).state \notin AddStates \cup {"finish"}
    <3>1. CASE s.out
      <4>1. CutShort(s, str)
        BY <1>3, <1>4, <1>7, <2>1, <3>1 DEF Ran
      <4> QED
        BY <4>1 DEF CutShort, AddStates
    <3>2. CASE ~s.out
      BY <1>0, <1>4, <1>5, <3>2 DEF Sane
    <3> QED
      BY <3>1, <3>2
  <2> QED
    BY <1>10, <1>14, <1>16, <2>3, <2>4 DEF QuoteKnown
<1>17. Resting(x)
  <2>1. x.err # "success" => Stack(x.level, x.depth)
    BY <1>10, <1>12, <1>14
  <2> QED
    BY <1>10, <1>13, <1>15, <1>16, <2>1 DEF Resting
<1>18. ASSUME e = "success", x.depth # 0
       PROVE  /\ x.offset > 0 /\ str[x.offset] = Nul
              /\ \E j \in 1 .. k + x.offset - 1 : text0[j] = "/" /\ text0[j + 1] \in {"*", "/"}
  <2>1. e1 = "success"
    BY <1>11, <1>18
  <2>2. s.out /\ s.err = "success"
    BY <1>7, <1>10, <1>18, <2>1 DEF Complete
  <2>3. q.c = Nul /\ AtNul(s, str)
    BY <1>3, <1>4, <1>10, <1>18, <2>2 DEF Ran
  <2>4. Top(s).saved = "finish"
    BY <1>7, <1>8, <1>18, <2>3 DEF AtOut, AtNul
  <2>5. GoodLevel(Top(s))
    BY <1>5, <1>12, TopLevelFacts DEF Top, Stack
  <2>6. Top(s).state \in Within
    BY <2>3, <2>4, <2>5 DEF GoodLevel, Blank, AtNul
  <2>7. InComment(s, k, text0)
    BY <1>3, <1>4, <2>2 DEF Ran
  <2> QED
    BY <1>10, <2>3, <2>6, <2>7 DEF InComment, AtNul
<1>19. ASSUME e = "continue" PROVE InComment(Begun(x), k + Len(str), text0)
  <2>1. PICK y : y = Begun(x)
    OBVIOUS
  <2>2. Top(y) = Top(x) /\ y.offset = 0
    BY <1>10, <1>17, <1>19, <2>1, BegunIsSane
  <2>3. PICK m, g : m = k + Len(str) /\ g = k + s.offset
    OBVIOUS
  <2>4. m + y.offset = g /\ Top(y) = Top(s)
    BY <1>0, <1>5, <1>10, <1>14, <1>16, <1>19, <2>2, <2>3
  <2>5. InComment(s, k, text0)
    BY <1>16, <1>19
  <2>6. InComment(y, m, text0)
    <3>1. m + y.offset = k + s.offset /\ m \in Nat /\ y.offset \in Nat
      BY <1>0, <2>2, <2>3, <2>4
    <3> QED
      BY <1>0, <1>5, <2>4, <2>5, <3>1, InCommentMoved
  <2> QED
    BY <2>1, <2>3, <2>6
<1> QED
  BY <1>5, <1>10, <1>16, <1>17, <1>18, <1>19

\* Between two calls: the stack is sound up to the depth, and a comment that is
\* open has begun in this value's text.
TokInv ==
    /\ IsText(text) /\ Resting(tok) /\ tok.offset <= Len(text)
    /\ valueAt \in 0 .. pieceAt /\ pieceAt \in 0 .. Len(text) /\ upto \in 0 .. Len(text)
    /\ resets \in 0 .. MaxResets
    /\ tok.err = "success" => tok.depth = 0 \/ EndsInComment
    /\ tok.err = "continue" =>
          /\ pieceAt = upto
          /\ InComment(Begun(tok), pieceAt - valueAt, SubSeq(text, valueAt + 1, Len(text)))

LEMMA NewTokenerRests ==
    ASSUME NEW strict, NEW t, t = NewTokener(strict)
    PROVE  Resting(t) /\ t.err = "success" /\ t.depth = 0 /\ t.offset = 0 /\ t.pos = 0 /\ t.strict = strict
<1>1. PICK lv : lv = [d \in 0 .. MaxDepth |-> Empty]
  OBVIOUS
<1>2. Levels(lv) /\ \A d \in 0 .. MaxDepth : lv[d] = Empty
  BY <1>1, EmptyLevel DEF Levels
<1>3. t = Rec(lv, 0, "success", <<>>, 0, "none", strict, 0, No, 0, NullValue, No)
  BY <1>1 DEF NewTokener, Rec, No
<1>4. Has(t, lv, 0, "success", <<>>, 0, "none", strict, 0, No, 0, NullValue, No)
  <2>1. 0 \in 0 .. MaxDepth - 1 /\ <<>> \in Seq(Chars)
    BY TokenerAssumption
  <2> QED
    BY <1>2, <1>3, <2>1, HasRec
<1> QED
  BY <1>2, <1>4 DEF Resting, Has, No, Errors

LEMMA Starts == TokInit => TokInv
<1> SUFFICES ASSUME TokInit PROVE TokInv
  OBVIOUS
<1>1. IsText(text) /\ valueAt = 0 /\ pieceAt = 0 /\ upto = 0 /\ resets = 0
  BY DEF TokInit
<1>2. PICK strict \in BOOLEAN : tok = NewTokener(strict)
  BY DEF TokInit
<1>3. Resting(tok) /\ tok.err = "success" /\ tok.depth = 0 /\ tok.offset = 0
  BY <1>2, NewTokenerRests
<1>4. Len(text) \in Nat
  BY <1>1 DEF IsText
<1> QED
  BY <1>1, <1>3, <1>4, TokenerAssumption DEF TokInv

Piece(str, k, w, s, v, p, n) ==
    /\ Behind(str, k, w) /\ Len(str) = n /\ Len(w) = Len(s) - v
    /\ \A i \in 1 .. n : str[i] = s[p + i]
    /\ \A i \in 1 .. Len(s) - v : w[i] = s[v + i]

\* The rest of a value's text, and a piece in it.
LEMMA PieceBehind ==
    ASSUME NEW s \in Seq(STRING), NEW v \in 0 .. Len(s), NEW p \in v .. Len(s), NEW n \in 1 .. Len(s) - p,
           NEW str, str = SubSeq(s, p + 1, p + n), NEW w, w = SubSeq(s, v + 1, Len(s)), NEW k, k = p - v
    PROVE  Piece(str, k, w, s, v, p, n)
<1>1. PICK a, b, c : a = p + 1 /\ b = p + n /\ c = v + 1
  OBVIOUS
<1>2. a \in 1 .. Len(s) /\ b \in a .. Len(s) /\ c \in 1 .. Len(s) /\ n = b - a + 1 /\ n \in Nat
          /\ Len(s) - v = Len(s) - c + 1
      /\ Len(s) \in Nat /\ c \in Int /\ Len(s) \in Int /\ c <= Len(s)
  BY <1>1
<1>3. \A i \in 1 .. Len(s) : s[i] \in STRING
  OBVIOUS
<1>4. /\ SubSeq(s, a, b) \in Seq(STRING) /\ Len(SubSeq(s, a, b)) = b - a + 1
      /\ \A i \in 1 .. b - a + 1 : SubSeq(s, a, b)[i] = s[a + i - 1]
  <2>1. a \in Int /\ b \in Int /\ a <= b /\ \A i \in a .. b : s[i] \in STRING
    BY <1>2, <1>3
  <2> QED
    BY <2>1, SubSeqProperties
<1>5. /\ Len(SubSeq(s, c, Len(s))) = Len(s) - c + 1
      /\ \A i \in 1 .. Len(s) - c + 1 : SubSeq(s, c, Len(s))[i] = s[c + i - 1]
  BY <1>2, <1>3, SubSeqProperties
<1>6. str \in Seq(STRING) /\ Len(str) = n /\ \A i \in 1 .. n : str[i] = s[p + i]
  <2>1. str = SubSeq(s, a, b)
    BY <1>1
  <2>2. \A i \in 1 .. n : a + i - 1 = p + i
    BY <1>1
  <2> QED
    BY <1>2, <1>4, <2>1, <2>2
<1>7. Len(w) = Len(s) - v /\ \A i \in 1 .. Len(s) - v : w[i] = s[v + i]
  <2>1. w = SubSeq(s, c, Len(s))
    BY <1>1
  <2>2. \A i \in 1 .. Len(s) - v : c + i - 1 = v + i
    BY <1>1
  <2> QED
    BY <1>2, <1>5, <2>1, <2>2
<1>8. \A i \in 1 .. n : w[k + i] = str[i]
  <2> SUFFICES ASSUME NEW i \in 1 .. n PROVE w[k + i] = str[i]
    OBVIOUS
  <2>1. k + i \in 1 .. Len(s) - v /\ v + (k + i) = p + i
    OBVIOUS
  <2>2. PICK j : j = k + i
    OBVIOUS
  <2>3. w[j] = s[v + j] /\ v + j = p + i
    BY <1>7, <2>1, <2>2
  <2> QED
    BY <1>6, <2>2, <2>3
<1> QED
  BY <1>6, <1>7, <1>8 DEF Behind, Piece

LEMMA MoreKeeps == TokInv /\ ParseMore => TokInv'
<1> SUFFICES ASSUME TokInv, ParseMore PROVE TokInv'
  OBVIOUS
<1>1. text \in Seq(STRING) /\ Len(text) \in Nat /\ Resting(tok) /\ pieceAt \in 0 .. Len(text)
          /\ valueAt \in 0 .. pieceAt
      /\ upto \in 0 .. Len(text) /\ resets \in 0 .. MaxResets
  BY DEF TokInv, IsText
<1>2. /\ tok.err \in {"success", "continue"} /\ pieceAt < Len(text)
      /\ text' = text /\ resets' = resets
      /\ valueAt' = IF tok.err = "success" THEN pieceAt ELSE valueAt
  BY DEF ParseMore
<1>3. PICK n \in 1 .. Len(text) - pieceAt :
          LET r == ParseEx(tok, SubSeq(text, pieceAt + 1, pieceAt + n))
          IN  tok' = r[1] /\ upto' = pieceAt + n /\ pieceAt' = pieceAt + r[1].offset
  BY DEF ParseMore
<1>4. PICK p, v, k, str, w, s, r, x, t :
          /\ p = pieceAt /\ v = valueAt' /\ k = p - v /\ s = text /\ t = tok
          /\ str = SubSeq(s, p + 1, p + n) /\ w = SubSeq(s, v + 1, Len(s))
          /\ r = ParseEx(t, str) /\ x = r[1]
  OBVIOUS
<1>5. tok' = x /\ upto' = p + n /\ pieceAt' = p + x.offset
  BY <1>3, <1>4
<1>6. s \in Seq(STRING) /\ v \in 0 .. Len(s) /\ p \in v .. Len(s) /\ n \in 1 .. Len(s) - p /\ p \in Nat
          /\ k \in Nat
  BY <1>1, <1>2, <1>4
<1>7. /\ Behind(str, k, w) /\ Len(str) = n /\ Len(w) = Len(s) - v
      /\ \A i \in 1 .. n : str[i] = s[p + i]
      /\ \A i \in 1 .. Len(s) - v : w[i] = s[v + i]
  <2>1. str = SubSeq(s, p + 1, p + n) /\ w = SubSeq(s, v + 1, Len(s)) /\ k = p - v
    BY <1>4
  <2>2. Piece(str, k, w, s, v, p, n)
    BY <1>6, <2>1, PieceBehind
  <2> QED
    BY <2>2 DEF Piece
<1>8. t.err = "continue" \/ (t.err = "success" /\ t.depth = 0)
  <2>1. tok.err = "success" => tok.depth = 0 \/ EndsInComment
    BY DEF TokInv
  <2>2. ASSUME EndsInComment PROVE FALSE
    <3>1. pieceAt > 0 /\ text[pieceAt] = Nul
      BY <2>2 DEF EndsInComment
    <3>2. \A i \in 1 .. Len(text) - 1 : text[i] # Nul
      BY DEF TokInv, IsText
    <3> QED
      BY <1>1, <1>2, <3>1, <3>2
  <2> QED
    BY <1>2, <1>4, <2>1, <2>2
<1>9. InComment(Begun(t), k, w)
  <2>1. CASE t.err = "success"
    <3>1. PICK y : y = Begun(t)
      OBVIOUS
    <3>2. Top(y) = Top(t) /\ Top(t) = Empty
      BY <1>1, <1>4, <1>8, <2>1, <3>1, BegunIsSane, TopLevelFacts DEF Resting, Top
    <3> QED
      BY <3>1, <3>2, GoodEmpty DEF InComment, Within
  <2>2. CASE t.err = "continue"
    <3>1. v = valueAt
      BY <1>2, <1>4, <2>2
    <3> QED
      BY <1>4, <2>2, <3>1 DEF TokInv
  <2> QED
    BY <1>8, <2>1, <2>2
<1>10. /\ Resting(x) /\ x.strict = t.strict /\ x.offset <= Len(str)
       /\ x.err = "success" =>
             \/ x.depth = 0
             \/ /\ x.offset > 0 /\ str[x.offset] = Nul
                /\ \E j \in 1 .. k + x.offset - 1 : w[j] = "/" /\ w[j + 1] \in {"*", "/"}
       /\ x.err = "continue" => x.offset = Len(str) /\ InComment(Begun(x), k + Len(str), w)
  <2>1. Resting(t) /\ r = ParseEx(t, str) /\ x = r[1] /\ Behind(str, k, w)
    BY <1>1, <1>4, <1>7
  <2> QED
    BY <2>1, <1>8, <1>9, CallEnds
<1>11. x.offset \in Nat /\ x.offset <= n
  BY <1>7, <1>10 DEF Resting, IsTok
<1>12. p + x.offset \in v .. Len(s) /\ p + n \in 0 .. Len(s)
  BY <1>6, <1>11
<1>13. ASSUME x.err = "success", x.depth # 0 PROVE EndsInComment'
  <2>1. PICK o, g : o = x.offset /\ g = p + o
    OBVIOUS
  <2>2. o \in 1 .. n /\ str[o] = Nul /\ g = k + v + o
    <3>1. k = p - v
      BY <1>4
    <3>2. x.offset > 0 /\ str[x.offset] = Nul
      BY <1>10, <1>13
    <3> QED
      BY <1>6, <1>11, <2>1, <3>1, <3>2
  <2>3. s[g] = Nul /\ g > 0
    BY <1>6, <1>7, <2>1, <2>2
  <2>4. PICK j \in 1 .. k + o - 1 : w[j] = "/" /\ w[j + 1] \in {"*", "/"}
    BY <1>10, <1>13, <2>1
  <2>5. PICK i, m : i = v + j /\ m = j + 1
    OBVIOUS
  <2>6. j \in 1 .. Len(s) - v /\ m \in 1 .. Len(s) - v /\ i \in v + 1 .. g - 1 /\ i + 1 = v + m
    <3>1. g <= Len(s) /\ g \in Nat /\ v \in Nat /\ Len(s) \in Nat /\ o \in Nat
      BY <1>6, <1>12, <2>1, <2>2
    <3>2. v + j <= g - 1 /\ j >= 1 /\ j \in Nat
      BY <1>6, <2>2, <3>1
    <3> QED
      BY <2>5, <3>1, <3>2
  <2>7. s[i] = "/" /\ s[i + 1] \in {"*", "/"}
    BY <1>7, <2>4, <2>5, <2>6
  <2>8. g = pieceAt' /\ v = valueAt' /\ s = text'
    BY <1>2, <1>4, <1>5, <2>1
  <2> QED
    BY <2>3, <2>6, <2>7, <2>8 DEF EndsInComment
<1>14. ASSUME x.err = "continue"
       PROVE  /\ pieceAt' = upto'
              /\ InComment(Begun(tok'), pieceAt' - valueAt', SubSeq(text', valueAt' + 1, Len(text')))
  <2>1. x.offset = n /\ InComment(Begun(x), k + n, w)
    BY <1>7, <1>10, <1>14
  <2>2. pieceAt' = upto' /\ pieceAt' - valueAt' = k + n
    BY <1>4, <1>5, <1>6, <2>1
  <2> QED
    BY <1>2, <1>4, <1>5, <2>1, <2>2
<1>15. x.offset <= Len(text)
  BY <1>4, <1>6, <1>11
<1>16. IsText(text')
  BY <1>2 DEF TokInv, IsText
<1>17. pieceAt' \in 0 .. Len(text') /\ valueAt' \in 0 .. pieceAt' /\ upto' \in 0 .. Len(text')
  BY <1>2, <1>4, <1>5, <1>6, <1>12
<1> QED
  BY <1>1, <1>2, <1>5, <1>10, <1>13, <1>14, <1>15, <1>16, <1>17 DEF TokInv

LEMMA ResetKeeps == TokInv /\ Reset => TokInv'
<1> SUFFICES ASSUME TokInv, Reset PROVE TokInv'
  OBVIOUS
<1>1. PICK t, c, x : t = tok /\ c = Cleared(t) /\ x = Renewed(t, c)
  OBVIOUS
<1>2. tok' = x /\ resets < MaxResets /\ resets' = resets + 1 /\ text' = text
      /\ valueAt' = 0 /\ pieceAt' = 0 /\ upto' = 0 /\ t.err \notin {"success", "continue"}
  BY <1>1 DEF Reset, Renewed
<1>3. Resting(t) /\ IsTok(t) /\ IsText(text) /\ Len(text) \in Nat /\ resets \in 0 .. MaxResets
          /\ t.offset <= Len(text)
  BY <1>1 DEF TokInv, Resting, IsText
<1>4. Levels(c) /\ \A d \in 0 .. MaxDepth : c[d] = IF d <= t.depth THEN Empty ELSE t.level[d]
  BY <1>1, <1>3, ClearedLevels
<1>5. Has(x, c, 0, "success", t.pb, t.pos, t.quote, t.strict, t.offset, t.hi, t.caseLen, t.obj, t.out)
  BY <1>1, <1>3, <1>4, RenewedFields
<1>6. \A d \in 0 .. MaxDepth : c[d] = Empty
  <2>1. \A d \in 0 .. MaxDepth : d > t.depth => t.level[d] = Empty
    BY <1>2, <1>3 DEF Resting, Stack
  <2>2. t.depth \in Nat
    BY <1>3 DEF IsTok
  <2> QED
    BY <1>4, <2>1, <2>2
<1>7. Resting(x) /\ x.err = "success" /\ x.depth = 0 /\ x.offset = t.offset
  BY <1>3, <1>5, <1>6 DEF Resting, Has, Errors
<1>8. IsText(text') /\ resets' \in 0 .. MaxResets
  BY <1>2, <1>3, TokenerAssumption DEF IsText
<1> QED
  BY <1>2, <1>3, <1>7, <1>8 DEF TokInv

LEMMA StutterKeeps == TokInv /\ UNCHANGED tokVars => TokInv'
<1> SUFFICES ASSUME TokInv, UNCHANGED tokVars PROVE TokInv'
  OBVIOUS
<1>1. text' = text /\ tok' = tok /\ valueAt' = valueAt /\ pieceAt' = pieceAt /\ upto' = upto
          /\ resets' = resets
  BY DEF tokVars
<1>2. IsText(text')
  BY <1>1 DEF TokInv, IsText
<1> QED
  BY <1>1, <1>2 DEF TokInv, EndsInComment

LEMMA TokInvHolds == TokSpec => []TokInv
<1>1. TokInv /\ [TokNext]_tokVars => TokInv'
  BY MoreKeeps, ResetKeeps, StutterKeeps DEF TokNext
<1> QED
  BY Starts, <1>1, PTL DEF TokSpec

LEMMA InvTypes == TokInv => TokTypeOK
<1> SUFFICES ASSUME TokInv PROVE TokTypeOK
  OBVIOUS
<1>1. Resting(tok) /\ IsTok(tok) /\ tok.err \in Errors /\ tok.pos \in Nat /\ tok.offset \in 0 .. Len(text)
      /\ tok.depth \in Nat /\ tok.depth < MaxDepth
  BY TokenerAssumption DEF TokInv, Resting, IsTok
<1>2. ASSUME NEW d \in 0 .. MaxDepth
      PROVE  /\ d < tok.depth /\ tok.err # "success"
                  => tok.level[d].state \in {"array_add", "object_value_add"}
             /\ d > tok.depth => tok.level[d] = Empty
             /\ GoodLevel(tok.level[d])
  <2>1. CASE tok.err = "success"
    <3>1. tok.level[d] = Empty
      BY <1>1, <2>1 DEF Resting
    <3> QED
      BY <2>1, <3>1, GoodEmpty
  <2>2. CASE tok.err # "success"
    BY <1>1, <2>2 DEF Resting, Stack, AddStates
  <2> QED
    BY <2>1, <2>2
<1>3. ASSUME NEW l, GoodLevel(l)
      PROVE  /\ {l.state, l.saved} \cap ArrayStates # {} => l.current[1] = "array"
             /\ {l.state, l.saved} \cap ObjectStates # {} => l.current[1] = "object"
  BY <1>3 DEF GoodLevel
<1>4. tok.err = "success" => \A d \in 0 .. MaxDepth : tok.level[d] = Empty
  BY <1>1 DEF Resting
<1>5. valueAt \in 0 .. pieceAt /\ upto \in 0 .. Len(text) /\ resets \in 0 .. MaxResets
  BY DEF TokInv
<1> QED
  BY <1>1, <1>2, <1>3, <1>4, <1>5 DEF TokTypeOK

\* Whatever json_tokener_parse_ex is given, and in whatever pieces, it never
\* indexes the stack beyond max_depth, a level holds what its state works on,
\* and between two values no level holds an object or a name.
THEOREM TokenerTypes == TokSpec => []TokTypeOK
  BY TokInvHolds, InvTypes, PTL

\* json_tokener_success comes with a value all of whose arrays and objects are
\* closed, unless the text ends in a comment.
THEOREM SuccessOnlyAtTop == TokSpec => []SuccessAtTop
<1>1. TokInv => SuccessAtTop
  BY DEF TokInv, SuccessAtTop
<1> QED
  BY TokInvHolds, <1>1, PTL

-----------------------------------------------------------------------------
(* Two tokeners in step, action by action.                                  *)

\* What two tokeners that go through the same text in different pieces have in
\* common in a state: the fields that are read before they are written again.
Buffered == {"inf", "null", "boolean", "number"} \cup InString \cup InEscape
Counting == {"inf", "null", "boolean", "escape_unicode"}
Needed(s, all) ==
    {f \in {"pb", "quote", "obj", "pos"} :
        \/ f = "pb" /\ s \in Buffered
        \/ f = "quote" /\ s \in InString \cup InEscape
        \/ f = "obj" /\ s \in AddStates
        \/ f = "pos" /\ (all \/ s \in Counting)}

Kin(t, x, k, F) ==
    /\ IsTok(t) /\ IsTok(x) /\ x.level = t.level /\ x.depth = t.depth /\ x.err = t.err
         /\ x.strict = t.strict
    /\ (x.hi <=> t.hi) /\ (x.out <=> t.out) /\ k \in Nat /\ x.offset = t.offset + k
    /\ "pb" \in F => x.pb = t.pb
    /\ "quote" \in F => x.quote = t.quote
    /\ "obj" \in F => x.obj = t.obj
    /\ "pos" \in F => x.pos = t.pos

InStep(t, x, k, all) == Kin(t, x, k, Needed(Top(t).state, all))
\* A pass takes t to a; only two states lead to that of a number.
Fresh(t, a) == Top(a).state = "number" => Top(t).state \in {"start", "number"}

LEMMA KinTops ==
    ASSUME NEW t, NEW x, NEW k, NEW F, Kin(t, x, k, F)
    PROVE  /\ IsTok(t) /\ IsTok(x) /\ Top(x) = Top(t) /\ x.strict = t.strict /\ x.level = t.level
           /\ x.depth = t.depth
  BY DEF Kin, Top

LEMMA KinWeakens ==
    ASSUME NEW t, NEW x, NEW k, NEW F, Kin(t, x, k, F), NEW all,
           Needed(Top(t).state, all) \subseteq F
    PROVE  InStep(t, x, k, all)
  BY DEF Kin, InStep

LEMMA KinAdvance ==
    ASSUME NEW t, NEW x, NEW k, NEW F, Kin(t, x, k, F), NEW c
    PROVE  Kin(Advance(t, c), Advance(x, c), k, F) /\ Top(Advance(t, c)) = Top(t)
<1>1. PICK a, b : a = Advance(t, c) /\ b = Advance(x, c)
  OBVIOUS
<1>2. Has(a, t.level, t.depth, t.err, t.pb, t.pos, t.quote, t.strict, t.offset + 1, t.hi, t.caseLen, t.obj,
          (c = Nul))
  BY <1>1, AdvanceFields DEF Kin
<1>3. Has(b, x.level, x.depth, x.err, x.pb, x.pos, x.quote, x.strict, x.offset + 1, x.hi, x.caseLen, x.obj,
          (c = Nul))
  BY <1>1, AdvanceFields DEF Kin
<1>4. Kin(a, b, k, F)
  BY <1>2, <1>3 DEF Kin, Has, IsTok
<1>5. Top(a) = Top(t)
  BY <1>2 DEF Has, Top
<1> QED
  BY <1>1, <1>4, <1>5

LEMMA KinFail ==
    ASSUME NEW t, NEW x, NEW k, NEW F, Kin(t, x, k, F), NEW e
    PROVE  Kin(Fail(t, e), Fail(x, e), k, F) /\ Top(Fail(t, e)) = Top(t)
<1>1. PICK a, b : a = Fail(t, e) /\ b = Fail(x, e)
  OBVIOUS
<1>2. Has(a, t.level, t.depth, e, t.pb, t.pos, t.quote, t.strict, t.offset, t.hi, t.caseLen, t.obj, Yes)
  BY <1>1, FailFields DEF Kin
<1>3. Has(b, x.level, x.depth, e, x.pb, x.pos, x.quote, x.strict, x.offset, x.hi, x.caseLen, x.obj, Yes)
  BY <1>1, FailFields DEF Kin
<1>4. Kin(a, b, k, F)
  BY <1>2, <1>3 DEF Kin, Has, IsTok, Yes
<1>5. Top(a) = Top(t)
  BY <1>2 DEF Has, Top
<1> QED
  BY <1>1, <1>4, <1>5

LEMMA KinLeave ==
    ASSUME NEW t, NEW x, NEW k, NEW F, Kin(t, x, k, F)
    PROVE  Kin(Leave(t), Leave(x), k, F) /\ Top(Leave(t)) = Top(t)
<1>1. PICK a, b : a = Leave(t) /\ b = Leave(x)
  OBVIOUS
<1>2. Has(a, t.level, t.depth, t.err, t.pb, t.pos, t.quote, t.strict, t.offset, t.hi, t.caseLen, t.obj, Yes)
  BY <1>1, LeaveFields DEF Kin
<1>3. Has(b, x.level, x.depth, x.err, x.pb, x.pos, x.quote, x.strict, x.offset, x.hi, x.caseLen, x.obj, Yes)
  BY <1>1, LeaveFields DEF Kin
<1>4. Kin(a, b, k, F)
  BY <1>2, <1>3 DEF Kin, Has, IsTok, Yes
<1>5. Top(a) = Top(t)
  BY <1>2 DEF Has, Top
<1> QED
  BY <1>1, <1>4, <1>5

LEMMA KinCollect ==
    ASSUME NEW t, NEW x, NEW k, NEW F, Kin(t, x, k, F), NEW c \in Chars
    PROVE  Kin(Collect(t, c), Collect(x, c), k, F) /\ Top(Collect(t, c)) = Top(t)
<1>1. PICK a, b : a = Collect(t, c) /\ b = Collect(x, c)
  OBVIOUS
<1>2. Has(a, t.level, t.depth, t.err, Append(t.pb, c), t.pos, t.quote, t.strict, t.offset, t.hi, t.caseLen,
          t.obj, t.out)
  BY <1>1, CollectFields DEF Kin
<1>3. Has(b, x.level, x.depth, x.err, Append(x.pb, c), x.pos, x.quote, x.strict, x.offset, x.hi, x.caseLen,
          x.obj, x.out)
  BY <1>1, CollectFields DEF Kin
<1>4. Kin(a, b, k, F)
  BY <1>2, <1>3 DEF Kin, Has, IsTok
<1>5. Top(a) = Top(t)
  BY <1>2 DEF Has, Top
<1> QED
  BY <1>1, <1>4, <1>5

LEMMA KinKeyword ==
    ASSUME NEW t, NEW x, NEW k, NEW F, Kin(t, x, k, F)
    PROVE  Kin(Keyword(t), Keyword(x), k, F \cup {"pb", "pos"}) /\ Top(Keyword(t)) = Top(t)
<1>1. PICK a, b : a = Keyword(t) /\ b = Keyword(x)
  OBVIOUS
<1>2. Has(a, t.level, t.depth, t.err, <<>>, 0, t.quote, t.strict, t.offset, t.hi, t.caseLen, t.obj, t.out)
  BY <1>1, KeywordFields DEF Kin
<1>3. Has(b, x.level, x.depth, x.err, <<>>, 0, x.quote, x.strict, x.offset, x.hi, x.caseLen, x.obj, x.out)
  BY <1>1, KeywordFields DEF Kin
<1>4. Kin(a, b, k, F \cup {"pb", "pos"})
  BY <1>2, <1>3 DEF Kin, Has, IsTok
<1>5. Top(a) = Top(t)
  BY <1>2 DEF Has, Top
<1> QED
  BY <1>1, <1>4, <1>5

LEMMA KinNumeral ==
    ASSUME NEW t, NEW x, NEW k, NEW F, Kin(t, x, k, F)
    PROVE  Kin(Numeral(t), Numeral(x), k, F \cup {"pb"}) /\ Top(Numeral(t)) = Top(t)
<1>1. PICK a, b : a = Numeral(t) /\ b = Numeral(x)
  OBVIOUS
<1>2. Has(a, t.level, t.depth, t.err, <<>>, t.pos, t.quote, t.strict, t.offset, t.hi, 0, t.obj, t.out)
  BY <1>1, NumeralFields DEF Kin
<1>3. Has(b, x.level, x.depth, x.err, <<>>, x.pos, x.quote, x.strict, x.offset, x.hi, 0, x.obj, x.out)
  BY <1>1, NumeralFields DEF Kin
<1>4. Kin(a, b, k, F \cup {"pb"})
  BY <1>2, <1>3 DEF Kin, Has, IsTok
<1>5. Top(a) = Top(t)
  BY <1>2 DEF Has, Top
<1> QED
  BY <1>1, <1>4, <1>5

LEMMA KinQuoted ==
    ASSUME NEW t, NEW x, NEW k, NEW F, Kin(t, x, k, F), NEW c
    PROVE  Kin(Quoted(t, c), Quoted(x, c), k, F \cup {"pb", "quote"}) /\ Top(Quoted(t, c)) = Top(t)
<1>1. PICK a, b : a = Quoted(t, c) /\ b = Quoted(x, c)
  OBVIOUS
<1>2. Has(a, t.level, t.depth, t.err, <<>>, t.pos, c, t.strict, t.offset, t.hi, t.caseLen, t.obj, t.out)
  BY <1>1, QuotedFields DEF Kin
<1>3. Has(b, x.level, x.depth, x.err, <<>>, x.pos, c, x.strict, x.offset, x.hi, x.caseLen, x.obj, x.out)
  BY <1>1, QuotedFields DEF Kin
<1>4. Kin(a, b, k, F \cup {"pb", "quote"})
  BY <1>2, <1>3 DEF Kin, Has, IsTok
<1>5. Top(a) = Top(t)
  BY <1>2 DEF Has, Top
<1> QED
  BY <1>1, <1>4, <1>5

LEMMA KinCounted ==
    ASSUME NEW t, NEW x, NEW k, NEW F, Kin(t, x, k, F), NEW n \in Nat
    PROVE  Kin(Counted(t, n), Counted(x, n), k, F) /\ Top(Counted(t, n)) = Top(t)
<1>1. PICK a, b : a = Counted(t, n) /\ b = Counted(x, n)
  OBVIOUS
<1>2. Has(a, t.level, t.depth, t.err, t.pb, t.pos + n, t.quote, t.strict, t.offset, t.hi, t.caseLen, t.obj,
          t.out)
  BY <1>1, CountedFields DEF Kin
<1>3. Has(b, x.level, x.depth, x.err, x.pb, x.pos + n, x.quote, x.strict, x.offset, x.hi, x.caseLen, x.obj,
          x.out)
  BY <1>1, CountedFields DEF Kin
<1>4. Kin(a, b, k, F)
  BY <1>2, <1>3 DEF Kin, Has, IsTok
<1>5. Top(a) = Top(t)
  BY <1>2 DEF Has, Top
<1> QED
  BY <1>1, <1>4, <1>5

LEMMA KinLengthened ==
    ASSUME NEW t, NEW x, NEW k, NEW F, Kin(t, x, k, F)
    PROVE  Kin(Lengthened(t), Lengthened(x), k, F) /\ Top(Lengthened(t)) = Top(t)
<1>1. PICK a, b : a = Lengthened(t) /\ b = Lengthened(x)
  OBVIOUS
<1>2. Has(a, t.level, t.depth, t.err, t.pb, t.pos, t.quote, t.strict, t.offset, t.hi, t.caseLen + 1, t.obj,
          t.out)
  BY <1>1, LengthenedFields DEF Kin
<1>3. Has(b, x.level, x.depth, x.err, x.pb, x.pos, x.quote, x.strict, x.offset, x.hi, x.caseLen + 1, x.obj,
          x.out)
  BY <1>1, LengthenedFields DEF Kin
<1>4. Kin(a, b, k, F)
  BY <1>2, <1>3 DEF Kin, Has, IsTok
<1>5. Top(a) = Top(t)
  BY <1>2 DEF Has, Top
<1> QED
  BY <1>1, <1>4, <1>5

LEMMA KinFirstDigit ==
    ASSUME NEW t, NEW x, NEW k, NEW F, Kin(t, x, k, F)
    PROVE  Kin(FirstDigit(t), FirstDigit(x), k, F \cup {"pos"}) /\ Top(FirstDigit(t)) = Top(t)
<1>1. PICK a, b : a = FirstDigit(t) /\ b = FirstDigit(x)
  OBVIOUS
<1>2. Has(a, t.level, t.depth, t.err, t.pb, 0, t.quote, t.strict, t.offset, t.hi, t.caseLen, t.obj, t.out)
  BY <1>1, FirstDigitFields DEF Kin
<1>3. Has(b, x.level, x.depth, x.err, x.pb, 0, x.quote, x.strict, x.offset, x.hi, x.caseLen, x.obj, x.out)
  BY <1>1, FirstDigitFields DEF Kin
<1>4. Kin(a, b, k, F \cup {"pos"})
  BY <1>2, <1>3 DEF Kin, Has, IsTok
<1>5. Top(a) = Top(t)
  BY <1>2 DEF Has, Top
<1> QED
  BY <1>1, <1>4, <1>5

LEMMA KinSecondHalf ==
    ASSUME NEW t, NEW x, NEW k, NEW F, Kin(t, x, k, F)
    PROVE  Kin(SecondHalf(t), SecondHalf(x), k, F \cup {"pos"}) /\ Top(SecondHalf(t)) = Top(t)
<1>1. PICK a, b : a = SecondHalf(t) /\ b = SecondHalf(x)
  OBVIOUS
<1>2. Has(a, t.level, t.depth, t.err, t.pb, 0, t.quote, t.strict, t.offset + 3, Yes, t.caseLen, t.obj,
          t.out)
  BY <1>1, SecondHalfFields DEF Kin
<1>3. Has(b, x.level, x.depth, x.err, x.pb, 0, x.quote, x.strict, x.offset + 3, Yes, x.caseLen, x.obj,
          x.out)
  BY <1>1, SecondHalfFields DEF Kin
<1>4. Kin(a, b, k, F \cup {"pos"})
  BY <1>2, <1>3 DEF Kin, Has, IsTok, Yes
<1>5. Top(a) = Top(t)
  BY <1>2 DEF Has, Top
<1> QED
  BY <1>1, <1>4, <1>5

LEMMA KinTruncated ==
    ASSUME NEW t, NEW x, NEW k, NEW F, Kin(t, x, k, F)
    PROVE  Kin(Truncated(t), Truncated(x), k, F) /\ Top(Truncated(t)) = Top(t)
<1>1. PICK a, b : a = Truncated(t) /\ b = Truncated(x)
  OBVIOUS
<1>2. Has(a, t.level, t.depth, "continue", t.pb, t.pos, t.quote, t.strict, t.offset + 3, t.hi, t.caseLen,
          t.obj, Yes)
  BY <1>1, TruncatedFields DEF Kin
<1>3. Has(b, x.level, x.depth, "continue", x.pb, x.pos, x.quote, x.strict, x.offset + 3, x.hi, x.caseLen,
          x.obj, Yes)
  BY <1>1, TruncatedFields DEF Kin
<1>4. Kin(a, b, k, F)
  BY <1>2, <1>3 DEF Kin, Has, IsTok, Yes
<1>5. Top(a) = Top(t)
  BY <1>2 DEF Has, Top
<1> QED
  BY <1>1, <1>4, <1>5

LEMMA KinAlone ==
    ASSUME NEW t, NEW x, NEW k, NEW F, Kin(t, x, k, F)
    PROVE  Kin(Alone(t), Alone(x), k, F) /\ Top(Alone(t)) = Top(t)
<1>1. PICK a, b : a = Alone(t) /\ b = Alone(x)
  OBVIOUS
<1>2. Has(a, t.level, t.depth, t.err, t.pb, t.pos, t.quote, t.strict, t.offset, No, t.caseLen, t.obj, t.out)
  BY <1>1, AloneFields DEF Kin
<1>3. Has(b, x.level, x.depth, x.err, x.pb, x.pos, x.quote, x.strict, x.offset, No, x.caseLen, x.obj, x.out)
  BY <1>1, AloneFields DEF Kin
<1>4. Kin(a, b, k, F)
  BY <1>2, <1>3 DEF Kin, Has, IsTok, No
<1>5. Top(a) = Top(t)
  BY <1>2 DEF Has, Top
<1> QED
  BY <1>1, <1>4, <1>5

LEMMA KinGoto ==
    ASSUME NEW t, NEW x, NEW k, NEW F, Kin(t, x, k, F), NEW s
    PROVE  Kin(Goto(t, s), Goto(x, s), k, F) /\ Top(Goto(t, s)) = Lev(s, Top(t).saved, Top(t).current,
           Top(t).name) /\ Top(Goto(t, s)).state = s
<1>1. PICK a, b : a = Goto(t, s) /\ b = Goto(x, s)
  OBVIOUS
<1>2. HasTop(a, t, s, Top(t).saved, Top(t).current, Top(t).name)
          /\ HasTop(b, x, s, Top(x).saved, Top(x).current, Top(x).name)
  BY <1>1, GotoFields DEF Kin
<1>3. Top(x) = Top(t)
  BY KinTops
<1>4. PICK l : l = Lev(s, Top(t).saved, Top(t).current, Top(t).name)
           /\ l = Lev(s, Top(x).saved, Top(x).current, Top(x).name)
  BY <1>3
<1>5. /\ Has(a, LevelWith(t.level, t.depth, l), t.depth, t.err, t.pb, t.pos, t.quote, t.strict, t.offset,
           t.hi, t.caseLen, t.obj, t.out)
      /\ Has(b, LevelWith(x.level, x.depth, l), x.depth, x.err, x.pb, x.pos, x.quote, x.strict, x.offset,
           x.hi, x.caseLen, x.obj, x.out)
  BY <1>2, <1>4 DEF HasTop
<1>6. Kin(a, b, k, F)
  BY <1>5 DEF Kin, Has
<1>7. Top(a) = l /\ Top(a).state = s
  BY <1>2, <1>4 DEF HasTop
<1> QED
  BY <1>1, <1>4, <1>6, <1>7

LEMMA KinEscape ==
    ASSUME NEW t, NEW x, NEW k, NEW F, Kin(t, x, k, F), NEW s
    PROVE  Kin(Escape(t, s), Escape(x, s), k, F) /\ Top(Escape(t, s)) = Lev(s, Top(t).state,
           Top(t).current, Top(t).name) /\ Top(Escape(t, s)).state = s
<1>1. PICK a, b : a = Escape(t, s) /\ b = Escape(x, s)
  OBVIOUS
<1>2. HasTop(a, t, s, Top(t).state, Top(t).current, Top(t).name)
          /\ HasTop(b, x, s, Top(x).state, Top(x).current, Top(x).name)
  BY <1>1, EscapeFields DEF Kin
<1>3. Top(x) = Top(t)
  BY KinTops
<1>4. PICK l : l = Lev(s, Top(t).state, Top(t).current, Top(t).name)
           /\ l = Lev(s, Top(x).state, Top(x).current, Top(x).name)
  BY <1>3
<1>5. /\ Has(a, LevelWith(t.level, t.depth, l), t.depth, t.err, t.pb, t.pos, t.quote, t.strict, t.offset,
           t.hi, t.caseLen, t.obj, t.out)
      /\ Has(b, LevelWith(x.level, x.depth, l), x.depth, x.err, x.pb, x.pos, x.quote, x.strict, x.offset,
           x.hi, x.caseLen, x.obj, x.out)
  BY <1>2, <1>4 DEF HasTop
<1>6. Kin(a, b, k, F)
  BY <1>5 DEF Kin, Has
<1>7. Top(a) = l /\ Top(a).state = s
  BY <1>2, <1>4 DEF HasTop
<1> QED
  BY <1>1, <1>4, <1>6, <1>7

LEMMA KinExpect ==
    ASSUME NEW t, NEW x, NEW k, NEW F, Kin(t, x, k, F), NEW s
    PROVE  Kin(Expect(t, s), Expect(x, s), k, F) /\ Top(Expect(t, s)) = Lev("eatws", s, Top(t).current,
           Top(t).name) /\ Top(Expect(t, s)).state = "eatws"
<1>1. PICK a, b : a = Expect(t, s) /\ b = Expect(x, s)
  OBVIOUS
<1>2. HasTop(a, t, "eatws", s, Top(t).current, Top(t).name)
          /\ HasTop(b, x, "eatws", s, Top(x).current, Top(x).name)
  BY <1>1, ExpectFields DEF Kin
<1>3. Top(x) = Top(t)
  BY KinTops
<1>4. PICK l : l = Lev("eatws", s, Top(t).current, Top(t).name)
           /\ l = Lev("eatws", s, Top(x).current, Top(x).name)
  BY <1>3
<1>5. /\ Has(a, LevelWith(t.level, t.depth, l), t.depth, t.err, t.pb, t.pos, t.quote, t.strict, t.offset,
           t.hi, t.caseLen, t.obj, t.out)
      /\ Has(b, LevelWith(x.level, x.depth, l), x.depth, x.err, x.pb, x.pos, x.quote, x.strict, x.offset,
           x.hi, x.caseLen, x.obj, x.out)
  BY <1>2, <1>4 DEF HasTop
<1>6. Kin(a, b, k, F)
  BY <1>5 DEF Kin, Has
<1>7. Top(a) = l /\ Top(a).state = "eatws"
  BY <1>2, <1>4 DEF HasTop
<1> QED
  BY <1>1, <1>4, <1>6, <1>7

LEMMA KinBecome ==
    ASSUME NEW t, NEW x, NEW k, NEW F, Kin(t, x, k, F), NEW s, NEW v
    PROVE  Kin(Become(t, s, v), Become(x, s, v), k, F)
           /\ Top(Become(t, s, v)) = Lev("eatws", s, v, Top(t).name) /\ Top(Become(t, s, v)).state = "eatws"
<1>1. PICK a, b : a = Become(t, s, v) /\ b = Become(x, s, v)
  OBVIOUS
<1>2. HasTop(a, t, "eatws", s, v, Top(t).name) /\ HasTop(b, x, "eatws", s, v, Top(x).name)
  BY <1>1, BecomeFields DEF Kin
<1>3. Top(x) = Top(t)
  BY KinTops
<1>4. PICK l : l = Lev("eatws", s, v, Top(t).name) /\ l = Lev("eatws", s, v, Top(x).name)
  BY <1>3
<1>5. /\ Has(a, LevelWith(t.level, t.depth, l), t.depth, t.err, t.pb, t.pos, t.quote, t.strict, t.offset,
           t.hi, t.caseLen, t.obj, t.out)
      /\ Has(b, LevelWith(x.level, x.depth, l), x.depth, x.err, x.pb, x.pos, x.quote, x.strict, x.offset,
           x.hi, x.caseLen, x.obj, x.out)
  BY <1>2, <1>4 DEF HasTop
<1>6. Kin(a, b, k, F)
  BY <1>5 DEF Kin, Has
<1>7. Top(a) = l /\ Top(a).state = "eatws"
  BY <1>2, <1>4 DEF HasTop
<1> QED
  BY <1>1, <1>4, <1>6, <1>7

LEMMA KinNamed ==
    ASSUME NEW t, NEW x, NEW k, NEW F, Kin(t, x, k, F), NEW s, NEW n
    PROVE  Kin(Named(t, s, n), Named(x, s, n), k, F)
           /\ Top(Named(t, s, n)) = Lev("eatws", s, Top(t).current, n)
                /\ Top(Named(t, s, n)).state = "eatws"
<1>1. PICK a, b : a = Named(t, s, n) /\ b = Named(x, s, n)
  OBVIOUS
<1>2. HasTop(a, t, "eatws", s, Top(t).current, n) /\ HasTop(b, x, "eatws", s, Top(x).current, n)
  BY <1>1, NamedFields DEF Kin
<1>3. Top(x) = Top(t)
  BY KinTops
<1>4. PICK l : l = Lev("eatws", s, Top(t).current, n) /\ l = Lev("eatws", s, Top(x).current, n)
  BY <1>3
<1>5. /\ Has(a, LevelWith(t.level, t.depth, l), t.depth, t.err, t.pb, t.pos, t.quote, t.strict, t.offset,
           t.hi, t.caseLen, t.obj, t.out)
      /\ Has(b, LevelWith(x.level, x.depth, l), x.depth, x.err, x.pb, x.pos, x.quote, x.strict, x.offset,
           x.hi, x.caseLen, x.obj, x.out)
  BY <1>2, <1>4 DEF HasTop
<1>6. Kin(a, b, k, F)
  BY <1>5 DEF Kin, Has
<1>7. Top(a) = l /\ Top(a).state = "eatws"
  BY <1>2, <1>4 DEF HasTop
<1> QED
  BY <1>1, <1>4, <1>6, <1>7

LEMMA KinDeeper ==
    ASSUME NEW t, NEW x, NEW k, NEW F, Kin(t, x, k, F), t.depth + 1 < MaxDepth
    PROVE  Kin(Deeper(t), Deeper(x), k, F) /\ Top(Deeper(t)) = Empty
<1>1. PICK a, b : a = Deeper(t) /\ b = Deeper(x)
  OBVIOUS
<1>2. IsTok(t) /\ IsTok(x) /\ x.depth = t.depth /\ x.level = t.level
  BY DEF Kin
<1>3. PICK n, lv : n = t.depth + 1 /\ lv = LevelWith(t.level, n, Empty)
  OBVIOUS
<1>4. Has(a, lv, n, t.err, t.pb, t.pos, t.quote, t.strict, t.offset, t.hi, t.caseLen, t.obj, t.out)
  BY <1>1, <1>2, <1>3, DeeperFields
<1>5. Has(b, lv, n, x.err, x.pb, x.pos, x.quote, x.strict, x.offset, x.hi, x.caseLen, x.obj, x.out)
  <2>1. Has(b, LevelWith(x.level, x.depth + 1, Empty), x.depth + 1, x.err, x.pb, x.pos, x.quote, x.strict,
            x.offset, x.hi, x.caseLen, x.obj, x.out)
    BY <1>1, <1>2, DeeperFields
  <2> QED
    BY <1>2, <1>3, <2>1
<1>6. Kin(a, b, k, F)
  BY <1>4, <1>5 DEF Kin, Has
<1>7. lv[n] = Empty
  <2>1. n \in 0 .. MaxDepth /\ Levels(t.level) /\ IsLevel(Empty)
    BY <1>2, <1>3, EmptyLevel, TokenerAssumption DEF IsTok
  <2> QED
    BY <1>3, <2>1, LevelWithFacts
<1> QED
  BY <1>1, <1>4, <1>6, <1>7 DEF Has, Top

LEMMA PushTwins ==
    ASSUME NEW t, NEW x, NEW k, NEW all, InStep(t, x, k, all), NEW s \in AddStates
    PROVE  InStep(Push(t, s), Push(x, s), k, all) /\ Fresh(t, Push(t, s))
<1>0. PICK F : F = Needed(Top(t).state, all)
  OBVIOUS
<1>1. Kin(t, x, k, F) /\ x.depth = t.depth /\ IsTok(t)
  BY <1>0, KinTops DEF InStep
<1>2. PICK a, b : a = Push(t, s) /\ b = Push(x, s)
  OBVIOUS
<1>3. CASE TooDeep(t)
  <2>1. a = Fail(t, "depth") /\ b = Fail(x, "depth")
    BY <1>1, <1>2, <1>3 DEF Push, TooDeep
  <2>2. Kin(a, b, k, F) /\ Top(a) = Top(t)
    BY <1>1, <2>1, KinFail
  <2> QED
    BY <1>0, <1>2, <2>2, KinWeakens DEF Fresh
<1>4. CASE ~TooDeep(t)
  <2>1. PICK y, z : y = Goto(t, s) /\ z = Goto(x, s)
    OBVIOUS
  <2>2. Kin(y, z, k, F)
    BY <1>1, <2>1, KinGoto
  <2>3. y.depth + 1 < MaxDepth
    <3>1. HasTop(y, t, s, Top(t).saved, Top(t).current, Top(t).name)
      BY <1>1, <2>1, GotoFields
    <3>2. y.depth = t.depth
      BY <3>1 DEF HasTop, Has
    <3> QED
      BY <1>1, <1>4, <3>2, TokenerAssumption DEF TooDeep, IsTok
  <2>4. a = Deeper(y) /\ b = Deeper(z)
    BY <1>1, <1>2, <1>4, <2>1 DEF Push, TooDeep
  <2>5. Kin(a, b, k, F) /\ Top(a) = Empty
    BY <2>2, <2>3, <2>4, KinDeeper
  <2>6. Needed(Top(a).state, all) \subseteq F
    BY <1>0, <2>5, GoodEmpty DEF Needed, Buffered, Counting, InString, InEscape, AddStates
  <2>7. Fresh(t, a)
    BY <2>5, GoodEmpty DEF Fresh
  <2> QED
    BY <1>2, <2>5, <2>6, <2>7, KinWeakens
<1> QED
  BY <1>3, <1>4

LEMMA EatWsTwins ==
    ASSUME NEW t, NEW x, NEW k, NEW all, InStep(t, x, k, all), NEW c \in Chars, Top(t).state = "eatws",
           GoodLevel(Top(t))
    PROVE  InStep(EatWs(t, c), EatWs(x, c), k, all) /\ Fresh(t, EatWs(t, c))
<1>0. PICK F : F = Needed(Top(t).state, all)
  OBVIOUS
<1>a. Kin(t, x, k, F) /\ Top(x) = Top(t) /\ x.strict = t.strict
  BY <1>0, KinTops DEF InStep
<1>1. CASE c \in Blanks
  <2>1. PICK a, b : a = EatWs(t, c) /\ b = EatWs(x, c)
    OBVIOUS
  <2>2. a = Advance(t, c)
    BY <1>1, <2>1 DEF EatWs, Blanks
  <2>3. b = Advance(x, c)
    BY <1>1, <2>1, <1>a DEF EatWs, Blanks
  <2>4. Kin(a, b, k, F) /\ Top(a) = Top(t)
    BY <1>a, <2>2, <2>3, KinAdvance
  <2>5. Needed(Top(a).state, all) \subseteq F
    BY <1>0, <2>4, <2>2 DEF Needed, Buffered, Counting, InString, InEscape, AddStates, GoodLevel,
       AfterBlanks, Blank, Within
  <2>6. Fresh(t, a)
    BY <2>4, <2>2 DEF Fresh, GoodLevel, AfterBlanks, Blank, Within, InString, InEscape
  <2> QED
    BY <2>1, <2>4, <2>5, <2>6, KinWeakens
<1>2. CASE c \notin Blanks /\ c = "/" /\ ~t.strict
  <2>1. PICK y1, z1 : y1 = Goto(t, "comment_start") /\ z1 = Goto(x, "comment_start")
    OBVIOUS
  <2>2. Kin(y1, z1, k, F) /\ Top(y1).state = "comment_start"
    BY <1>a, <2>1, KinGoto
  <2>3. PICK a, b : a = EatWs(t, c) /\ b = EatWs(x, c)
    OBVIOUS
  <2>4. a = Advance(y1, c)
    BY <1>2, <2>1, <2>3 DEF EatWs, Blanks
  <2>5. c \notin Blanks /\ c = "/" /\ ~x.strict
    BY <1>2, <1>a
  <2>6. b = Advance(z1, c)
    BY <2>5, <2>1, <2>3, <1>a DEF EatWs, Blanks
  <2>7. Kin(a, b, k, F) /\ Top(a) = Top(y1)
    BY <2>2, <2>4, <2>6, KinAdvance
  <2>8. Needed(Top(a).state, all) \subseteq F
    BY <1>0, <2>2, <2>7, <2>4 DEF Needed, Buffered, Counting, InString, InEscape, AddStates, GoodLevel,
       AfterBlanks, Blank, Within
  <2>9. Fresh(t, a)
    BY <2>2, <2>7, <2>4 DEF Fresh, GoodLevel, AfterBlanks, Blank, Within, InString, InEscape
  <2> QED
    BY <2>3, <2>7, <2>8, <2>9, KinWeakens
<1>3. CASE c \notin Blanks /\ ~(c = "/" /\ ~t.strict)
  <2>1. PICK v1 : v1 = Top(t).saved /\ v1 = Top(x).saved
    BY <1>a, KinTops
  <2>2. PICK y1, z1 : y1 = Goto(t, v1) /\ z1 = Goto(x, v1)
    OBVIOUS
  <2>3. Kin(y1, z1, k, F) /\ Top(y1).state = v1
    BY <1>a, <2>2, KinGoto
  <2>4. PICK a, b : a = EatWs(t, c) /\ b = EatWs(x, c)
    OBVIOUS
  <2>5. a = y1
    BY <1>3, <2>1, <2>2, <2>4 DEF EatWs, Blanks
  <2>6. c \notin Blanks /\ ~(c = "/" /\ ~x.strict)
    BY <1>3, <1>a
  <2>7. b = z1
    BY <2>6, <2>1, <2>2, <2>4, <1>a DEF EatWs, Blanks
  <2>8. Kin(a, b, k, F)
    BY <2>3, <2>5, <2>7
  <2>9. Needed(Top(a).state, all) \subseteq F
    BY <1>0, <2>1, <2>3, <2>8, <2>5 DEF Needed, Buffered, Counting, InString, InEscape, AddStates,
       GoodLevel, AfterBlanks, Blank, Within
  <2>10. Fresh(t, a)
    BY <2>1, <2>3, <2>8, <2>5 DEF Fresh, GoodLevel, AfterBlanks, Blank, Within, InString, InEscape
  <2> QED
    BY <2>4, <2>8, <2>9, <2>10, KinWeakens
<1> QED
  BY <1>1, <1>2, <1>3

LEMMA CommentStartTwins ==
    ASSUME NEW t, NEW x, NEW k, NEW all, InStep(t, x, k, all), NEW c \in Chars,
           Top(t).state = "comment_start", GoodLevel(Top(t))
    PROVE  InStep(CommentStart(t, c), CommentStart(x, c), k, all) /\ Fresh(t, CommentStart(t, c))
<1>0. PICK F : F = Needed(Top(t).state, all)
  OBVIOUS
<1>a. Kin(t, x, k, F) /\ Top(x) = Top(t) /\ x.strict = t.strict
  BY <1>0, KinTops DEF InStep
<1>1. CASE c = "*"
  <2>1. PICK y1, z1 : y1 = Goto(t, "comment") /\ z1 = Goto(x, "comment")
    OBVIOUS
  <2>2. Kin(y1, z1, k, F) /\ Top(y1).state = "comment"
    BY <1>a, <2>1, KinGoto
  <2>3. PICK a, b : a = CommentStart(t, c) /\ b = CommentStart(x, c)
    OBVIOUS
  <2>4. a = Advance(y1, c)
    BY <1>1, <2>1, <2>3 DEF CommentStart
  <2>5. b = Advance(z1, c)
    BY <1>1, <2>1, <2>3 DEF CommentStart
  <2>6. Kin(a, b, k, F) /\ Top(a) = Top(y1)
    BY <2>2, <2>4, <2>5, KinAdvance
  <2>7. Needed(Top(a).state, all) \subseteq F
    BY <1>0, <2>2, <2>6, <2>4 DEF Needed, Buffered, Counting, InString, InEscape, AddStates, GoodLevel,
       AfterBlanks, Blank, Within
  <2>8. Fresh(t, a)
    BY <2>2, <2>6, <2>4 DEF Fresh, GoodLevel, AfterBlanks, Blank, Within, InString, InEscape
  <2> QED
    BY <2>3, <2>6, <2>7, <2>8, KinWeakens
<1>2. CASE c = "/"
  <2>1. PICK y1, z1 : y1 = Goto(t, "comment_eol") /\ z1 = Goto(x, "comment_eol")
    OBVIOUS
  <2>2. Kin(y1, z1, k, F) /\ Top(y1).state = "comment_eol"
    BY <1>a, <2>1, KinGoto
  <2>3. PICK a, b : a = CommentStart(t, c) /\ b = CommentStart(x, c)
    OBVIOUS
  <2>4. a = Advance(y1, c)
    BY <1>2, <2>1, <2>3 DEF CommentStart
  <2>5. b = Advance(z1, c)
    BY <1>2, <2>1, <2>3 DEF CommentStart
  <2>6. Kin(a, b, k, F) /\ Top(a) = Top(y1)
    BY <2>2, <2>4, <2>5, KinAdvance
  <2>7. Needed(Top(a).state, all) \subseteq F
    BY <1>0, <2>2, <2>6, <2>4 DEF Needed, Buffered, Counting, InString, InEscape, AddStates, GoodLevel,
       AfterBlanks, Blank, Within
  <2>8. Fresh(t, a)
    BY <2>2, <2>6, <2>4 DEF Fresh, GoodLevel, AfterBlanks, Blank, Within, InString, InEscape
  <2> QED
    BY <2>3, <2>6, <2>7, <2>8, KinWeakens
<1>3. CASE c \notin {"*", "/"}
  <2>1. PICK a, b : a = CommentStart(t, c) /\ b = CommentStart(x, c)
    OBVIOUS
  <2>2. a = Fail(t, "comment")
    BY <1>3, <2>1 DEF CommentStart
  <2>3. b = Fail(x, "comment")
    BY <1>3, <2>1 DEF CommentStart
  <2>4. Kin(a, b, k, F) /\ Top(a) = Top(t)
    BY <1>a, <2>2, <2>3, KinFail
  <2>5. Needed(Top(a).state, all) \subseteq F
    BY <1>0, <2>4, <2>2 DEF Needed, Buffered, Counting, InString, InEscape, AddStates, GoodLevel,
       AfterBlanks, Blank, Within
  <2>6. Fresh(t, a)
    BY <2>4, <2>2 DEF Fresh, GoodLevel, AfterBlanks, Blank, Within, InString, InEscape
  <2> QED
    BY <2>1, <2>4, <2>5, <2>6, KinWeakens
<1> QED
  BY <1>1, <1>2, <1>3

LEMMA CommentTwins ==
    ASSUME NEW t, NEW x, NEW k, NEW all, InStep(t, x, k, all), NEW c \in Chars, Top(t).state = "comment",
           GoodLevel(Top(t))
    PROVE  InStep(Comment(t, c), Comment(x, c), k, all) /\ Fresh(t, Comment(t, c))
<1>0. PICK F : F = Needed(Top(t).state, all)
  OBVIOUS
<1>a. Kin(t, x, k, F) /\ Top(x) = Top(t) /\ x.strict = t.strict
  BY <1>0, KinTops DEF InStep
<1>1. CASE c = "*"
  <2>1. PICK y1, z1 : y1 = Goto(t, "comment_end") /\ z1 = Goto(x, "comment_end")
    OBVIOUS
  <2>2. Kin(y1, z1, k, F) /\ Top(y1).state = "comment_end"
    BY <1>a, <2>1, KinGoto
  <2>3. PICK a, b : a = Comment(t, c) /\ b = Comment(x, c)
    OBVIOUS
  <2>4. a = Advance(y1, c)
    BY <1>1, <2>1, <2>3 DEF Comment
  <2>5. b = Advance(z1, c)
    BY <1>1, <2>1, <2>3 DEF Comment
  <2>6. Kin(a, b, k, F) /\ Top(a) = Top(y1)
    BY <2>2, <2>4, <2>5, KinAdvance
  <2>7. Needed(Top(a).state, all) \subseteq F
    BY <1>0, <2>2, <2>6, <2>4 DEF Needed, Buffered, Counting, InString, InEscape, AddStates, GoodLevel,
       AfterBlanks, Blank, Within
  <2>8. Fresh(t, a)
    BY <2>2, <2>6, <2>4 DEF Fresh, GoodLevel, AfterBlanks, Blank, Within, InString, InEscape
  <2> QED
    BY <2>3, <2>6, <2>7, <2>8, KinWeakens
<1>2. CASE c # "*"
  <2>1. PICK a, b : a = Comment(t, c) /\ b = Comment(x, c)
    OBVIOUS
  <2>2. a = Advance(t, c)
    BY <1>2, <2>1 DEF Comment
  <2>3. b = Advance(x, c)
    BY <1>2, <2>1 DEF Comment
  <2>4. Kin(a, b, k, F) /\ Top(a) = Top(t)
    BY <1>a, <2>2, <2>3, KinAdvance
  <2>5. Needed(Top(a).state, all) \subseteq F
    BY <1>0, <2>4, <2>2 DEF Needed, Buffered, Counting, InString, InEscape, AddStates, GoodLevel,
       AfterBlanks, Blank, Within
  <2>6. Fresh(t, a)
    BY <2>4, <2>2 DEF Fresh, GoodLevel, AfterBlanks, Blank, Within, InString, InEscape
  <2> QED
    BY <2>1, <2>4, <2>5, <2>6, KinWeakens
<1> QED
  BY <1>1, <1>2

LEMMA CommentEolTwins ==
    ASSUME NEW t, NEW x, NEW k, NEW all, InStep(t, x, k, all), NEW c \in Chars,
           Top(t).state = "comment_eol", GoodLevel(Top(t))
    PROVE  InStep(CommentEol(t, c), CommentEol(x, c), k, all) /\ Fresh(t, CommentEol(t, c))
<1>0. PICK F : F = Needed(Top(t).state, all)
  OBVIOUS
<1>a. Kin(t, x, k, F) /\ Top(x) = Top(t) /\ x.strict = t.strict
  BY <1>0, KinTops DEF InStep
<1>1. CASE c = "\n"
  <2>1. PICK y1, z1 : y1 = Goto(t, "eatws") /\ z1 = Goto(x, "eatws")
    OBVIOUS
  <2>2. Kin(y1, z1, k, F) /\ Top(y1).state = "eatws"
    BY <1>a, <2>1, KinGoto
  <2>3. PICK a, b : a = CommentEol(t, c) /\ b = CommentEol(x, c)
    OBVIOUS
  <2>4. a = Advance(y1, c)
    BY <1>1, <2>1, <2>3 DEF CommentEol
  <2>5. b = Advance(z1, c)
    BY <1>1, <2>1, <2>3 DEF CommentEol
  <2>6. Kin(a, b, k, F) /\ Top(a) = Top(y1)
    BY <2>2, <2>4, <2>5, KinAdvance
  <2>7. Needed(Top(a).state, all) \subseteq F
    BY <1>0, <2>2, <2>6, <2>4 DEF Needed, Buffered, Counting, InString, InEscape, AddStates, GoodLevel,
       AfterBlanks, Blank, Within
  <2>8. Fresh(t, a)
    BY <2>2, <2>6, <2>4 DEF Fresh, GoodLevel, AfterBlanks, Blank, Within, InString, InEscape
  <2> QED
    BY <2>3, <2>6, <2>7, <2>8, KinWeakens
<1>2. CASE c # "\n"
  <2>1. PICK a, b : a = CommentEol(t, c) /\ b = CommentEol(x, c)
    OBVIOUS
  <2>2. a = Advance(t, c)
    BY <1>2, <2>1 DEF CommentEol
  <2>3. b = Advance(x, c)
    BY <1>2, <2>1 DEF CommentEol
  <2>4. Kin(a, b, k, F) /\ Top(a) = Top(t)
    BY <1>a, <2>2, <2>3, KinAdvance
  <2>5. Needed(Top(a).state, all) \subseteq F
    BY <1>0, <2>4, <2>2 DEF Needed, Buffered, Counting, InString, InEscape, AddStates, GoodLevel,
       AfterBlanks, Blank, Within
  <2>6. Fresh(t, a)
    BY <2>4, <2>2 DEF Fresh, GoodLevel, AfterBlanks, Blank, Within, InString, InEscape
  <2> QED
    BY <2>1, <2>4, <2>5, <2>6, KinWeakens
<1> QED
  BY <1>1, <1>2

LEMMA CommentEndTwins ==
    ASSUME NEW t, NEW x, NEW k, NEW all, InStep(t, x, k, all), NEW c \in Chars,
           Top(t).state = "comment_end", GoodLevel(Top(t))
    PROVE  InStep(CommentEnd(t, c), CommentEnd(x, c), k, all) /\ Fresh(t, CommentEnd(t, c))
<1>0. PICK F : F = Needed(Top(t).state, all)
  OBVIOUS
<1>a. Kin(t, x, k, F) /\ Top(x) = Top(t) /\ x.strict = t.strict
  BY <1>0, KinTops DEF InStep
<1>1. CASE c = "/"
  <2>1. PICK y1, z1 : y1 = Goto(t, "eatws") /\ z1 = Goto(x, "eatws")
    OBVIOUS
  <2>2. Kin(y1, z1, k, F) /\ Top(y1).state = "eatws"
    BY <1>a, <2>1, KinGoto
  <2>3. PICK a, b : a = CommentEnd(t, c) /\ b = CommentEnd(x, c)
    OBVIOUS
  <2>4. a = Advance(y1, c)
    BY <1>1, <2>1, <2>3 DEF CommentEnd
  <2>5. b = Advance(z1, c)
    BY <1>1, <2>1, <2>3 DEF CommentEnd
  <2>6. Kin(a, b, k, F) /\ Top(a) = Top(y1)
    BY <2>2, <2>4, <2>5, KinAdvance
  <2>7. Needed(Top(a).state, all) \subseteq F
    BY <1>0, <2>2, <2>6, <2>4 DEF Needed, Buffered, Counting, InString, InEscape, AddStates, GoodLevel,
       AfterBlanks, Blank, Within
  <2>8. Fresh(t, a)
    BY <2>2, <2>6, <2>4 DEF Fresh, GoodLevel, AfterBlanks, Blank, Within, InString, InEscape
  <2> QED
    BY <2>3, <2>6, <2>7, <2>8, KinWeakens
<1>2. CASE c # "/"
  <2>1. PICK y1, z1 : y1 = Goto(t, "comment") /\ z1 = Goto(x, "comment")
    OBVIOUS
  <2>2. Kin(y1, z1, k, F) /\ Top(y1).state = "comment"
    BY <1>a, <2>1, KinGoto
  <2>3. PICK a, b : a = CommentEnd(t, c) /\ b = CommentEnd(x, c)
    OBVIOUS
  <2>4. a = Advance(y1, c)
    BY <1>2, <2>1, <2>3 DEF CommentEnd
  <2>5. b = Advance(z1, c)
    BY <1>2, <2>1, <2>3 DEF CommentEnd
  <2>6. Kin(a, b, k, F) /\ Top(a) = Top(y1)
    BY <2>2, <2>4, <2>5, KinAdvance
  <2>7. Needed(Top(a).state, all) \subseteq F
    BY <1>0, <2>2, <2>6, <2>4 DEF Needed, Buffered, Counting, InString, InEscape, AddStates, GoodLevel,
       AfterBlanks, Blank, Within
  <2>8. Fresh(t, a)
    BY <2>2, <2>6, <2>4 DEF Fresh, GoodLevel, AfterBlanks, Blank, Within, InString, InEscape
  <2> QED
    BY <2>3, <2>6, <2>7, <2>8, KinWeakens
<1> QED
  BY <1>1, <1>2

LEMMA StartTwins ==
    ASSUME NEW t, NEW x, NEW k, NEW all, InStep(t, x, k, all), NEW c \in Chars, Top(t).state = "start",
           GoodLevel(Top(t))
    PROVE  InStep(Start(t, c), Start(x, c), k, all) /\ Fresh(t, Start(t, c))
<1>0. PICK F : F = Needed(Top(t).state, all)
  OBVIOUS
<1>a. Kin(t, x, k, F) /\ Top(x) = Top(t) /\ x.strict = t.strict
  BY <1>0, KinTops DEF InStep
<1>1. CASE c = "{"
  <2>1. PICK y1, z1 : y1 = Become(t, "object_field_start", <<"object", <<>>>>)
             /\ z1 = Become(x, "object_field_start", <<"object", <<>>>>)
    OBVIOUS
  <2>2. Kin(y1, z1, k, F) /\ Top(y1).state = "eatws"
    BY <1>a, <2>1, KinBecome
  <2>3. PICK a, b : a = Start(t, c) /\ b = Start(x, c)
    OBVIOUS
  <2>4. a = Advance(y1, c)
    BY <1>1, <2>1, <2>3 DEF Start
  <2>5. b = Advance(z1, c)
    BY <1>1, <2>1, <2>3 DEF Start
  <2>6. Kin(a, b, k, F) /\ Top(a) = Top(y1)
    BY <2>2, <2>4, <2>5, KinAdvance
  <2>7. Needed(Top(a).state, all) \subseteq F
    BY <1>0, <2>2, <2>6, <2>4 DEF Needed, Buffered, Counting, InString, InEscape, AddStates, GoodLevel,
       AfterBlanks, Blank, Within
  <2>8. Fresh(t, a)
    BY <2>2, <2>6, <2>4 DEF Fresh, GoodLevel, AfterBlanks, Blank, Within, InString, InEscape
  <2> QED
    BY <2>3, <2>6, <2>7, <2>8, KinWeakens
<1>2. CASE c = "["
  <2>1. PICK y1, z1 : y1 = Become(t, "array", <<"array", <<>>>>)
             /\ z1 = Become(x, "array", <<"array", <<>>>>)
    OBVIOUS
  <2>2. Kin(y1, z1, k, F) /\ Top(y1).state = "eatws"
    BY <1>a, <2>1, KinBecome
  <2>3. PICK a, b : a = Start(t, c) /\ b = Start(x, c)
    OBVIOUS
  <2>4. a = Advance(y1, c)
    BY <1>2, <2>1, <2>3 DEF Start
  <2>5. b = Advance(z1, c)
    BY <1>2, <2>1, <2>3 DEF Start
  <2>6. Kin(a, b, k, F) /\ Top(a) = Top(y1)
    BY <2>2, <2>4, <2>5, KinAdvance
  <2>7. Needed(Top(a).state, all) \subseteq F
    BY <1>0, <2>2, <2>6, <2>4 DEF Needed, Buffered, Counting, InString, InEscape, AddStates, GoodLevel,
       AfterBlanks, Blank, Within
  <2>8. Fresh(t, a)
    BY <2>2, <2>6, <2>4 DEF Fresh, GoodLevel, AfterBlanks, Blank, Within, InString, InEscape
  <2> QED
    BY <2>3, <2>6, <2>7, <2>8, KinWeakens
<1>3. CASE c \in {"i", "I"}
  <2>1. PICK y1, z1 : y1 = Goto(t, "inf") /\ z1 = Goto(x, "inf")
    OBVIOUS
  <2>2. Kin(y1, z1, k, F) /\ Top(y1).state = "inf"
    BY <1>a, <2>1, KinGoto
  <2>3. PICK y2, z2 : y2 = Keyword(y1) /\ z2 = Keyword(z1)
    OBVIOUS
  <2>4. Kin(y2, z2, k, F \cup {"pb", "pos"}) /\ Top(y2) = Top(y1)
    BY <2>2, <2>3, KinKeyword
  <2>5. PICK a, b : a = Start(t, c) /\ b = Start(x, c)
    OBVIOUS
  <2>6. a = y2
    BY <1>3, <2>1, <2>3, <2>5 DEF Start
  <2>7. b = z2
    BY <1>3, <2>1, <2>3, <2>5 DEF Start
  <2>8. Kin(a, b, k, F \cup {"pb", "pos"})
    BY <2>4, <2>6, <2>7
  <2>9. Needed(Top(a).state, all) \subseteq F \cup {"pb", "pos"}
    BY <1>0, <2>2, <2>4, <2>8, <2>6 DEF Needed, Buffered, Counting, InString, InEscape, AddStates,
       GoodLevel, AfterBlanks, Blank, Within
  <2>10. Fresh(t, a)
    BY <2>2, <2>4, <2>8, <2>6 DEF Fresh, GoodLevel, AfterBlanks, Blank, Within, InString, InEscape
  <2> QED
    BY <2>5, <2>8, <2>9, <2>10, KinWeakens
<1>4. CASE c \in {"n", "N"}
  <2>1. PICK y1, z1 : y1 = Goto(t, "null") /\ z1 = Goto(x, "null")
    OBVIOUS
  <2>2. Kin(y1, z1, k, F) /\ Top(y1).state = "null"
    BY <1>a, <2>1, KinGoto
  <2>3. PICK y2, z2 : y2 = Keyword(y1) /\ z2 = Keyword(z1)
    OBVIOUS
  <2>4. Kin(y2, z2, k, F \cup {"pb", "pos"}) /\ Top(y2) = Top(y1)
    BY <2>2, <2>3, KinKeyword
  <2>5. PICK a, b : a = Start(t, c) /\ b = Start(x, c)
    OBVIOUS
  <2>6. a = y2
    BY <1>4, <2>1, <2>3, <2>5 DEF Start
  <2>7. b = z2
    BY <1>4, <2>1, <2>3, <2>5 DEF Start
  <2>8. Kin(a, b, k, F \cup {"pb", "pos"})
    BY <2>4, <2>6, <2>7
  <2>9. Needed(Top(a).state, all) \subseteq F \cup {"pb", "pos"}
    BY <1>0, <2>2, <2>4, <2>8, <2>6 DEF Needed, Buffered, Counting, InString, InEscape, AddStates,
       GoodLevel, AfterBlanks, Blank, Within
  <2>10. Fresh(t, a)
    BY <2>2, <2>4, <2>8, <2>6 DEF Fresh, GoodLevel, AfterBlanks, Blank, Within, InString, InEscape
  <2> QED
    BY <2>5, <2>8, <2>9, <2>10, KinWeakens
<1>5. CASE c \in {"t", "f"}
  <2>1. PICK y1, z1 : y1 = Goto(t, "boolean") /\ z1 = Goto(x, "boolean")
    OBVIOUS
  <2>2. Kin(y1, z1, k, F) /\ Top(y1).state = "boolean"
    BY <1>a, <2>1, KinGoto
  <2>3. PICK y2, z2 : y2 = Keyword(y1) /\ z2 = Keyword(z1)
    OBVIOUS
  <2>4. Kin(y2, z2, k, F \cup {"pb", "pos"}) /\ Top(y2) = Top(y1)
    BY <2>2, <2>3, KinKeyword
  <2>5. PICK a, b : a = Start(t, c) /\ b = Start(x, c)
    OBVIOUS
  <2>6. a = y2
    BY <1>5, <2>1, <2>3, <2>5 DEF Start
  <2>7. b = z2
    BY <1>5, <2>1, <2>3, <2>5 DEF Start
  <2>8. Kin(a, b, k, F \cup {"pb", "pos"})
    BY <2>4, <2>6, <2>7
  <2>9. Needed(Top(a).state, all) \subseteq F \cup {"pb", "pos"}
    BY <1>0, <2>2, <2>4, <2>8, <2>6 DEF Needed, Buffered, Counting, InString, InEscape, AddStates,
       GoodLevel, AfterBlanks, Blank, Within
  <2>10. Fresh(t, a)
    BY <2>2, <2>4, <2>8, <2>6 DEF Fresh, GoodLevel, AfterBlanks, Blank, Within, InString, InEscape
  <2> QED
    BY <2>5, <2>8, <2>9, <2>10, KinWeakens
<1>6. CASE c = "\"" \/ (c = "'" /\ ~t.strict)
  <2>1. PICK y1, z1 : y1 = Goto(t, "string") /\ z1 = Goto(x, "string")
    OBVIOUS
  <2>2. Kin(y1, z1, k, F) /\ Top(y1).state = "string"
    BY <1>a, <2>1, KinGoto
  <2>3. PICK y2, z2 : y2 = Quoted(y1, c) /\ z2 = Quoted(z1, c)
    OBVIOUS
  <2>4. Kin(y2, z2, k, F \cup {"pb", "quote"}) /\ Top(y2) = Top(y1)
    BY <2>2, <2>3, KinQuoted
  <2>5. PICK a, b : a = Start(t, c) /\ b = Start(x, c)
    OBVIOUS
  <2>6. a = Advance(y2, c)
    BY <1>6, <2>1, <2>3, <2>5 DEF Start
  <2>7. c = "\"" \/ (c = "'" /\ ~x.strict)
    BY <1>6, <1>a
  <2>8. b = Advance(z2, c)
    BY <2>7, <2>1, <2>3, <2>5 DEF Start
  <2>9. Kin(a, b, k, F \cup {"pb", "quote"}) /\ Top(a) = Top(y2)
    BY <2>4, <2>6, <2>8, KinAdvance
  <2>10. Needed(Top(a).state, all) \subseteq F \cup {"pb", "quote"}
    BY <1>0, <2>2, <2>4, <2>9, <2>6 DEF Needed, Buffered, Counting, InString, InEscape, AddStates,
       GoodLevel, AfterBlanks, Blank, Within
  <2>11. Fresh(t, a)
    BY <2>2, <2>4, <2>9, <2>6 DEF Fresh, GoodLevel, AfterBlanks, Blank, Within, InString, InEscape
  <2> QED
    BY <2>5, <2>9, <2>10, <2>11, KinWeakens
<1>7. CASE c \in {"0", "1", "-"}
  <2>1. PICK y1, z1 : y1 = Goto(t, "number") /\ z1 = Goto(x, "number")
    OBVIOUS
  <2>2. Kin(y1, z1, k, F) /\ Top(y1).state = "number"
    BY <1>a, <2>1, KinGoto
  <2>3. PICK y2, z2 : y2 = Numeral(y1) /\ z2 = Numeral(z1)
    OBVIOUS
  <2>4. Kin(y2, z2, k, F \cup {"pb"}) /\ Top(y2) = Top(y1)
    BY <2>2, <2>3, KinNumeral
  <2>5. PICK a, b : a = Start(t, c) /\ b = Start(x, c)
    OBVIOUS
  <2>6. a = y2
    BY <1>7, <2>1, <2>3, <2>5 DEF Start
  <2>7. b = z2
    BY <1>7, <2>1, <2>3, <2>5 DEF Start
  <2>8. Kin(a, b, k, F \cup {"pb"})
    BY <2>4, <2>6, <2>7
  <2>9. Needed(Top(a).state, all) \subseteq F \cup {"pb"}
    BY <1>0, <2>2, <2>4, <2>8, <2>6 DEF Needed, Buffered, Counting, InString, InEscape, AddStates,
       GoodLevel, AfterBlanks, Blank, Within
  <2>10. Fresh(t, a)
    BY <2>2, <2>4, <2>8, <2>6 DEF Fresh, GoodLevel, AfterBlanks, Blank, Within, InString, InEscape
  <2> QED
    BY <2>5, <2>8, <2>9, <2>10, KinWeakens
<1>8. CASE c \notin {"{", "[", "i", "I", "n", "N", "t", "f", "\"", "0", "1", "-"} /\ ~(c = "'" /\ ~t.strict)
  <2>1. PICK a, b : a = Start(t, c) /\ b = Start(x, c)
    OBVIOUS
  <2>2. a = Fail(t, "unexpected")
    BY <1>8, <2>1 DEF Start
  <2>3. c \notin {"{", "[", "i", "I", "n", "N", "t", "f", "\"", "0", "1", "-"} /\ ~(c = "'" /\ ~x.strict)
    BY <1>8, <1>a
  <2>4. b = Fail(x, "unexpected")
    BY <2>3, <2>1 DEF Start
  <2>5. Kin(a, b, k, F) /\ Top(a) = Top(t)
    BY <1>a, <2>2, <2>4, KinFail
  <2>6. Needed(Top(a).state, all) \subseteq F
    BY <1>0, <2>5, <2>2 DEF Needed, Buffered, Counting, InString, InEscape, AddStates, GoodLevel,
       AfterBlanks, Blank, Within
  <2>7. Fresh(t, a)
    BY <2>5, <2>2 DEF Fresh, GoodLevel, AfterBlanks, Blank, Within, InString, InEscape
  <2> QED
    BY <2>1, <2>5, <2>6, <2>7, KinWeakens
<1> QED
  BY <1>1, <1>2, <1>3, <1>4, <1>5, <1>6, <1>7, <1>8

LEMMA StringTwins ==
    ASSUME NEW t, NEW x, NEW k, NEW all, InStep(t, x, k, all), NEW c \in Chars, Top(t).state \in InString,
           GoodLevel(Top(t)), QuoteKnown(t)
    PROVE  InStep(String(t, c), String(x, c), k, all) /\ Fresh(t, String(t, c))
<1>0. PICK F : F = Needed(Top(t).state, all)
  OBVIOUS
<1>a. Kin(t, x, k, F) /\ Top(x) = Top(t) /\ x.strict = t.strict
  BY <1>0, KinTops DEF InStep
<1>b. x.pb = t.pb /\ x.quote = t.quote
  BY <1>0, <1>a DEF Kin, Needed, Buffered, Counting, InString, InEscape, AddStates
<1>1. CASE c = t.quote /\ Top(t).state = "string"
  <2>1. PICK v1 : v1 = <<"string", t.pb>> /\ v1 = <<"string", x.pb>>
    BY <1>a, <1>b, KinTops
  <2>2. PICK y1, z1 : y1 = Become(t, "finish", v1) /\ z1 = Become(x, "finish", v1)
    OBVIOUS
  <2>3. Kin(y1, z1, k, F) /\ Top(y1).state = "eatws"
    BY <1>a, <2>2, KinBecome
  <2>4. PICK a, b : a = String(t, c) /\ b = String(x, c)
    OBVIOUS
  <2>5. a = Advance(y1, c)
    BY <1>1, <2>1, <2>2, <2>4 DEF String, Make, QuoteKnown, InString
  <2>6. c = x.quote /\ Top(x).state = "string"
    BY <1>1, <1>a, <1>b
  <2>7. b = Advance(z1, c)
    BY <2>6, <2>1, <2>2, <2>4, <1>a, <1>b DEF String, Make, QuoteKnown, InString
  <2>8. Kin(a, b, k, F) /\ Top(a) = Top(y1)
    BY <2>3, <2>5, <2>7, KinAdvance
  <2>9. Needed(Top(a).state, all) \subseteq F
    BY <1>0, <2>1, <2>3, <2>8, <2>5 DEF Needed, Buffered, Counting, InString, InEscape, AddStates,
       GoodLevel, AfterBlanks, Blank, Within
  <2>10. Fresh(t, a)
    BY <2>1, <2>3, <2>8, <2>5 DEF Fresh, GoodLevel, AfterBlanks, Blank, Within, InString, InEscape
  <2> QED
    BY <2>4, <2>8, <2>9, <2>10, KinWeakens
<1>2. CASE c = t.quote /\ Top(t).state = "object_field"
  <2>1. PICK v1 : v1 = t.pb /\ v1 = x.pb
    BY <1>a, <1>b, KinTops
  <2>2. PICK y1, z1 : y1 = Named(t, "object_field_end", v1) /\ z1 = Named(x, "object_field_end", v1)
    OBVIOUS
  <2>3. Kin(y1, z1, k, F) /\ Top(y1).state = "eatws"
    BY <1>a, <2>2, KinNamed
  <2>4. PICK a, b : a = String(t, c) /\ b = String(x, c)
    OBVIOUS
  <2>5. a = Advance(y1, c)
    BY <1>2, <2>1, <2>2, <2>4 DEF String, Make, QuoteKnown, InString
  <2>6. c = x.quote /\ Top(x).state = "object_field"
    BY <1>2, <1>a, <1>b
  <2>7. b = Advance(z1, c)
    BY <2>6, <2>1, <2>2, <2>4, <1>a, <1>b DEF String, Make, QuoteKnown, InString
  <2>8. Kin(a, b, k, F) /\ Top(a) = Top(y1)
    BY <2>3, <2>5, <2>7, KinAdvance
  <2>9. Needed(Top(a).state, all) \subseteq F
    BY <1>0, <2>1, <2>3, <2>8, <2>5 DEF Needed, Buffered, Counting, InString, InEscape, AddStates,
       GoodLevel, AfterBlanks, Blank, Within
  <2>10. Fresh(t, a)
    BY <2>1, <2>3, <2>8, <2>5 DEF Fresh, GoodLevel, AfterBlanks, Blank, Within, InString, InEscape
  <2> QED
    BY <2>4, <2>8, <2>9, <2>10, KinWeakens
<1>3. CASE c # t.quote /\ c = "\\"
  <2>1. PICK y1, z1 : y1 = Escape(t, "string_escape") /\ z1 = Escape(x, "string_escape")
    OBVIOUS
  <2>2. Kin(y1, z1, k, F) /\ Top(y1).state = "string_escape"
    BY <1>a, <2>1, KinEscape
  <2>3. PICK a, b : a = String(t, c) /\ b = String(x, c)
    OBVIOUS
  <2>4. a = Advance(y1, c)
    BY <1>3, <2>1, <2>3 DEF String, Make, QuoteKnown, InString
  <2>5. c # x.quote /\ c = "\\"
    BY <1>3, <1>a, <1>b
  <2>6. b = Advance(z1, c)
    BY <2>5, <2>1, <2>3, <1>a, <1>b DEF String, Make, QuoteKnown, InString
  <2>7. Kin(a, b, k, F) /\ Top(a) = Top(y1)
    BY <2>2, <2>4, <2>6, KinAdvance
  <2>8. Needed(Top(a).state, all) \subseteq F
    BY <1>0, <2>2, <2>7, <2>4 DEF Needed, Buffered, Counting, InString, InEscape, AddStates, GoodLevel,
       AfterBlanks, Blank, Within
  <2>9. Fresh(t, a)
    BY <2>2, <2>7, <2>4 DEF Fresh, GoodLevel, AfterBlanks, Blank, Within, InString, InEscape
  <2> QED
    BY <2>3, <2>7, <2>8, <2>9, KinWeakens
<1>4. CASE c # t.quote /\ c # "\\"
  <2>1. PICK y1, z1 : y1 = Collect(t, c) /\ z1 = Collect(x, c)
    OBVIOUS
  <2>2. Kin(y1, z1, k, F) /\ Top(y1) = Top(t)
    BY <1>a, <2>1, KinCollect
  <2>3. PICK a, b : a = String(t, c) /\ b = String(x, c)
    OBVIOUS
  <2>4. a = Advance(y1, c)
    BY <1>4, <2>1, <2>3 DEF String, Make, QuoteKnown, InString
  <2>5. c # x.quote /\ c # "\\"
    BY <1>4, <1>a, <1>b
  <2>6. b = Advance(z1, c)
    BY <2>5, <2>1, <2>3, <1>a, <1>b DEF String, Make, QuoteKnown, InString
  <2>7. Kin(a, b, k, F) /\ Top(a) = Top(y1)
    BY <2>2, <2>4, <2>6, KinAdvance
  <2>8. Needed(Top(a).state, all) \subseteq F
    BY <1>0, <2>2, <2>7, <2>4 DEF Needed, Buffered, Counting, InString, InEscape, AddStates, GoodLevel,
       AfterBlanks, Blank, Within
  <2>9. Fresh(t, a)
    BY <2>2, <2>7, <2>4 DEF Fresh, GoodLevel, AfterBlanks, Blank, Within, InString, InEscape
  <2> QED
    BY <2>3, <2>7, <2>8, <2>9, KinWeakens
<1> QED
  BY <1>1, <1>2, <1>3, <1>4 DEF InString

LEMMA StringEscapeTwins ==
    ASSUME NEW t, NEW x, NEW k, NEW all, InStep(t, x, k, all), NEW c \in Chars,
           Top(t).state = "string_escape", GoodLevel(Top(t))
    PROVE  InStep(StringEscape(t, c), StringEscape(x, c), k, all) /\ Fresh(t, StringEscape(t, c))
<1>0. PICK F : F = Needed(Top(t).state, all)
  OBVIOUS
<1>a. Kin(t, x, k, F) /\ Top(x) = Top(t) /\ x.strict = t.strict
  BY <1>0, KinTops DEF InStep
<1>1. CASE c \in {"\"", "\\", "/"}
  <2>1. PICK v1 : v1 = Top(t).saved /\ v1 = Top(x).saved
    BY <1>a, KinTops
  <2>2. PICK y1, z1 : y1 = Goto(t, v1) /\ z1 = Goto(x, v1)
    OBVIOUS
  <2>3. Kin(y1, z1, k, F) /\ Top(y1).state = v1
    BY <1>a, <2>2, KinGoto
  <2>4. PICK y2, z2 : y2 = Collect(y1, c) /\ z2 = Collect(z1, c)
    OBVIOUS
  <2>5. Kin(y2, z2, k, F) /\ Top(y2) = Top(y1)
    BY <2>3, <2>4, KinCollect
  <2>6. PICK a, b : a = StringEscape(t, c) /\ b = StringEscape(x, c)
    OBVIOUS
  <2>7. a = Advance(y2, c)
    BY <1>1, <2>1, <2>2, <2>4, <2>6 DEF StringEscape
  <2>8. b = Advance(z2, c)
    BY <1>1, <2>1, <2>2, <2>4, <2>6, <1>a DEF StringEscape
  <2>9. Kin(a, b, k, F) /\ Top(a) = Top(y2)
    BY <2>5, <2>7, <2>8, KinAdvance
  <2>10. Needed(Top(a).state, all) \subseteq F
    BY <1>0, <2>1, <2>3, <2>5, <2>9, <2>7 DEF Needed, Buffered, Counting, InString, InEscape, AddStates,
       GoodLevel, AfterBlanks, Blank, Within
  <2>11. Fresh(t, a)
    BY <2>1, <2>3, <2>5, <2>9, <2>7 DEF Fresh, GoodLevel, AfterBlanks, Blank, Within, InString, InEscape
  <2> QED
    BY <2>6, <2>9, <2>10, <2>11, KinWeakens
<1>2. CASE c = "n"
  <2>1. PICK lf \in Chars : lf = "\n"
    BY DEF Chars
  <2>2. PICK v1 : v1 = Top(t).saved /\ v1 = Top(x).saved
    BY <1>a, KinTops
  <2>3. PICK y1, z1 : y1 = Goto(t, v1) /\ z1 = Goto(x, v1)
    OBVIOUS
  <2>4. Kin(y1, z1, k, F) /\ Top(y1).state = v1
    BY <1>a, <2>3, KinGoto
  <2>5. PICK y2, z2 : y2 = Collect(y1, lf) /\ z2 = Collect(z1, lf)
    OBVIOUS
  <2>6. Kin(y2, z2, k, F) /\ Top(y2) = Top(y1)
    BY <2>4, <2>5, <2>1, KinCollect
  <2>7. PICK a, b : a = StringEscape(t, c) /\ b = StringEscape(x, c)
    OBVIOUS
  <2>8. a = Advance(y2, c)
    BY <1>2, <2>2, <2>3, <2>5, <2>1, <2>7 DEF StringEscape
  <2>9. b = Advance(z2, c)
    BY <1>2, <2>2, <2>3, <2>5, <2>1, <2>7, <1>a DEF StringEscape
  <2>10. Kin(a, b, k, F) /\ Top(a) = Top(y2)
    BY <2>6, <2>8, <2>9, KinAdvance
  <2>11. Needed(Top(a).state, all) \subseteq F
    BY <1>0, <2>2, <2>4, <2>6, <2>10, <2>8 DEF Needed, Buffered, Counting, InString, InEscape, AddStates,
       GoodLevel, AfterBlanks, Blank, Within
  <2>12. Fresh(t, a)
    BY <2>2, <2>4, <2>6, <2>10, <2>8 DEF Fresh, GoodLevel, AfterBlanks, Blank, Within, InString, InEscape
  <2> QED
    BY <2>7, <2>10, <2>11, <2>12, KinWeakens
<1>3. CASE c = "u"
  <2>1. PICK y1, z1 : y1 = Goto(t, "escape_unicode") /\ z1 = Goto(x, "escape_unicode")
    OBVIOUS
  <2>2. Kin(y1, z1, k, F) /\ Top(y1).state = "escape_unicode"
    BY <1>a, <2>1, KinGoto
  <2>3. PICK y2, z2 : y2 = FirstDigit(y1) /\ z2 = FirstDigit(z1)
    OBVIOUS
  <2>4. Kin(y2, z2, k, F \cup {"pos"}) /\ Top(y2) = Top(y1)
    BY <2>2, <2>3, KinFirstDigit
  <2>5. PICK a, b : a = StringEscape(t, c) /\ b = StringEscape(x, c)
    OBVIOUS
  <2>6. a = Advance(y2, c)
    BY <1>3, <2>1, <2>3, <2>5 DEF StringEscape
  <2>7. b = Advance(z2, c)
    BY <1>3, <2>1, <2>3, <2>5, <1>a DEF StringEscape
  <2>8. Kin(a, b, k, F \cup {"pos"}) /\ Top(a) = Top(y2)
    BY <2>4, <2>6, <2>7, KinAdvance
  <2>9. Needed(Top(a).state, all) \subseteq F \cup {"pos"}
    BY <1>0, <2>2, <2>4, <2>8, <2>6 DEF Needed, Buffered, Counting, InString, InEscape, AddStates,
       GoodLevel, AfterBlanks, Blank, Within
  <2>10. Fresh(t, a)
    BY <2>2, <2>4, <2>8, <2>6 DEF Fresh, GoodLevel, AfterBlanks, Blank, Within, InString, InEscape
  <2> QED
    BY <2>5, <2>8, <2>9, <2>10, KinWeakens
<1>4. CASE c \notin {"\"", "\\", "/", "n", "u"}
  <2>1. PICK a, b : a = StringEscape(t, c) /\ b = StringEscape(x, c)
    OBVIOUS
  <2>2. a = Fail(t, "string")
    BY <1>4, <2>1 DEF StringEscape
  <2>3. b = Fail(x, "string")
    BY <1>4, <2>1, <1>a DEF StringEscape
  <2>4. Kin(a, b, k, F) /\ Top(a) = Top(t)
    BY <1>a, <2>2, <2>3, KinFail
  <2>5. Needed(Top(a).state, all) \subseteq F
    BY <1>0, <2>4, <2>2 DEF Needed, Buffered, Counting, InString, InEscape, AddStates, GoodLevel,
       AfterBlanks, Blank, Within
  <2>6. Fresh(t, a)
    BY <2>4, <2>2 DEF Fresh, GoodLevel, AfterBlanks, Blank, Within, InString, InEscape
  <2> QED
    BY <2>1, <2>4, <2>5, <2>6, KinWeakens
<1> QED
  BY <1>1, <1>2, <1>3, <1>4

LEMMA NumberTwins ==
    ASSUME NEW t, NEW x, NEW k, NEW all, InStep(t, x, k, all), NEW c \in Chars, Top(t).state = "number",
           GoodLevel(Top(t)),
           c \in {"i", "I"} /\ Head(t.pb) = "-" => (t.caseLen = 1 <=> x.caseLen = 1),
           c \in {"i", "I"} /\ Head(t.pb) = "-" /\ t.caseLen = 1 => all
    PROVE  InStep(Number(t, c), Number(x, c), k, all) /\ Fresh(t, Number(t, c))
<1>0. PICK F : F = Needed(Top(t).state, all)
  OBVIOUS
<1>a. Kin(t, x, k, F) /\ Top(x) = Top(t) /\ x.strict = t.strict
  BY <1>0, KinTops DEF InStep
<1>b. x.pb = t.pb
  BY <1>0, <1>a DEF Kin, Needed, Buffered, Counting, InString, InEscape, AddStates
<1>1. CASE c \in NumberChars
  <2>1. PICK y1, z1 : y1 = Collect(t, c) /\ z1 = Collect(x, c)
    OBVIOUS
  <2>2. Kin(y1, z1, k, F) /\ Top(y1) = Top(t)
    BY <1>a, <2>1, KinCollect
  <2>3. PICK y2, z2 : y2 = Lengthened(y1) /\ z2 = Lengthened(z1)
    OBVIOUS
  <2>4. Kin(y2, z2, k, F) /\ Top(y2) = Top(y1)
    BY <2>2, <2>3, KinLengthened
  <2>5. PICK a, b : a = Number(t, c) /\ b = Number(x, c)
    OBVIOUS
  <2>6. a = Advance(y2, c)
    BY <1>1, <2>1, <2>3, <2>5 DEF Number, Make
  <2>7. b = Advance(z2, c)
    BY <1>1, <2>1, <2>3, <2>5 DEF Number, Make
  <2>8. Kin(a, b, k, F) /\ Top(a) = Top(y2)
    BY <2>4, <2>6, <2>7, KinAdvance
  <2>9. Needed(Top(a).state, all) \subseteq F
    BY <1>0, <2>2, <2>4, <2>8, <2>6 DEF Needed, Buffered, Counting, InString, InEscape, AddStates,
       GoodLevel, AfterBlanks, Blank, Within
  <2>10. Fresh(t, a)
    BY <2>2, <2>4, <2>8, <2>6 DEF Fresh, GoodLevel, AfterBlanks, Blank, Within, InString, InEscape
  <2> QED
    BY <2>5, <2>8, <2>9, <2>10, KinWeakens
<1>2. CASE c \notin NumberChars /\ Head(t.pb) = "-" /\ t.caseLen = 1 /\ c \in {"i", "I"}
  <2>1. PICK y1, z1 : y1 = Goto(t, "inf") /\ z1 = Goto(x, "inf")
    OBVIOUS
  <2>2. Kin(y1, z1, k, F) /\ Top(y1).state = "inf"
    BY <1>a, <2>1, KinGoto
  <2>3. PICK a, b : a = Number(t, c) /\ b = Number(x, c)
    OBVIOUS
  <2>4. a = y1
    BY <1>2, <2>1, <2>3 DEF Number, Make
  <2>5. c \notin NumberChars /\ Head(x.pb) = "-" /\ x.caseLen = 1 /\ c \in {"i", "I"}
    BY <1>2, <1>a, <1>b
  <2>6. b = z1
    BY <2>5, <2>1, <2>3 DEF Number, Make
  <2>7. Kin(a, b, k, F)
    BY <2>2, <2>4, <2>6
  <2>8. Needed(Top(a).state, all) \subseteq F
    BY <1>0, <2>2, <2>7, <2>4, <1>2 DEF Needed, Buffered, Counting, InString, InEscape, AddStates,
       GoodLevel, AfterBlanks, Blank, Within
  <2>9. Fresh(t, a)
    BY <2>2, <2>7, <2>4 DEF Fresh, GoodLevel, AfterBlanks, Blank, Within, InString, InEscape
  <2> QED
    BY <2>3, <2>7, <2>8, <2>9, KinWeakens
<1>3. CASE c \notin NumberChars /\ ~(Head(t.pb) = "-" /\ t.caseLen = 1 /\ c \in {"i", "I"})
           /\ (~Parses(t.pb) \/ (t.strict /\ LeadingZero(t.pb)))
  <2>1. PICK a, b : a = Number(t, c) /\ b = Number(x, c)
    OBVIOUS
  <2>2. a = Fail(t, "number")
    BY <1>3, <2>1 DEF Number, Make
  <2>3. c \notin NumberChars /\ ~(Head(x.pb) = "-" /\ x.caseLen = 1 /\ c \in {"i", "I"})
            /\ (~Parses(x.pb) \/ (x.strict /\ LeadingZero(x.pb)))
    BY <1>3, <1>a, <1>b
  <2>4. b = Fail(x, "number")
    BY <2>3, <2>1 DEF Number, Make
  <2>5. Kin(a, b, k, F) /\ Top(a) = Top(t)
    BY <1>a, <2>2, <2>4, KinFail
  <2>6. Needed(Top(a).state, all) \subseteq F
    BY <1>0, <2>5, <2>2 DEF Needed, Buffered, Counting, InString, InEscape, AddStates, GoodLevel,
       AfterBlanks, Blank, Within
  <2>7. Fresh(t, a)
    BY <2>5, <2>2 DEF Fresh, GoodLevel, AfterBlanks, Blank, Within, InString, InEscape
  <2> QED
    BY <2>1, <2>5, <2>6, <2>7, KinWeakens
<1>4. CASE c \notin NumberChars /\ ~(Head(t.pb) = "-" /\ t.caseLen = 1 /\ c \in {"i", "I"})
           /\ ~(~Parses(t.pb) \/ (t.strict /\ LeadingZero(t.pb)))
  <2>1. PICK v1 : v1 = <<IF IsDouble(t.pb) THEN "double" ELSE "int", t.pb>>
             /\ v1 = <<IF IsDouble(x.pb) THEN "double" ELSE "int", x.pb>>
    BY <1>a, <1>b, KinTops
  <2>2. PICK y1, z1 : y1 = Become(t, "finish", v1) /\ z1 = Become(x, "finish", v1)
    OBVIOUS
  <2>3. Kin(y1, z1, k, F) /\ Top(y1).state = "eatws"
    BY <1>a, <2>2, KinBecome
  <2>4. PICK a, b : a = Number(t, c) /\ b = Number(x, c)
    OBVIOUS
  <2>5. a = y1
    BY <1>4, <2>1, <2>2, <2>4 DEF Number, Make
  <2>6. c \notin NumberChars /\ ~(Head(x.pb) = "-" /\ x.caseLen = 1 /\ c \in {"i", "I"})
            /\ ~(~Parses(x.pb) \/ (x.strict /\ LeadingZero(x.pb)))
    BY <1>4, <1>a, <1>b
  <2>7. b = z1
    BY <2>6, <2>1, <2>2, <2>4 DEF Number, Make
  <2>8. Kin(a, b, k, F)
    BY <2>3, <2>5, <2>7
  <2>9. Needed(Top(a).state, all) \subseteq F
    BY <1>0, <2>1, <2>3, <2>8, <2>5 DEF Needed, Buffered, Counting, InString, InEscape, AddStates,
       GoodLevel, AfterBlanks, Blank, Within
  <2>10. Fresh(t, a)
    BY <2>1, <2>3, <2>8, <2>5 DEF Fresh, GoodLevel, AfterBlanks, Blank, Within, InString, InEscape
  <2> QED
    BY <2>4, <2>8, <2>9, <2>10, KinWeakens
<1> QED
  BY <1>1, <1>2, <1>3, <1>4

LEMMA ArrayTwins ==
    ASSUME NEW t, NEW x, NEW k, NEW all, InStep(t, x, k, all), NEW c \in Chars,
           Top(t).state \in {"array", "array_after_sep"}, GoodLevel(Top(t))
    PROVE  InStep(Array(t, c), Array(x, c), k, all) /\ Fresh(t, Array(t, c))
<1>0. PICK F : F = Needed(Top(t).state, all)
  OBVIOUS
<1>a. Kin(t, x, k, F) /\ Top(x) = Top(t) /\ x.strict = t.strict
  BY <1>0, KinTops DEF InStep
<1>1. CASE c = "]" /\ StrayComma(t, "array_after_sep")
  <2>1. PICK a, b : a = Array(t, c) /\ b = Array(x, c)
    OBVIOUS
  <2>2. a = Fail(t, "unexpected")
    BY <1>1, <2>1 DEF Array, CloseBracket, StrayComma
  <2>3. c = "]" /\ StrayComma(x, "array_after_sep")
    BY <1>1, <1>a DEF StrayComma
  <2>4. b = Fail(x, "unexpected")
    BY <2>3, <2>1, <1>a DEF Array, CloseBracket
  <2>5. Kin(a, b, k, F) /\ Top(a) = Top(t)
    BY <1>a, <2>2, <2>4, KinFail
  <2>6. Needed(Top(a).state, all) \subseteq F
    BY <1>0, <2>5, <2>2 DEF Needed, Buffered, Counting, InString, InEscape, AddStates, GoodLevel,
       AfterBlanks, Blank, Within
  <2>7. Fresh(t, a)
    BY <2>5, <2>2 DEF Fresh, GoodLevel, AfterBlanks, Blank, Within, InString, InEscape
  <2> QED
    BY <2>1, <2>5, <2>6, <2>7, KinWeakens
<1>2. CASE c = "]" /\ ~StrayComma(t, "array_after_sep")
  <2>1. PICK y1, z1 : y1 = Expect(t, "finish") /\ z1 = Expect(x, "finish")
    OBVIOUS
  <2>2. Kin(y1, z1, k, F) /\ Top(y1).state = "eatws"
    BY <1>a, <2>1, KinExpect
  <2>3. PICK a, b : a = Array(t, c) /\ b = Array(x, c)
    OBVIOUS
  <2>4. a = Advance(y1, c)
    BY <1>2, <2>1, <2>3 DEF Array, CloseBracket, StrayComma
  <2>5. c = "]" /\ ~StrayComma(x, "array_after_sep")
    BY <1>2, <1>a DEF StrayComma
  <2>6. b = Advance(z1, c)
    BY <2>5, <2>1, <2>3, <1>a DEF Array, CloseBracket
  <2>7. Kin(a, b, k, F) /\ Top(a) = Top(y1)
    BY <2>2, <2>4, <2>6, KinAdvance
  <2>8. Needed(Top(a).state, all) \subseteq F
    BY <1>0, <2>2, <2>7, <2>4 DEF Needed, Buffered, Counting, InString, InEscape, AddStates, GoodLevel,
       AfterBlanks, Blank, Within
  <2>9. Fresh(t, a)
    BY <2>2, <2>7, <2>4 DEF Fresh, GoodLevel, AfterBlanks, Blank, Within, InString, InEscape
  <2> QED
    BY <2>3, <2>7, <2>8, <2>9, KinWeakens
<1>3. CASE c # "]"
  <2>1. PICK a, b : a = Array(t, c) /\ b = Array(x, c)
    OBVIOUS
  <2>2. a = Push(t, "array_add")
    BY <1>3, <2>1 DEF Array, CloseBracket
  <2>3. b = Push(x, "array_add")
    BY <1>3, <2>1, <1>a DEF Array, CloseBracket
  <2>4. InStep(a, b, k, all) /\ Fresh(t, a)
    BY <1>0, <1>a, <2>2, <2>3, PushTwins DEF AddStates, InStep
  <2> QED
    BY <2>1, <2>4
<1> QED
  BY <1>1, <1>2, <1>3

LEMMA ArraySepTwins ==
    ASSUME NEW t, NEW x, NEW k, NEW all, InStep(t, x, k, all), NEW c \in Chars, Top(t).state = "array_sep",
           GoodLevel(Top(t))
    PROVE  InStep(ArraySep(t, c), ArraySep(x, c), k, all) /\ Fresh(t, ArraySep(t, c))
<1>0. PICK F : F = Needed(Top(t).state, all)
  OBVIOUS
<1>a. Kin(t, x, k, F) /\ Top(x) = Top(t) /\ x.strict = t.strict
  BY <1>0, KinTops DEF InStep
<1>1. CASE c = "]"
  <2>1. PICK y1, z1 : y1 = Expect(t, "finish") /\ z1 = Expect(x, "finish")
    OBVIOUS
  <2>2. Kin(y1, z1, k, F) /\ Top(y1).state = "eatws"
    BY <1>a, <2>1, KinExpect
  <2>3. PICK a, b : a = ArraySep(t, c) /\ b = ArraySep(x, c)
    OBVIOUS
  <2>4. a = Advance(y1, c)
    BY <1>1, <2>1, <2>3 DEF ArraySep, Separated
  <2>5. b = Advance(z1, c)
    BY <1>1, <2>1, <2>3 DEF ArraySep, Separated
  <2>6. Kin(a, b, k, F) /\ Top(a) = Top(y1)
    BY <2>2, <2>4, <2>5, KinAdvance
  <2>7. Needed(Top(a).state, all) \subseteq F
    BY <1>0, <2>2, <2>6, <2>4 DEF Needed, Buffered, Counting, InString, InEscape, AddStates, GoodLevel,
       AfterBlanks, Blank, Within
  <2>8. Fresh(t, a)
    BY <2>2, <2>6, <2>4 DEF Fresh, GoodLevel, AfterBlanks, Blank, Within, InString, InEscape
  <2> QED
    BY <2>3, <2>6, <2>7, <2>8, KinWeakens
<1>2. CASE c = ","
  <2>1. PICK y1, z1 : y1 = Expect(t, "array_after_sep") /\ z1 = Expect(x, "array_after_sep")
    OBVIOUS
  <2>2. Kin(y1, z1, k, F) /\ Top(y1).state = "eatws"
    BY <1>a, <2>1, KinExpect
  <2>3. PICK a, b : a = ArraySep(t, c) /\ b = ArraySep(x, c)
    OBVIOUS
  <2>4. a = Advance(y1, c)
    BY <1>2, <2>1, <2>3 DEF ArraySep, Separated
  <2>5. b = Advance(z1, c)
    BY <1>2, <2>1, <2>3 DEF ArraySep, Separated
  <2>6. Kin(a, b, k, F) /\ Top(a) = Top(y1)
    BY <2>2, <2>4, <2>5, KinAdvance
  <2>7. Needed(Top(a).state, all) \subseteq F
    BY <1>0, <2>2, <2>6, <2>4 DEF Needed, Buffered, Counting, InString, InEscape, AddStates, GoodLevel,
       AfterBlanks, Blank, Within
  <2>8. Fresh(t, a)
    BY <2>2, <2>6, <2>4 DEF Fresh, GoodLevel, AfterBlanks, Blank, Within, InString, InEscape
  <2> QED
    BY <2>3, <2>6, <2>7, <2>8, KinWeakens
<1>3. CASE c \notin {"]", ","}
  <2>1. PICK a, b : a = ArraySep(t, c) /\ b = ArraySep(x, c)
    OBVIOUS
  <2>2. a = Fail(t, "array")
    BY <1>3, <2>1 DEF ArraySep, Separated
  <2>3. b = Fail(x, "array")
    BY <1>3, <2>1 DEF ArraySep, Separated
  <2>4. Kin(a, b, k, F) /\ Top(a) = Top(t)
    BY <1>a, <2>2, <2>3, KinFail
  <2>5. Needed(Top(a).state, all) \subseteq F
    BY <1>0, <2>4, <2>2 DEF Needed, Buffered, Counting, InString, InEscape, AddStates, GoodLevel,
       AfterBlanks, Blank, Within
  <2>6. Fresh(t, a)
    BY <2>4, <2>2 DEF Fresh, GoodLevel, AfterBlanks, Blank, Within, InString, InEscape
  <2> QED
    BY <2>1, <2>4, <2>5, <2>6, KinWeakens
<1> QED
  BY <1>1, <1>2, <1>3

LEMMA ObjectSepTwins ==
    ASSUME NEW t, NEW x, NEW k, NEW all, InStep(t, x, k, all), NEW c \in Chars,
           Top(t).state = "object_sep", GoodLevel(Top(t))
    PROVE  InStep(ObjectSep(t, c), ObjectSep(x, c), k, all) /\ Fresh(t, ObjectSep(t, c))
<1>0. PICK F : F = Needed(Top(t).state, all)
  OBVIOUS
<1>a. Kin(t, x, k, F) /\ Top(x) = Top(t) /\ x.strict = t.strict
  BY <1>0, KinTops DEF InStep
<1>1. CASE c = "}"
  <2>1. PICK y1, z1 : y1 = Expect(t, "finish") /\ z1 = Expect(x, "finish")
    OBVIOUS
  <2>2. Kin(y1, z1, k, F) /\ Top(y1).state = "eatws"
    BY <1>a, <2>1, KinExpect
  <2>3. PICK a, b : a = ObjectSep(t, c) /\ b = ObjectSep(x, c)
    OBVIOUS
  <2>4. a = Advance(y1, c)
    BY <1>1, <2>1, <2>3 DEF ObjectSep, Separated
  <2>5. b = Advance(z1, c)
    BY <1>1, <2>1, <2>3 DEF ObjectSep, Separated
  <2>6. Kin(a, b, k, F) /\ Top(a) = Top(y1)
    BY <2>2, <2>4, <2>5, KinAdvance
  <2>7. Needed(Top(a).state, all) \subseteq F
    BY <1>0, <2>2, <2>6, <2>4 DEF Needed, Buffered, Counting, InString, InEscape, AddStates, GoodLevel,
       AfterBlanks, Blank, Within
  <2>8. Fresh(t, a)
    BY <2>2, <2>6, <2>4 DEF Fresh, GoodLevel, AfterBlanks, Blank, Within, InString, InEscape
  <2> QED
    BY <2>3, <2>6, <2>7, <2>8, KinWeakens
<1>2. CASE c = ","
  <2>1. PICK y1, z1 : y1 = Expect(t, "field_start_after_sep") /\ z1 = Expect(x, "field_start_after_sep")
    OBVIOUS
  <2>2. Kin(y1, z1, k, F) /\ Top(y1).state = "eatws"
    BY <1>a, <2>1, KinExpect
  <2>3. PICK a, b : a = ObjectSep(t, c) /\ b = ObjectSep(x, c)
    OBVIOUS
  <2>4. a = Advance(y1, c)
    BY <1>2, <2>1, <2>3 DEF ObjectSep, Separated
  <2>5. b = Advance(z1, c)
    BY <1>2, <2>1, <2>3 DEF ObjectSep, Separated
  <2>6. Kin(a, b, k, F) /\ Top(a) = Top(y1)
    BY <2>2, <2>4, <2>5, KinAdvance
  <2>7. Needed(Top(a).state, all) \subseteq F
    BY <1>0, <2>2, <2>6, <2>4 DEF Needed, Buffered, Counting, InString, InEscape, AddStates, GoodLevel,
       AfterBlanks, Blank, Within
  <2>8. Fresh(t, a)
    BY <2>2, <2>6, <2>4 DEF Fresh, GoodLevel, AfterBlanks, Blank, Within, InString, InEscape
  <2> QED
    BY <2>3, <2>6, <2>7, <2>8, KinWeakens
<1>3. CASE c \notin {"}", ","}
  <2>1. PICK a, b : a = ObjectSep(t, c) /\ b = ObjectSep(x, c)
    OBVIOUS
  <2>2. a = Fail(t, "value_sep")
    BY <1>3, <2>1 DEF ObjectSep, Separated
  <2>3. b = Fail(x, "value_sep")
    BY <1>3, <2>1 DEF ObjectSep, Separated
  <2>4. Kin(a, b, k, F) /\ Top(a) = Top(t)
    BY <1>a, <2>2, <2>3, KinFail
  <2>5. Needed(Top(a).state, all) \subseteq F
    BY <1>0, <2>4, <2>2 DEF Needed, Buffered, Counting, InString, InEscape, AddStates, GoodLevel,
       AfterBlanks, Blank, Within
  <2>6. Fresh(t, a)
    BY <2>4, <2>2 DEF Fresh, GoodLevel, AfterBlanks, Blank, Within, InString, InEscape
  <2> QED
    BY <2>1, <2>4, <2>5, <2>6, KinWeakens
<1> QED
  BY <1>1, <1>2, <1>3

LEMMA FieldStartTwins ==
    ASSUME NEW t, NEW x, NEW k, NEW all, InStep(t, x, k, all), NEW c \in Chars,
           Top(t).state \in {"object_field_start", "field_start_after_sep"}, GoodLevel(Top(t))
    PROVE  InStep(FieldStart(t, c), FieldStart(x, c), k, all) /\ Fresh(t, FieldStart(t, c))
<1>0. PICK F : F = Needed(Top(t).state, all)
  OBVIOUS
<1>a. Kin(t, x, k, F) /\ Top(x) = Top(t) /\ x.strict = t.strict
  BY <1>0, KinTops DEF InStep
<1>1. CASE c = "}" /\ StrayComma(t, "field_start_after_sep")
  <2>1. PICK a, b : a = FieldStart(t, c) /\ b = FieldStart(x, c)
    OBVIOUS
  <2>2. a = Fail(t, "unexpected")
    BY <1>1, <2>1 DEF FieldStart, CloseBracket, StrayComma
  <2>3. c = "}" /\ StrayComma(x, "field_start_after_sep")
    BY <1>1, <1>a DEF StrayComma
  <2>4. b = Fail(x, "unexpected")
    BY <2>3, <2>1, <1>a DEF FieldStart, CloseBracket
  <2>5. Kin(a, b, k, F) /\ Top(a) = Top(t)
    BY <1>a, <2>2, <2>4, KinFail
  <2>6. Needed(Top(a).state, all) \subseteq F
    BY <1>0, <2>5, <2>2 DEF Needed, Buffered, Counting, InString, InEscape, AddStates, GoodLevel,
       AfterBlanks, Blank, Within
  <2>7. Fresh(t, a)
    BY <2>5, <2>2 DEF Fresh, GoodLevel, AfterBlanks, Blank, Within, InString, InEscape
  <2> QED
    BY <2>1, <2>5, <2>6, <2>7, KinWeakens
<1>2. CASE c = "}" /\ ~StrayComma(t, "field_start_after_sep")
  <2>1. PICK y1, z1 : y1 = Expect(t, "finish") /\ z1 = Expect(x, "finish")
    OBVIOUS
  <2>2. Kin(y1, z1, k, F) /\ Top(y1).state = "eatws"
    BY <1>a, <2>1, KinExpect
  <2>3. PICK a, b : a = FieldStart(t, c) /\ b = FieldStart(x, c)
    OBVIOUS
  <2>4. a = Advance(y1, c)
    BY <1>2, <2>1, <2>3 DEF FieldStart, CloseBracket, StrayComma
  <2>5. c = "}" /\ ~StrayComma(x, "field_start_after_sep")
    BY <1>2, <1>a DEF StrayComma
  <2>6. b = Advance(z1, c)
    BY <2>5, <2>1, <2>3, <1>a DEF FieldStart, CloseBracket
  <2>7. Kin(a, b, k, F) /\ Top(a) = Top(y1)
    BY <2>2, <2>4, <2>6, KinAdvance
  <2>8. Needed(Top(a).state, all) \subseteq F
    BY <1>0, <2>2, <2>7, <2>4 DEF Needed, Buffered, Counting, InString, InEscape, AddStates, GoodLevel,
       AfterBlanks, Blank, Within
  <2>9. Fresh(t, a)
    BY <2>2, <2>7, <2>4 DEF Fresh, GoodLevel, AfterBlanks, Blank, Within, InString, InEscape
  <2> QED
    BY <2>3, <2>7, <2>8, <2>9, KinWeakens
<1>3. CASE c \in {"\"", "'"}
  <2>1. PICK y1, z1 : y1 = Goto(t, "object_field") /\ z1 = Goto(x, "object_field")
    OBVIOUS
  <2>2. Kin(y1, z1, k, F) /\ Top(y1).state = "object_field"
    BY <1>a, <2>1, KinGoto
  <2>3. PICK y2, z2 : y2 = Quoted(y1, c) /\ z2 = Quoted(z1, c)
    OBVIOUS
  <2>4. Kin(y2, z2, k, F \cup {"pb", "quote"}) /\ Top(y2) = Top(y1)
    BY <2>2, <2>3, KinQuoted
  <2>5. PICK a, b : a = FieldStart(t, c) /\ b = FieldStart(x, c)
    OBVIOUS
  <2>6. a = Advance(y2, c)
    BY <1>3, <2>1, <2>3, <2>5 DEF FieldStart, CloseBracket
  <2>7. b = Advance(z2, c)
    BY <1>3, <2>1, <2>3, <2>5, <1>a DEF FieldStart, CloseBracket
  <2>8. Kin(a, b, k, F \cup {"pb", "quote"}) /\ Top(a) = Top(y2)
    BY <2>4, <2>6, <2>7, KinAdvance
  <2>9. Needed(Top(a).state, all) \subseteq F \cup {"pb", "quote"}
    BY <1>0, <2>2, <2>4, <2>8, <2>6 DEF Needed, Buffered, Counting, InString, InEscape, AddStates,
       GoodLevel, AfterBlanks, Blank, Within
  <2>10. Fresh(t, a)
    BY <2>2, <2>4, <2>8, <2>6 DEF Fresh, GoodLevel, AfterBlanks, Blank, Within, InString, InEscape
  <2> QED
    BY <2>5, <2>8, <2>9, <2>10, KinWeakens
<1>4. CASE c \notin {"}", "\"", "'"}
  <2>1. PICK a, b : a = FieldStart(t, c) /\ b = FieldStart(x, c)
    OBVIOUS
  <2>2. a = Fail(t, "key_name")
    BY <1>4, <2>1 DEF FieldStart, CloseBracket
  <2>3. b = Fail(x, "key_name")
    BY <1>4, <2>1, <1>a DEF FieldStart, CloseBracket
  <2>4. Kin(a, b, k, F) /\ Top(a) = Top(t)
    BY <1>a, <2>2, <2>3, KinFail
  <2>5. Needed(Top(a).state, all) \subseteq F
    BY <1>0, <2>4, <2>2 DEF Needed, Buffered, Counting, InString, InEscape, AddStates, GoodLevel,
       AfterBlanks, Blank, Within
  <2>6. Fresh(t, a)
    BY <2>4, <2>2 DEF Fresh, GoodLevel, AfterBlanks, Blank, Within, InString, InEscape
  <2> QED
    BY <2>1, <2>4, <2>5, <2>6, KinWeakens
<1> QED
  BY <1>1, <1>2, <1>3, <1>4

LEMMA FieldEndTwins ==
    ASSUME NEW t, NEW x, NEW k, NEW all, InStep(t, x, k, all), NEW c \in Chars,
           Top(t).state = "object_field_end", GoodLevel(Top(t))
    PROVE  InStep(FieldEnd(t, c), FieldEnd(x, c), k, all) /\ Fresh(t, FieldEnd(t, c))
<1>0. PICK F : F = Needed(Top(t).state, all)
  OBVIOUS
<1>a. Kin(t, x, k, F) /\ Top(x) = Top(t) /\ x.strict = t.strict
  BY <1>0, KinTops DEF InStep
<1>1. CASE c = ":"
  <2>1. PICK y1, z1 : y1 = Expect(t, "object_value") /\ z1 = Expect(x, "object_value")
    OBVIOUS
  <2>2. Kin(y1, z1, k, F) /\ Top(y1).state = "eatws"
    BY <1>a, <2>1, KinExpect
  <2>3. PICK a, b : a = FieldEnd(t, c) /\ b = FieldEnd(x, c)
    OBVIOUS
  <2>4. a = Advance(y1, c)
    BY <1>1, <2>1, <2>3 DEF FieldEnd
  <2>5. b = Advance(z1, c)
    BY <1>1, <2>1, <2>3 DEF FieldEnd
  <2>6. Kin(a, b, k, F) /\ Top(a) = Top(y1)
    BY <2>2, <2>4, <2>5, KinAdvance
  <2>7. Needed(Top(a).state, all) \subseteq F
    BY <1>0, <2>2, <2>6, <2>4 DEF Needed, Buffered, Counting, InString, InEscape, AddStates, GoodLevel,
       AfterBlanks, Blank, Within
  <2>8. Fresh(t, a)
    BY <2>2, <2>6, <2>4 DEF Fresh, GoodLevel, AfterBlanks, Blank, Within, InString, InEscape
  <2> QED
    BY <2>3, <2>6, <2>7, <2>8, KinWeakens
<1>2. CASE c # ":"
  <2>1. PICK a, b : a = FieldEnd(t, c) /\ b = FieldEnd(x, c)
    OBVIOUS
  <2>2. a = Fail(t, "key_sep")
    BY <1>2, <2>1 DEF FieldEnd
  <2>3. b = Fail(x, "key_sep")
    BY <1>2, <2>1 DEF FieldEnd
  <2>4. Kin(a, b, k, F) /\ Top(a) = Top(t)
    BY <1>a, <2>2, <2>3, KinFail
  <2>5. Needed(Top(a).state, all) \subseteq F
    BY <1>0, <2>4, <2>2 DEF Needed, Buffered, Counting, InString, InEscape, AddStates, GoodLevel,
       AfterBlanks, Blank, Within
  <2>6. Fresh(t, a)
    BY <2>4, <2>2 DEF Fresh, GoodLevel, AfterBlanks, Blank, Within, InString, InEscape
  <2> QED
    BY <2>1, <2>4, <2>5, <2>6, KinWeakens
<1> QED
  BY <1>1, <1>2

LEMMA ElementAddTwins ==
    ASSUME NEW t, NEW x, NEW k, NEW all, InStep(t, x, k, all), NEW c \in Chars, Top(t).state = "array_add",
           GoodLevel(Top(t))
    PROVE  InStep(ElementAdd(t), ElementAdd(x), k, all) /\ Fresh(t, ElementAdd(t))
<1>0. PICK F : F = Needed(Top(t).state, all)
  OBVIOUS
<1>a. Kin(t, x, k, F) /\ Top(x) = Top(t) /\ x.strict = t.strict
  BY <1>0, KinTops DEF InStep
<1>b. x.obj = t.obj
  BY <1>0, <1>a DEF Kin, Needed, Buffered, Counting, InString, InEscape, AddStates
<1>1. PICK v1 : v1 = <<"array", Append(Top(t).current[2], t.obj)>>
           /\ v1 = <<"array", Append(Top(x).current[2], x.obj)>>
  BY <1>a, <1>b, KinTops
<1>2. PICK y1, z1 : y1 = Become(t, "array_sep", v1) /\ z1 = Become(x, "array_sep", v1)
  OBVIOUS
<1>3. Kin(y1, z1, k, F) /\ Top(y1).state = "eatws"
  BY <1>a, <1>2, KinBecome
<1>4. PICK a, b : a = ElementAdd(t) /\ b = ElementAdd(x)
  OBVIOUS
<1>5. a = y1
  BY <1>1, <1>2, <1>4 DEF ElementAdd
<1>6. b = z1
  BY <1>1, <1>2, <1>4, <1>a DEF ElementAdd
<1>7. Kin(a, b, k, F)
  BY <1>3, <1>5, <1>6
<1>8. Needed(Top(a).state, all) \subseteq F
  BY <1>0, <1>1, <1>3, <1>7, <1>5 DEF Needed, Buffered, Counting, InString, InEscape, AddStates, GoodLevel,
     AfterBlanks, Blank, Within
<1>9. Fresh(t, a)
  BY <1>1, <1>3, <1>7, <1>5 DEF Fresh, GoodLevel, AfterBlanks, Blank, Within, InString, InEscape
<1> QED
  BY <1>4, <1>7, <1>8, <1>9, KinWeakens

LEMMA ValueAddTwins ==
    ASSUME NEW t, NEW x, NEW k, NEW all, InStep(t, x, k, all), NEW c \in Chars,
           Top(t).state = "object_value_add", GoodLevel(Top(t))
    PROVE  InStep(ValueAdd(t), ValueAdd(x), k, all) /\ Fresh(t, ValueAdd(t))
<1>0. PICK F : F = Needed(Top(t).state, all)
  OBVIOUS
<1>a. Kin(t, x, k, F) /\ Top(x) = Top(t) /\ x.strict = t.strict
  BY <1>0, KinTops DEF InStep
<1>b. x.obj = t.obj
  BY <1>0, <1>a DEF Kin, Needed, Buffered, Counting, InString, InEscape, AddStates
<1>1. PICK v1 : v1 = <<"object", With(Top(t).current[2], Top(t).name, t.obj)>>
           /\ v1 = <<"object", With(Top(x).current[2], Top(x).name, x.obj)>>
  BY <1>a, <1>b, KinTops
<1>2. PICK y1, z1 : y1 = Become(t, "object_sep", v1) /\ z1 = Become(x, "object_sep", v1)
  OBVIOUS
<1>3. Kin(y1, z1, k, F) /\ Top(y1).state = "eatws"
  BY <1>a, <1>2, KinBecome
<1>4. PICK y2, z2 : y2 = Named(y1, "object_sep", <<>>) /\ z2 = Named(z1, "object_sep", <<>>)
  OBVIOUS
<1>5. Kin(y2, z2, k, F) /\ Top(y2).state = "eatws"
  BY <1>3, <1>4, KinNamed
<1>6. PICK a, b : a = ValueAdd(t) /\ b = ValueAdd(x)
  OBVIOUS
<1>7. a = y2
  BY <1>1, <1>2, <1>4, <1>6 DEF ValueAdd
<1>8. b = z2
  BY <1>1, <1>2, <1>4, <1>6, <1>a DEF ValueAdd
<1>9. Kin(a, b, k, F)
  BY <1>5, <1>7, <1>8
<1>10. Needed(Top(a).state, all) \subseteq F
  BY <1>0, <1>1, <1>3, <1>5, <1>9, <1>7 DEF Needed, Buffered, Counting, InString, InEscape, AddStates,
     GoodLevel, AfterBlanks, Blank, Within
<1>11. Fresh(t, a)
  BY <1>1, <1>3, <1>5, <1>9, <1>7 DEF Fresh, GoodLevel, AfterBlanks, Blank, Within, InString, InEscape
<1> QED
  BY <1>6, <1>9, <1>10, <1>11, KinWeakens

LEMMA LetterTwins ==
    ASSUME NEW t, NEW x, NEW k, NEW all, InStep(t, x, k, all), NEW c \in Chars,
           Top(t).state \in {"inf", "null", "boolean"}, GoodLevel(Top(t)), NEW word, NEW v
    PROVE  InStep(Letter(t, c, word, v), Letter(x, c, word, v), k, all) /\ Fresh(t, Letter(t, c, word, v))
<1>0. PICK F : F = Needed(Top(t).state, all)
  OBVIOUS
<1>a. Kin(t, x, k, F) /\ Top(x) = Top(t) /\ x.strict = t.strict
  BY <1>0, KinTops DEF InStep
<1>b. x.pb = t.pb /\ x.pos = t.pos
  BY <1>0, <1>a DEF Kin, Needed, Buffered, Counting, InString, InEscape, AddStates
<1>1. CASE t.pos = Len(word)
  <2>1. PICK y1, z1 : y1 = Collect(t, c) /\ z1 = Collect(x, c)
    OBVIOUS
  <2>2. Kin(y1, z1, k, F) /\ Top(y1) = Top(t)
    BY <1>a, <2>1, KinCollect
  <2>3. PICK y2, z2 : y2 = Become(y1, "finish", v) /\ z2 = Become(z1, "finish", v)
    OBVIOUS
  <2>4. Kin(y2, z2, k, F) /\ Top(y2).state = "eatws"
    BY <2>2, <2>3, KinBecome
  <2>5. PICK a, b : a = Letter(t, c, word, v) /\ b = Letter(x, c, word, v)
    OBVIOUS
  <2>6. a = y2
    BY <1>1, <2>1, <2>3, <2>5 DEF Letter, Make
  <2>7. x.pos = Len(word)
    BY <1>1, <1>a, <1>b
  <2>8. b = z2
    BY <2>7, <2>1, <2>3, <2>5 DEF Letter, Make
  <2>9. Kin(a, b, k, F)
    BY <2>4, <2>6, <2>8
  <2>10. Needed(Top(a).state, all) \subseteq F
    BY <1>0, <2>2, <2>4, <2>9, <2>6 DEF Needed, Buffered, Counting, InString, InEscape, AddStates,
       GoodLevel, AfterBlanks, Blank, Within
  <2>11. Fresh(t, a)
    BY <2>2, <2>4, <2>9, <2>6 DEF Fresh, GoodLevel, AfterBlanks, Blank, Within, InString, InEscape
  <2> QED
    BY <2>5, <2>9, <2>10, <2>11, KinWeakens
<1>2. CASE t.pos # Len(word)
  <2>1. PICK y1, z1 : y1 = Collect(t, c) /\ z1 = Collect(x, c)
    OBVIOUS
  <2>2. Kin(y1, z1, k, F) /\ Top(y1) = Top(t)
    BY <1>a, <2>1, KinCollect
  <2>3. PICK y2, z2 : y2 = Counted(y1, 1) /\ z2 = Counted(z1, 1)
    OBVIOUS
  <2>4. Kin(y2, z2, k, F) /\ Top(y2) = Top(y1)
    BY <2>2, <2>3, KinCounted
  <2>5. PICK a, b : a = Letter(t, c, word, v) /\ b = Letter(x, c, word, v)
    OBVIOUS
  <2>6. a = Advance(y2, c)
    BY <1>2, <2>1, <2>3, <2>5 DEF Letter, Make
  <2>7. x.pos # Len(word)
    BY <1>2, <1>a, <1>b
  <2>8. b = Advance(z2, c)
    BY <2>7, <2>1, <2>3, <2>5 DEF Letter, Make
  <2>9. Kin(a, b, k, F) /\ Top(a) = Top(y2)
    BY <2>4, <2>6, <2>8, KinAdvance
  <2>10. Needed(Top(a).state, all) \subseteq F
    BY <1>0, <2>2, <2>4, <2>9, <2>6 DEF Needed, Buffered, Counting, InString, InEscape, AddStates,
       GoodLevel, AfterBlanks, Blank, Within
  <2>11. Fresh(t, a)
    BY <2>2, <2>4, <2>9, <2>6 DEF Fresh, GoodLevel, AfterBlanks, Blank, Within, InString, InEscape
  <2> QED
    BY <2>5, <2>9, <2>10, <2>11, KinWeakens
<1> QED
  BY <1>1, <1>2

LEMMA CollectedTwins ==
    ASSUME NEW t, NEW x, NEW k, NEW all, InStep(t, x, k, all), NEW c \in Chars, NEW e
    PROVE  InStep(Fail(Collect(t, c), e), Fail(Collect(x, c), e), k, all)
           /\ Fresh(t, Fail(Collect(t, c), e))
<1>0. PICK F : F = Needed(Top(t).state, all)
  OBVIOUS
<1>1. PICK y, z : y = Collect(t, c) /\ z = Collect(x, c)
  OBVIOUS
<1>2. Kin(y, z, k, F) /\ Top(y) = Top(t)
  BY <1>0, <1>1, KinCollect DEF InStep
<1>3. PICK a, b : a = Fail(y, e) /\ b = Fail(z, e)
  OBVIOUS
<1>4. Kin(a, b, k, F) /\ Top(a) = Top(t)
  BY <1>2, <1>3, KinFail
<1>5. Fresh(t, a)
  BY <1>4 DEF Fresh
<1> QED
  BY <1>0, <1>1, <1>3, <1>4, <1>5, KinWeakens

LEMMA FitsAlike ==
    ASSUME NEW t, NEW x, x.pos = t.pos, x.strict = t.strict, NEW word, NEW buf
    PROVE  Fits(x, word, buf) = Fits(t, word, buf)
  BY DEF Fits

LEMMA KeywordTwins ==
    ASSUME NEW t, NEW x, NEW k, NEW all, InStep(t, x, k, all), NEW c \in Chars, GoodLevel(Top(t)),
           Top(t).state \in {"inf", "null", "boolean"}
    PROVE  /\ Top(t).state = "inf" => InStep(Inf(t, c), Inf(x, c), k, all) /\ Fresh(t, Inf(t, c))
           /\ Top(t).state = "null" => InStep(NullOrNaN(t, c), NullOrNaN(x, c), k, all)
                /\ Fresh(t, NullOrNaN(t, c))
           /\ Top(t).state = "boolean" => InStep(Boolean(t, c), Boolean(x, c), k, all)
                /\ Fresh(t, Boolean(t, c))
<1>1. x.pb = t.pb /\ x.pos = t.pos /\ x.strict = t.strict
  BY DEF InStep, Kin, Needed, Buffered, Counting
<1>2. PICK b : b = Append(t.pb, c) /\ b = Append(x.pb, c)
  BY <1>1
<1>3. \A word, buf : Fits(x, word, buf) = Fits(t, word, buf)
  BY <1>1, FitsAlike
<1>4. ASSUME NEW word, NEW v
      PROVE  InStep(Letter(t, c, word, v), Letter(x, c, word, v), k, all) /\ Fresh(t, Letter(t, c, word, v))
  BY LetterTwins
<1>5. ASSUME NEW e
      PROVE  InStep(Fail(Collect(t, c), e), Fail(Collect(x, c), e), k, all)
             /\ Fresh(t, Fail(Collect(t, c), e))
  BY CollectedTwins
<1>6. InStep(Inf(t, c), Inf(x, c), k, all) /\ Fresh(t, Inf(t, c))
  <2>1. PICK v, q, w : /\ v = <<"double", IF b[1] = "-" THEN <<"-", "Inf">> ELSE <<"Inf">>>>
                       /\ q = (IF b[1] = "-" THEN Tail(b) ELSE b) /\ w = <<"I", "y">>
    OBVIOUS
  <2>2. Inf(t, c) = IF Fits(t, w, q) THEN Letter(t, c, w, v) ELSE Fail(Collect(t, c), "unexpected")
    BY <1>2, <2>1 DEF Inf
  <2>3. Inf(x, c) = IF Fits(x, w, q) THEN Letter(x, c, w, v) ELSE Fail(Collect(x, c), "unexpected")
    BY <1>2, <2>1 DEF Inf
  <2>4. Fits(x, w, q) = Fits(t, w, q)
    BY <1>3
  <2>5. CASE Fits(t, w, q)
    BY <1>4, <2>2, <2>3, <2>4, <2>5
  <2>6. CASE ~Fits(t, w, q)
    BY <1>5, <2>2, <2>3, <2>4, <2>6
  <2> QED
    BY <2>5, <2>6
<1>7. InStep(NullOrNaN(t, c), NullOrNaN(x, c), k, all) /\ Fresh(t, NullOrNaN(t, c))
  <2>1. PICK v, w, v2, w2 : v = NullValue /\ w = <<"n", "l">> /\ w2 = <<"N", "a">>
             /\ v2 = <<"double", <<"NaN">>>>
    OBVIOUS
  <2>2. NullOrNaN(t, c) = IF Fits(t, w, b) THEN Letter(t, c, w, v)
                          ELSE IF Fits(t, w2, b) THEN Letter(t, c, w2, v2) ELSE Fail(Collect(t, c), "null")
    BY <1>2, <2>1 DEF NullOrNaN
  <2>3. NullOrNaN(x, c) = IF Fits(x, w, b) THEN Letter(x, c, w, v)
                          ELSE IF Fits(x, w2, b) THEN Letter(x, c, w2, v2) ELSE Fail(Collect(x, c), "null")
    BY <1>2, <2>1 DEF NullOrNaN
  <2>4. Fits(x, w, b) = Fits(t, w, b) /\ Fits(x, w2, b) = Fits(t, w2, b)
    BY <1>3
  <2>5. CASE Fits(t, w, b)
    BY <1>4, <2>2, <2>3, <2>4, <2>5
  <2>6. CASE ~Fits(t, w, b) /\ Fits(t, w2, b)
    BY <1>4, <2>2, <2>3, <2>4, <2>6
  <2>7. CASE ~Fits(t, w, b) /\ ~Fits(t, w2, b)
    BY <1>5, <2>2, <2>3, <2>4, <2>7
  <2> QED
    BY <2>5, <2>6, <2>7
<1>8. InStep(Boolean(t, c), Boolean(x, c), k, all) /\ Fresh(t, Boolean(t, c))
  <2>1. PICK v, w, v2, w2 : /\ v = <<"boolean", <<"true">>>> /\ w = <<"t", "e">>
                            /\ v2 = <<"boolean", <<"false">>>> /\ w2 = <<"f", "e">>
    OBVIOUS
  <2>2. Boolean(t, c) = IF Fits(t, w, b) THEN Letter(t, c, w, v)
                        ELSE IF Fits(t, w2, b) THEN Letter(t, c, w2, v2) ELSE Fail(Collect(t, c), "boolean")
    BY <1>2, <2>1 DEF Boolean
  <2>3. Boolean(x, c) = IF Fits(x, w, b) THEN Letter(x, c, w, v)
                        ELSE IF Fits(x, w2, b) THEN Letter(x, c, w2, v2) ELSE Fail(Collect(x, c), "boolean")
    BY <1>2, <2>1 DEF Boolean
  <2>4. Fits(x, w, b) = Fits(t, w, b) /\ Fits(x, w2, b) = Fits(t, w2, b)
    BY <1>3
  <2>5. CASE Fits(t, w, b)
    BY <1>4, <2>2, <2>3, <2>4, <2>5
  <2>6. CASE ~Fits(t, w, b) /\ Fits(t, w2, b)
    BY <1>4, <2>2, <2>3, <2>4, <2>6
  <2>7. CASE ~Fits(t, w, b) /\ ~Fits(t, w2, b)
    BY <1>5, <2>2, <2>3, <2>4, <2>7
  <2> QED
    BY <2>5, <2>6, <2>7
<1> QED
  BY <1>6, <1>7, <1>8

LEMMA FinishTwins ==
    ASSUME NEW t, NEW x, NEW k, NEW all, InStep(t, x, k, all), Stack(t.level, t.depth)
    PROVE  InStep(Finish(t), Finish(x), k, all) /\ Fresh(t, Finish(t))
<1>0. PICK F : F = Needed(Top(t).state, all)
  OBVIOUS
<1>1. Kin(t, x, k, F) /\ x.depth = t.depth /\ IsTok(t) /\ IsTok(x) /\ Top(x) = Top(t) /\ x.level = t.level
  BY <1>0, KinTops DEF InStep
<1>2. PICK a, b : a = Finish(t) /\ b = Finish(x)
  OBVIOUS
<1>3. CASE t.depth = 0
  <2>1. a = Leave(t) /\ b = Leave(x)
    BY <1>1, <1>2, <1>3 DEF Finish
  <2>2. Kin(a, b, k, F) /\ Top(a) = Top(t)
    BY <1>1, <2>1, KinLeave
  <2>3. Fresh(t, a)
    BY <2>2 DEF Fresh
  <2> QED
    BY <1>0, <1>2, <2>2, <2>3, KinWeakens
<1>4. CASE t.depth # 0
  <2>1. a = Shallower(t) /\ b = Shallower(x)
    BY <1>1, <1>2, <1>4 DEF Finish
  <2>2. PICK lv, n, v : lv = LevelWith(t.level, t.depth, Empty) /\ n = t.depth - 1 /\ v = Top(t).current
    OBVIOUS
  <2>3. Has(a, lv, n, t.err, t.pb, t.pos, t.quote, t.strict, t.offset, t.hi, t.caseLen, v, t.out)
    BY <1>1, <1>4, <2>1, <2>2, ShallowerFields
  <2>4. Has(b, lv, n, x.err, x.pb, x.pos, x.quote, x.strict, x.offset, x.hi, x.caseLen, v, x.out)
    <3>1. Has(b, LevelWith(x.level, x.depth, Empty), x.depth - 1, x.err, x.pb, x.pos, x.quote,
               x.strict, x.offset, x.hi, x.caseLen, Top(x).current, x.out)
      BY <1>1, <1>4, <2>1, ShallowerFields
    <3> QED
      BY <1>1, <2>2, <3>1
  <2>5. Kin(a, b, k, F \cup {"obj"})
    BY <1>1, <2>3, <2>4 DEF Kin, Has
  <2>6. t.depth \in Nat /\ MaxDepth \in Nat /\ t.depth < MaxDepth /\ t.depth > 0
    BY <1>1, <1>4, TokenerAssumption DEF IsTok
  <2>7. \A d \in 0 .. MaxDepth : d # t.depth => lv[d] = t.level[d]
    <3>1. t.depth \in 0 .. MaxDepth /\ Levels(t.level) /\ IsLevel(Empty)
      BY <1>1, EmptyLevel, TopLevelFacts
    <3> QED
      BY <2>2, <3>1, LevelWithFacts
  <2>8. n \in 0 .. MaxDepth /\ n # t.depth /\ n < t.depth
    BY <2>2, <2>6
  <2>9. Top(a) = lv[n] /\ lv[n].state \in AddStates
    BY <2>3, <2>7, <2>8 DEF Has, Top, Stack
  <2>10. Needed(Top(a).state, all) \subseteq F \cup {"obj"}
    BY <1>0, <2>9 DEF Needed, Buffered, Counting, InString, InEscape, AddStates
  <2>11. Fresh(t, a)
    BY <2>9 DEF Fresh, AddStates
  <2> QED
    BY <1>2, <2>5, <2>10, <2>11, KinWeakens
<1> QED
  BY <1>3, <1>4

\* Both see the same of what follows.
Alike(t, str, x, str2) ==
    /\ Ahead(t, str) <=> Ahead(x, str2)
    /\ t.offset + 3 = Len(str) <=> x.offset + 3 = Len(str2)

LEMMA BackTwins ==
    ASSUME NEW y, NEW z, NEW k, NEW all, NEW F, Kin(y, z, k, F), F = Needed("escape_unicode", all),
           NEW sv \in InString, NEW d \in Chars, NEW c
    PROVE  /\ InStep(Advance(Collect(Goto(y, sv), d), c), Advance(Collect(Goto(z, sv), d), c), k, all)
           /\ Top(Advance(Collect(Goto(y, sv), d), c)).state # "number"
<1>1. PICK y1, z1 : y1 = Goto(y, sv) /\ z1 = Goto(z, sv)
  OBVIOUS
<1>2. Kin(y1, z1, k, F) /\ Top(y1).state = sv
  BY <1>1, KinGoto
<1>3. PICK y2, z2 : y2 = Collect(y1, d) /\ z2 = Collect(z1, d)
  OBVIOUS
<1>4. Kin(y2, z2, k, F) /\ Top(y2) = Top(y1)
  BY <1>2, <1>3, KinCollect
<1>5. PICK a, b : a = Advance(y2, c) /\ b = Advance(z2, c)
  OBVIOUS
<1>6. Kin(a, b, k, F) /\ Top(a) = Top(y2)
  BY <1>4, <1>5, KinAdvance
<1>7. Needed(Top(a).state, all) \subseteq F /\ Top(a).state # "number"
  BY <1>2, <1>4, <1>6 DEF Needed, Buffered, Counting, InString, InEscape, AddStates
<1> QED
  BY <1>1, <1>3, <1>5, <1>6, <1>7, KinWeakens

LEMMA FirstHalfTwins ==
    ASSUME NEW y, NEW z, NEW k, NEW all, NEW F, Kin(y, z, k, F), F = Needed("escape_unicode", all),
           GoodLevel(Top(y)), Top(y).state = "escape_unicode", NEW str, NEW str2, Alike(y, str, z, str2)
    PROVE  /\ InStep(FirstHalf(y, str), FirstHalf(z, str2), k, all)
           /\ Top(FirstHalf(y, str)).state # "number"
<1>0. "rep" \in Chars /\ Top(z) = Top(y)
  BY KinTops DEF Chars
<1>1. PICK a, b : a = FirstHalf(y, str) /\ b = FirstHalf(z, str2)
  OBVIOUS
<1>2. CASE ~Ahead(y, str)
  <2>1. PICK sv \in InString : sv = Top(y).saved /\ sv = Top(z).saved
    BY <1>0 DEF GoodLevel, InEscape
  <2>2. a = Advance(Collect(Goto(y, sv), "rep"), "hi") /\ b = Advance(Collect(Goto(z, sv), "rep"), "hi")
    BY <1>1, <1>2, <2>1 DEF FirstHalf, Alike
  <2> QED
    BY <1>0, <1>1, <2>2, BackTwins
<1>3. CASE Ahead(y, str) /\ y.offset + 3 = Len(str)
  <2>1. PICK y1, z1 : y1 = Collect(y, "rep") /\ z1 = Collect(z, "rep")
    OBVIOUS
  <2>2. Kin(y1, z1, k, F) /\ Top(y1) = Top(y)
    BY <1>0, <2>1, KinCollect
  <2>3. a = Truncated(y1) /\ b = Truncated(z1)
    BY <1>1, <1>3, <2>1 DEF FirstHalf, Alike
  <2>4. Kin(a, b, k, F) /\ Top(a) = Top(y)
    BY <2>2, <2>3, KinTruncated
  <2> QED
    BY <1>1, <2>4, KinWeakens
<1>4. CASE Ahead(y, str) /\ y.offset + 3 # Len(str)
  <2>1. a = SecondHalf(y) /\ b = SecondHalf(z)
    BY <1>1, <1>4 DEF FirstHalf, Alike
  <2>2. Kin(a, b, k, F \cup {"pos"}) /\ Top(a) = Top(y)
    BY <2>1, KinSecondHalf
  <2> QED
    BY <1>1, <2>2, KinWeakens
<1> QED
  BY <1>2, <1>3, <1>4

LEMMA EscapeUnicodeTwins ==
    ASSUME NEW t, NEW x, NEW k, NEW all, InStep(t, x, k, all), GoodLevel(Top(t)),
           Top(t).state = "escape_unicode",
           NEW c, NEW str, NEW str2, Alike(t, str, x, str2)
    PROVE  /\ InStep(EscapeUnicode(t, c, str), EscapeUnicode(x, c, str2), k, all)
           /\ Fresh(t, EscapeUnicode(t, c, str))
<1>0. PICK F : F = Needed(Top(t).state, all) /\ F = Needed("escape_unicode", all)
  OBVIOUS
<1>1. /\ Kin(t, x, k, F) /\ Top(x) = Top(t) /\ IsTok(t) /\ IsTok(x) /\ (x.hi <=> t.hi)
      /\ x.pos = t.pos /\ "rep" \in Chars /\ "pair" \in Chars /\ "ctl" \in Chars
  BY <1>0, KinTops DEF InStep, Kin, Needed, Counting, Chars
<1>2. PICK sv \in InString : sv = Top(t).saved /\ sv = Top(x).saved
  BY <1>1 DEF GoodLevel, InEscape
<1>3. PICK a, b : a = EscapeUnicode(t, c, str) /\ b = EscapeUnicode(x, c, str2)
  OBVIOUS
<1>4. PICK y1, z1 : y1 = Counted(t, 4) /\ z1 = Counted(x, 4)
  OBVIOUS
<1>5. Kin(y1, z1, k, F) /\ Top(y1) = Top(t)
  BY <1>1, <1>4, KinCounted
<1>6. PICK y2, z2 : y2 = Alone(y1) /\ z2 = Alone(z1)
  OBVIOUS
<1>7. Kin(y2, z2, k, F) /\ Top(y2) = Top(t)
  BY <1>5, <1>6, KinAlone
<1>8. PICK y3, z3 : /\ y3 = IF t.hi THEN Collect(y2, "rep") ELSE y2
                    /\ z3 = IF x.hi THEN Collect(z2, "rep") ELSE z2
  OBVIOUS
<1>9. Kin(y3, z3, k, F) /\ Top(y3) = Top(t)
  BY <1>1, <1>7, <1>8, KinCollect
<1>10. z2.pos = y2.pos
  BY <1>0, <1>7 DEF Kin, Needed, Counting
<1>11. y3.offset = t.offset /\ z3.offset = x.offset
  <2>1. y1.offset = t.offset /\ z1.offset = x.offset /\ IsTok(y1) /\ IsTok(z1)
    BY <1>1, <1>4, CountedFields DEF Has
  <2>2. y2.offset = t.offset /\ z2.offset = x.offset /\ IsTok(y2) /\ IsTok(z2)
    BY <1>6, <2>1, AloneFields DEF Has
  <2> QED
    BY <1>1, <1>8, <2>2, CollectFields DEF Has
<1>12. CASE c = Nul
  <2>1. PICK y4, z4 : y4 = Counted(t, 1) /\ z4 = Counted(x, 1)
    OBVIOUS
  <2>2. Kin(y4, z4, k, F) /\ Top(y4) = Top(t)
    BY <1>1, <2>1, KinCounted
  <2>3. a = Advance(y4, c) /\ b = Advance(z4, c)
    BY <1>3, <1>12, <2>1 DEF EscapeUnicode, HexGroups, Nul
  <2>4. Kin(a, b, k, F) /\ Top(a) = Top(t)
    BY <2>2, <2>3, KinAdvance
  <2>5. Fresh(t, a)
    BY <2>4 DEF Fresh
  <2> QED
    BY <1>0, <1>3, <2>4, <2>5, KinWeakens
<1>13. CASE c \in HexGroups /\ y2.pos # 4
  <2>1. a = Advance(y2, c)
    BY <1>3, <1>4, <1>6, <1>13 DEF EscapeUnicode, HexGroups, Nul
  <2>2. z2.pos # 4
    BY <1>10, <1>13
  <2>3. b = Advance(z2, c)
    BY <1>3, <1>4, <1>6, <1>13, <2>2 DEF EscapeUnicode, HexGroups, Nul
  <2>4. Kin(a, b, k, F) /\ Top(a) = Top(t)
    BY <1>7, <2>1, <2>3, KinAdvance
  <2>5. Fresh(t, a)
    BY <2>4 DEF Fresh
  <2> QED
    BY <1>0, <1>3, <2>4, <2>5, KinWeakens
<1>14. CASE c = "lo" /\ y2.pos = 4
  <2>1. PICK d \in Chars : d = IF t.hi THEN "pair" ELSE "rep"
    BY <1>1
  <2>2. d = IF x.hi THEN "pair" ELSE "rep"
    BY <1>1, <2>1
  <2>3. a = Advance(Collect(Goto(y2, sv), d), c)
    BY <1>2, <1>3, <1>4, <1>6, <1>14, <2>1 DEF EscapeUnicode, HexGroups, Nul
  <2>4. z2.pos = 4
    BY <1>10, <1>14
  <2>5. b = Advance(Collect(Goto(z2, sv), d), c)
    BY <1>2, <1>3, <1>4, <1>6, <1>14, <2>2, <2>4 DEF EscapeUnicode, HexGroups, Nul
  <2>6. InStep(a, b, k, all) /\ Top(a).state # "number"
    BY <1>0, <1>7, <2>3, <2>5, BackTwins
  <2> QED
    BY <1>3, <2>6 DEF Fresh
<1>15. CASE c = "hx" /\ y2.pos = 4
  <2>1. a = Advance(Collect(Goto(y3, sv), "ctl"), c)
    BY <1>2, <1>3, <1>4, <1>6, <1>8, <1>15 DEF EscapeUnicode, HexGroups, Nul
  <2>2. z2.pos = 4
    BY <1>10, <1>15
  <2>3. b = Advance(Collect(Goto(z3, sv), "ctl"), c)
    BY <1>2, <1>3, <1>4, <1>6, <1>8, <1>15, <2>2 DEF EscapeUnicode, HexGroups, Nul
  <2>4. InStep(a, b, k, all) /\ Top(a).state # "number"
    BY <1>0, <1>1, <1>9, <2>1, <2>3, BackTwins
  <2> QED
    BY <1>3, <2>4 DEF Fresh
<1>16. CASE c = "hi" /\ y2.pos = 4
  <2>1. a = FirstHalf(y3, str)
    BY <1>2, <1>3, <1>4, <1>6, <1>8, <1>16 DEF EscapeUnicode, HexGroups, Nul
  <2>2. z2.pos = 4
    BY <1>10, <1>16
  <2>3. b = FirstHalf(z3, str2)
    BY <1>2, <1>3, <1>4, <1>6, <1>8, <1>16, <2>2 DEF EscapeUnicode, HexGroups, Nul
  <2>4. Alike(y3, str, z3, str2)
    BY <1>11 DEF Alike, Ahead
  <2>5. GoodLevel(Top(y3)) /\ Top(y3).state = "escape_unicode"
    BY <1>9
  <2>6. InStep(a, b, k, all) /\ Top(a).state # "number"
    BY <1>0, <1>9, <2>1, <2>3, <2>4, <2>5, FirstHalfTwins
  <2> QED
    BY <1>3, <2>6 DEF Fresh
<1>17. CASE c \notin HexGroups \cup {Nul}
  <2>1. a = Fail(t, "string") /\ b = Fail(x, "string")
    BY <1>3, <1>17 DEF EscapeUnicode, HexGroups
  <2>2. Kin(a, b, k, F) /\ Top(a) = Top(t)
    BY <1>1, <2>1, KinFail
  <2>3. Fresh(t, a)
    BY <2>2 DEF Fresh
  <2> QED
    BY <1>0, <1>3, <2>2, <2>3, KinWeakens
<1> QED
  BY <1>12, <1>13, <1>14, <1>15, <1>16, <1>17 DEF HexGroups

-----------------------------------------------------------------------------
(* A pass of both, and numbers and signs across a cut.                      *)

\* What the tokeners must agree on where a number may turn out to be -Infinity.
SameSign(t, x, c, all) ==
    c \in {"i", "I"} /\ Head(t.pb) = "-" =>
        (t.caseLen = 1 <=> x.caseLen = 1) /\ (t.caseLen = 1 => all)

LEMMA PassTwins ==
    ASSUME NEW str, NEW t, Ready(t, str), NEW x, NEW k, NEW all, InStep(t, x, k, all), NEW str2,
           NEW c, c = str[t.offset + 1], Alike(t, str, x, str2),
           Top(t).state = "number" => SameSign(t, x, c, all)
    PROVE  InStep(Pass(t, c, str), Pass(x, c, str2), k, all) /\ Fresh(t, Pass(t, c, str))
<1>0. GoodLevel(Top(t)) /\ Top(t).state \in States /\ QuoteKnown(t) /\ Stack(t.level, t.depth)
          /\ Top(x) = Top(t)
  BY NearItself, KinTops DEF Near, GoodLevel, InStep
<1>1. c \in Chars
  <2>1. str \in Seq(STRING) /\ t.offset + 1 \in 1 .. Len(str)
    BY DEF Ready, Sane, IsTok
  <2>2. c \in STRING
    BY <2>1
  <2> QED
    BY <2>2 DEF Chars
<1>2. PICK s : s = Top(t).state
  OBVIOUS
<1>3. CASE s = "eatws"
  BY <1>0, <1>1, <1>2, <1>3, EatWsTwins DEF Pass
<1>4. CASE s = "start"
  BY <1>0, <1>1, <1>2, <1>4, StartTwins DEF Pass
<1>5. CASE s = "finish"
  BY <1>0, <1>1, <1>2, <1>5, FinishTwins DEF Pass
<1>6. CASE s = "inf"
  BY <1>0, <1>1, <1>2, <1>6, KeywordTwins DEF Pass
<1>7. CASE s = "null"
  BY <1>0, <1>1, <1>2, <1>7, KeywordTwins DEF Pass
<1>8. CASE s = "boolean"
  BY <1>0, <1>1, <1>2, <1>8, KeywordTwins DEF Pass
<1>9. CASE s = "number"
  <2>1. /\ c \in {"i", "I"} /\ Head(t.pb) = "-" => (t.caseLen = 1 <=> x.caseLen = 1)
        /\ c \in {"i", "I"} /\ Head(t.pb) = "-" /\ t.caseLen = 1 => all
    BY <1>2, <1>9 DEF SameSign
  <2>2. InStep(Number(t, c), Number(x, c), k, all) /\ Fresh(t, Number(t, c))
    BY <1>0, <1>1, <1>2, <1>9, <2>1, NumberTwins
  <2> QED
    BY <1>0, <1>2, <1>9, <2>2 DEF Pass
<1>10. CASE s = "comment_start"
  BY <1>0, <1>1, <1>2, <1>10, CommentStartTwins DEF Pass
<1>11. CASE s = "comment"
  BY <1>0, <1>1, <1>2, <1>11, CommentTwins DEF Pass
<1>12. CASE s = "comment_eol"
  BY <1>0, <1>1, <1>2, <1>12, CommentEolTwins DEF Pass
<1>13. CASE s = "comment_end"
  BY <1>0, <1>1, <1>2, <1>13, CommentEndTwins DEF Pass
<1>14. CASE s = "string"
  BY <1>0, <1>1, <1>2, <1>14, StringTwins DEF Pass, InString
<1>15. CASE s = "object_field"
  BY <1>0, <1>1, <1>2, <1>15, StringTwins DEF Pass, InString
<1>16. CASE s = "string_escape"
  BY <1>0, <1>1, <1>2, <1>16, StringEscapeTwins DEF Pass
<1>17. CASE s = "escape_unicode"
  BY <1>0, <1>2, <1>17, EscapeUnicodeTwins DEF Pass
<1>18. CASE s \in {"array", "array_after_sep"}
  BY <1>0, <1>1, <1>2, <1>18, ArrayTwins DEF Pass
<1>19. CASE s = "array_add"
  BY <1>0, <1>1, <1>2, <1>19, ElementAddTwins DEF Pass
<1>20. CASE s = "array_sep"
  BY <1>0, <1>1, <1>2, <1>20, ArraySepTwins DEF Pass
<1>21. CASE s \in {"object_field_start", "field_start_after_sep"}
  BY <1>0, <1>1, <1>2, <1>21, FieldStartTwins DEF Pass
<1>22. CASE s = "object_field_end"
  BY <1>0, <1>1, <1>2, <1>22, FieldEndTwins DEF Pass
<1>23. CASE s = "object_value"
  <2>1. Pass(t, c, str) = Push(t, "object_value_add") /\ Pass(x, c, str2) = Push(x, "object_value_add")
    BY <1>0, <1>2, <1>23 DEF Pass
  <2>2. PICK a \in AddStates : a = "object_value_add"
    BY DEF AddStates
  <2>3. InStep(Push(t, a), Push(x, a), k, all) /\ Fresh(t, Push(t, a))
    BY PushTwins
  <2> QED
    BY <2>1, <2>2, <2>3
<1>24. CASE s = "object_value_add"
  BY <1>0, <1>1, <1>2, <1>24, ValueAddTwins DEF Pass
<1>25. CASE s = "object_sep"
  BY <1>0, <1>1, <1>2, <1>25, ObjectSepTwins DEF Pass
<1> QED
  BY <1>0, <1>2, <1>3, <1>4, <1>5, <1>6, <1>7, <1>8, <1>9, <1>10, <1>11, <1>12, <1>13, <1>14, <1>15,
     <1>16, <1>17, <1>18, <1>19, <1>20, <1>21, <1>22, <1>23, <1>24, <1>25
  DEF States, AfterBlanks, AddStates, Blank, Within, InString, InEscape

\* What is looked at beyond a first half is the only use of the rest of the text.
LEMMA FirstHalfSame ==
    ASSUME NEW y, NEW s1, NEW s2, Ahead(y, s1) <=> Ahead(y, s2),
           Ahead(y, s1) => (y.offset + 3 = Len(s1) <=> y.offset + 3 = Len(s2))
    PROVE  FirstHalf(y, s1) = FirstHalf(y, s2)
  BY DEF FirstHalf

LEMMA PassSame ==
    ASSUME NEW t, IsTok(t), Top(t).state \in States, NEW s1, NEW s2, NEW c,
           c = "hi" => /\ Ahead(t, s1) <=> Ahead(t, s2)
                       /\ Ahead(t, s1) => (t.offset + 3 = Len(s1) <=> t.offset + 3 = Len(s2))
    PROVE  Pass(t, c, s1) = Pass(t, c, s2)
<1>1. EscapeUnicode(t, c, s1) = EscapeUnicode(t, c, s2)
  <2>1. PICK y1, y2, y3 : /\ y1 = Counted(t, 4) /\ y2 = Alone(y1)
                          /\ y3 = IF t.hi THEN Collect(y2, "rep") ELSE y2
    OBVIOUS
  <2>2. y3.offset = t.offset
    <3>1. y1.offset = t.offset /\ IsTok(y1)
      BY <2>1, CountedFields DEF Has
    <3>2. y2.offset = t.offset /\ IsTok(y2) /\ "rep" \in Chars
      BY <2>1, <3>1, AloneFields DEF Has, Chars
    <3> QED
      BY <2>1, <3>2, CollectFields DEF Has
  <2>3. CASE c = Nul
    BY <2>3 DEF EscapeUnicode, HexGroups, Nul
  <2>4. CASE c \in HexGroups /\ y2.pos # 4
    BY <2>1, <2>4 DEF EscapeUnicode, HexGroups, Nul
  <2>5. CASE c = "lo" /\ y2.pos = 4
    BY <2>1, <2>5 DEF EscapeUnicode, HexGroups, Nul
  <2>6. CASE c = "hx" /\ y2.pos = 4
    BY <2>1, <2>6 DEF EscapeUnicode, HexGroups, Nul
  <2>7. CASE c = "hi" /\ y2.pos = 4
    <3>1. EscapeUnicode(t, c, s1) = FirstHalf(y3, s1) /\ EscapeUnicode(t, c, s2) = FirstHalf(y3, s2)
      BY <2>1, <2>7 DEF EscapeUnicode, HexGroups, Nul
    <3>2. Ahead(y3, s1) <=> Ahead(y3, s2)
      BY <2>2, <2>7 DEF Ahead
    <3>3. Ahead(y3, s1) => (y3.offset + 3 = Len(s1) <=> y3.offset + 3 = Len(s2))
      BY <2>2, <2>7 DEF Ahead
    <3> QED
      BY <3>1, <3>2, <3>3, FirstHalfSame
  <2>8. CASE c \notin HexGroups \cup {Nul}
    BY <2>8 DEF EscapeUnicode, HexGroups
  <2> QED
    BY <2>3, <2>4, <2>5, <2>6, <2>7, <2>8 DEF HexGroups
<1>2. PICK e : e = EscapeUnicode(t, c, s1) /\ e = EscapeUnicode(t, c, s2)
  BY <1>1
<1> QED
  BY <1>2 DEF Pass

\* What is known of a number that the two tokeners are in: x has counted its
\* characters, and t those of its own piece if it began before.
Numerals(t, x, w) ==
    Top(x).state = "number" =>
        /\ x.caseLen = Len(x.pb) /\ x.caseLen <= x.offset
        /\ \A i \in 1 .. x.caseLen : x.pb[i] \in NumberChars /\ w[x.offset - x.caseLen + i] = x.pb[i]
        /\ x.caseLen = 0 => x.offset < Len(w) /\ w[x.offset + 1] \in NumberChars
        /\ t.caseLen = x.caseLen \/ (t.caseLen = t.offset /\ t.offset < x.caseLen)

LEMMA KinSelf ==
    ASSUME NEW t, IsTok(t)
    PROVE  Kin(t, t, 0, {})
  BY DEF Kin, IsTok

LEMMA NumberFromStart ==
    ASSUME NEW t, IsTok(t), Top(t).state = "start", NEW c \in Chars, Top(Start(t, c)).state = "number"
    PROVE  c \in {"0", "1", "-"} /\ Start(t, c) = Numeral(Goto(t, "number"))
<1>1. Kin(t, t, 0, {})
  BY KinSelf
<1>2. PICK F : F = {}
  OBVIOUS
<1>3. \A s : Kin(Goto(t, s), Goto(t, s), 0, F) /\ Top(Goto(t, s)).state = s
  BY <1>1, <1>2, KinGoto
<1>4. \A s, v : Kin(Become(t, s, v), Become(t, s, v), 0, F) /\ Top(Become(t, s, v)).state = "eatws"
  BY <1>1, <1>2, KinBecome
<1>5. ASSUME NEW y, Kin(y, y, 0, F)
      PROVE  Top(Advance(y, c)) = Top(y) /\ Top(Keyword(y)) = Top(y) /\ Top(Quoted(y, c)) = Top(y)
             /\ Kin(Quoted(y, c), Quoted(y, c), 0, F \cup {"pb", "quote"})
                  /\ Top(Fail(y, "unexpected")) = Top(y)
  BY <1>5, KinAdvance, KinKeyword, KinQuoted, KinFail
<1>6. CASE c = "{"
  <2>1. Start(t, c) = Advance(Become(t, "object_field_start", <<"object", <<>>>>), c)
    BY <1>6 DEF Start
  <2> QED
    BY <1>4, <1>5, <2>1
<1>7. CASE c = "["
  <2>1. Start(t, c) = Advance(Become(t, "array", <<"array", <<>>>>), c)
    BY <1>7 DEF Start
  <2> QED
    BY <1>4, <1>5, <2>1
<1>8. CASE c \in {"i", "I"}
  <2>1. Start(t, c) = Keyword(Goto(t, "inf"))
    BY <1>8 DEF Start
  <2> QED
    BY <1>3, <1>5, <2>1
<1>9. CASE c \in {"n", "N"}
  <2>1. Start(t, c) = Keyword(Goto(t, "null"))
    BY <1>9 DEF Start
  <2> QED
    BY <1>3, <1>5, <2>1
<1>10. CASE c \in {"t", "f"}
  <2>1. Start(t, c) = Keyword(Goto(t, "boolean"))
    BY <1>10 DEF Start
  <2> QED
    BY <1>3, <1>5, <2>1
<1>11. CASE c = "\"" \/ (c = "'" /\ ~t.strict)
  <2>1. PICK y : y = Quoted(Goto(t, "string"), c)
    OBVIOUS
  <2>2. Start(t, c) = Advance(y, c)
    BY <1>11, <2>1 DEF Start
  <2>3. Kin(y, y, 0, F \cup {"pb", "quote"}) /\ Top(y).state = "string"
    BY <1>3, <1>5, <2>1
  <2>4. Top(Advance(y, c)) = Top(y)
    BY <2>3, KinAdvance
  <2> QED
    BY <2>2, <2>3, <2>4
<1>12. CASE c \in {"0", "1", "-"}
  BY <1>12 DEF Start
<1>13. CASE c \notin {"{", "[", "i", "I", "n", "N", "t", "f", "\"", "0", "1", "-"}
            /\ ~(c = "'" /\ ~t.strict)
  <2>1. Start(t, c) = Fail(t, "unexpected")
    BY <1>13 DEF Start
  <2>2. Top(Fail(t, "unexpected")) = Top(t)
    BY <1>1, <1>2, <1>5
  <2> QED
    BY <2>1, <2>2
<1> QED
  BY <1>6, <1>7, <1>8, <1>9, <1>10, <1>11, <1>12, <1>13

LEMMA NumberStays ==
    ASSUME NEW t, IsTok(t), NEW c, c \notin NumberChars, Top(Number(t, c)).state = "number"
    PROVE  Number(t, c) = Fail(t, "number")
<1>1. Kin(t, t, 0, {})
  BY KinSelf
<1>2. PICK F : F = {}
  OBVIOUS
<1>3. Top(Goto(t, "inf")).state = "inf"
  BY <1>1, <1>2, KinGoto
<1>4. \A v : Top(Become(t, "finish", v)).state = "eatws"
  BY <1>1, <1>2, KinBecome
<1>5. PICK v : v = <<IF IsDouble(t.pb) THEN "double" ELSE "int", t.pb>>
  OBVIOUS
<1>6. \/ Number(t, c) = Goto(t, "inf") \/ Number(t, c) = Become(t, "finish", v)
      \/ Number(t, c) = Fail(t, "number")
  BY <1>5 DEF Number, Make
<1> QED
  BY <1>3, <1>4, <1>6

LEMMA NumeralsKept ==
    ASSUME NEW t, NEW x, NEW k, NEW all, InStep(t, x, k, all), NEW w, Numerals(t, x, w), x.offset < Len(w),
           Len(w) \in Nat,
           NEW c \in Chars, c = w[x.offset + 1], NEW str,
           NEW a, a = Pass(t, c, str), NEW b, b = Pass(x, c, w), InStep(a, b, k, all), Fresh(t, a)
    PROVE  Numerals(a, b, w)
<1> SUFFICES ASSUME Top(b).state = "number" PROVE Numerals(a, b, w)
  BY DEF Numerals
<1>1. /\ IsTok(t) /\ IsTok(x) /\ Top(x) = Top(t) /\ Top(b) = Top(a)
      /\ t.offset \in Nat /\ x.offset \in Nat /\ t.caseLen \in Nat /\ x.caseLen \in Nat
  BY KinTops DEF InStep, IsTok
<1>2. CASE Top(t).state = "start"
  <2>1. a = Start(t, c) /\ b = Start(x, c)
    BY <1>1, <1>2 DEF Pass
  <2>2. PICK y, z : y = Goto(t, "number") /\ z = Goto(x, "number")
    OBVIOUS
  <2>3. c \in {"0", "1", "-"} /\ a = Numeral(y) /\ b = Numeral(z)
    BY <1>1, <1>2, <2>1, <2>2, NumberFromStart
  <2>4. IsTok(y) /\ IsTok(z) /\ y.offset = t.offset /\ z.offset = x.offset
    BY <1>1, <2>2, GotoFields DEF HasTop, Has
  <2>5. a.caseLen = 0 /\ b.caseLen = 0 /\ b.pb = <<>> /\ b.offset = x.offset
    BY <2>3, <2>4, NumeralFields DEF Has
  <2>6. c \in NumberChars
    BY <2>3 DEF NumberChars
  <2> QED
    BY <1>1, <2>5, <2>6 DEF Numerals
<1>3. CASE Top(t).state = "number" /\ c \in NumberChars
  <2>1. a = Advance(Lengthened(Collect(t, c)), c) /\ b = Advance(Lengthened(Collect(x, c)), c)
    BY <1>1, <1>3 DEF Pass, Number
  <2>2. PICK y, z, y2, z2 : y = Collect(t, c) /\ z = Collect(x, c) /\ y2 = Lengthened(y)
             /\ z2 = Lengthened(z)
    OBVIOUS
  <2>3. /\ IsTok(y) /\ IsTok(z) /\ y.offset = t.offset /\ z.offset = x.offset /\ y.caseLen = t.caseLen
        /\ z.caseLen = x.caseLen /\ z.pb = Append(x.pb, c)
    BY <1>1, <2>2, CollectFields DEF Has
  <2>4. /\ IsTok(y2) /\ IsTok(z2) /\ y2.offset = t.offset /\ z2.offset = x.offset
             /\ y2.caseLen = t.caseLen + 1
        /\ z2.caseLen = x.caseLen + 1 /\ z2.pb = Append(x.pb, c)
    BY <2>2, <2>3, LengthenedFields DEF Has
  <2>5. /\ a.offset = t.offset + 1 /\ b.offset = x.offset + 1 /\ a.caseLen = t.caseLen + 1
        /\ b.caseLen = x.caseLen + 1 /\ b.pb = Append(x.pb, c)
    BY <2>1, <2>2, <2>4, AdvanceFields DEF Has
  <2>6. /\ x.caseLen = Len(x.pb) /\ x.caseLen <= x.offset /\ x.pb \in Seq(Chars)
        /\ \A i \in 1 .. x.caseLen : x.pb[i] \in NumberChars /\ w[x.offset - x.caseLen + i] = x.pb[i]
        /\ t.caseLen = x.caseLen \/ (t.caseLen = t.offset /\ t.offset < x.caseLen)
    BY <1>1, <1>3 DEF Numerals, IsTok
  <2>7. Len(b.pb) = x.caseLen + 1 /\ b.pb[x.caseLen + 1] = c /\ \A i \in 1 .. x.caseLen : b.pb[i] = x.pb[i]
    BY <2>5, <2>6
  <2>8. ASSUME NEW i \in 1 .. b.caseLen PROVE b.pb[i] \in NumberChars
               /\ w[b.offset - b.caseLen + i] = b.pb[i]
    <3>1. PICK l \in Nat, o \in Nat : l = x.caseLen /\ o = x.offset
      BY <1>1
    <3>2. i \in 1 .. l + 1 /\ b.offset = o + 1 /\ b.caseLen = l + 1
      BY <2>5, <3>1
    <3>3. PICK j : j = b.offset - b.caseLen + i
      OBVIOUS
    <3>4. j = (o - l) + i
      <4>1. j = (o + 1) - (l + 1) + i
        BY <3>2, <3>3
      <4>2. (o + 1) - (l + 1) + i = (o - l) + i
        <5>1. o \in Int /\ l \in Int /\ i \in Int
          BY <3>1, <3>2
        <5> QED
          BY <5>1
      <4> QED
        BY <4>1, <4>2
    <3>5. CASE i \in 1 .. l
      <4>1. x.pb[i] \in NumberChars /\ w[(o - l) + i] = x.pb[i] /\ b.pb[i] = x.pb[i]
        BY <2>6, <2>7, <3>1, <3>5
      <4> QED
        BY <3>3, <3>4, <4>1
    <3>6. CASE i = l + 1
      <4>1. j = o + 1 /\ w[o + 1] = c /\ b.pb[l + 1] = c
        BY <2>7, <3>1, <3>4, <3>6
      <4> QED
        BY <1>3, <3>3, <3>6, <4>1
    <3> QED
      BY <3>1, <3>2, <3>5, <3>6
  <2>9. a.caseLen = b.caseLen \/ (a.caseLen = a.offset /\ a.offset < b.caseLen)
    BY <1>1, <2>5, <2>6
  <2>10. b.caseLen = Len(b.pb) /\ b.caseLen <= b.offset /\ b.caseLen # 0
    BY <1>1, <2>5, <2>6, <2>7
  <2> QED
    BY <2>8, <2>9, <2>10 DEF Numerals
<1>4. CASE Top(t).state = "number" /\ c \notin NumberChars
  <2>1. a = Number(t, c) /\ b = Number(x, c)
    BY <1>1, <1>4 DEF Pass
  <2>2. a = Fail(t, "number") /\ b = Fail(x, "number")
    BY <1>1, <1>4, <2>1, NumberStays
  <2>3. /\ a.offset = t.offset /\ a.caseLen = t.caseLen
        /\ b.offset = x.offset /\ b.caseLen = x.caseLen /\ b.pb = x.pb
    BY <1>1, <2>2, FailFields DEF Has
  <2> QED
    BY <1>1, <1>4, <2>3 DEF Numerals
<1> QED
  BY <1>1, <1>2, <1>3, <1>4 DEF Fresh

\* Where a text may be cut in two without a trace.
Signed(w, j) == w[j] = "-" /\ w[j + 1] \in {"i", "I"}
Unspoiled(w, k) ==
    /\ k < Len(w) => ~Signed(w, k)
    /\ k + 1 < Len(w) => ~(w[k] \in NumberChars /\ w[k + 1] \in NumberChars /\ w[k + 2] \in {"i", "I"})
    /\ w[k] # "hi"
    /\ k > 1 => ~(w[k - 1] = "hi" /\ w[k] = "\\")
    /\ k > 2 => ~(w[k - 2] = "hi" /\ w[k - 1] = "\\" /\ w[k] = "u")

Seamless(w, k) == k = 0 \/ Unspoiled(w, k)
SignsClear(w, all) == all \/ \A j \in 1 .. Len(w) - 1 : ~Signed(w, j)

LEMMA SignKnown ==
    ASSUME NEW t, NEW x, NEW k, NEW all, InStep(t, x, k, all), NEW w, Numerals(t, x, w), x.offset < Len(w),
           Len(w) \in Nat,
           NEW c, c = w[x.offset + 1], Top(t).state = "number", Seamless(w, k), SignsClear(w, all)
    PROVE  SameSign(t, x, c, all)
<1> SUFFICES ASSUME c \in {"i", "I"}, Head(t.pb) = "-"
             PROVE  (t.caseLen = 1 <=> x.caseLen = 1) /\ (t.caseLen = 1 => all)
  BY DEF SameSign
<1>1. /\ IsTok(t) /\ IsTok(x) /\ Top(x) = Top(t) /\ x.pb = t.pb /\ x.offset = t.offset + k /\ k \in Nat
      /\ t.offset \in Nat /\ x.offset \in Nat /\ t.caseLen \in Nat /\ x.caseLen \in Nat
           /\ x.pb \in Seq(Chars)
  <2>1. IsTok(t) /\ IsTok(x) /\ Top(x) = Top(t)
    BY KinTops DEF InStep
  <2>2. x.pb = t.pb /\ x.offset = t.offset + k /\ k \in Nat
    BY DEF InStep, Kin, Needed, Buffered
  <2>3. /\ t.offset \in Nat /\ x.offset \in Nat /\ t.caseLen \in Nat /\ x.caseLen \in Nat
             /\ x.pb \in Seq(Chars)
    BY <2>1 DEF IsTok
  <2> QED
    BY <2>1, <2>2, <2>3
<1>2. /\ x.caseLen = Len(x.pb) /\ x.caseLen <= x.offset
      /\ \A i \in 1 .. x.caseLen : x.pb[i] \in NumberChars /\ w[x.offset - x.caseLen + i] = x.pb[i]
      /\ x.caseLen = 0 => w[x.offset + 1] \in NumberChars
      /\ t.caseLen = x.caseLen \/ (t.caseLen = t.offset /\ t.offset < x.caseLen)
  BY <1>1 DEF Numerals
<1>3. x.caseLen > 0
  BY <1>1, <1>2 DEF NumberChars
<1>4. x.pb[1] = "-"
  BY <1>1, <1>2, <1>3
<1>5. ASSUME x.caseLen = 1 PROVE x.offset \in 1 .. Len(w) - 1 /\ Signed(w, x.offset)
  <2>1. x.offset >= 1 /\ x.offset - x.caseLen + 1 = x.offset
    BY <1>1, <1>2, <1>5
  <2>2. w[x.offset - x.caseLen + 1] = "-"
    BY <1>2, <1>4, <1>5
  <2> QED
    BY <1>1, <2>1, <2>2 DEF Signed
<1>6. CASE t.caseLen = x.caseLen
  BY <1>5, <1>6 DEF SignsClear
<1>7. CASE t.caseLen = t.offset /\ t.offset < x.caseLen
  <2>1. k > 0 /\ Unspoiled(w, k)
    BY <1>1, <1>2, <1>7 DEF Seamless
  <2>2. x.caseLen # 1
    <3> SUFFICES ASSUME x.caseLen = 1 PROVE FALSE
      OBVIOUS
    <3>1. x.offset = k
      BY <1>1, <1>7
    <3> QED
      BY <1>5, <2>1, <3>1 DEF Unspoiled
  <2>3. t.caseLen # 1
    <3> SUFFICES ASSUME t.caseLen = 1 PROVE FALSE
      OBVIOUS
    <3>1. x.offset = k + 1 /\ x.caseLen >= 2
      BY <1>1, <1>7
    <3>2. PICK l \in Nat, o \in Nat : l = x.caseLen /\ o = x.offset
      BY <1>1
    <3>3. \A i \in 1 .. l : x.pb[i] \in NumberChars /\ w[(o - l) + i] = x.pb[i]
      BY <1>2, <3>2
    <3>4. w[k] \in NumberChars /\ w[k + 1] \in NumberChars
      <4>1. l - 1 \in 1 .. l /\ l \in 1 .. l /\ (o - l) + (l - 1) = k /\ (o - l) + l = k + 1
        <5>1. o = k + 1 /\ l >= 2 /\ k \in Nat
          BY <1>1, <3>1, <3>2
        <5> QED
          BY <5>1, <3>2
      <4>2. PICK i, j : i = l - 1 /\ j = l
        OBVIOUS
      <4>3. i \in 1 .. l /\ j \in 1 .. l /\ (o - l) + i = k /\ (o - l) + j = k + 1
        BY <4>1, <4>2
      <4> QED
        BY <3>3, <4>3
    <3>5. c = w[k + 2] /\ k + 1 < Len(w)
      BY <1>1, <3>1
    <3> QED
      BY <2>1, <3>4, <3>5 DEF Unspoiled
  <2> QED
    BY <2>2, <2>3
<1> QED
  BY <1>2, <1>6, <1>7

LEMMA PairIs ==
    ASSUME NEW s \in Seq(STRING), NEW m \in Nat, m >= 1, m + 1 <= Len(s)
    PROVE  SubSeq(s, m, m + 1) = <<s[m], s[m + 1]>>
<1>1. m \in Int /\ m + 1 \in Int /\ m <= m + 1 /\ \A i \in m .. m + 1 : s[i] \in STRING
  OBVIOUS
<1>2. PICK n : n = m + 1
  OBVIOUS
<1>3. PICK q : q = SubSeq(s, m, n)
  OBVIOUS
<1>4. /\ q \in Seq(STRING) /\ Len(q) = n - m + 1
      /\ \A i \in 1 .. n - m + 1 : q[i] = s[m + i - 1]
  BY <1>1, <1>2, <1>3, SubSeqProperties
<1>5. n - m + 1 = 2 /\ m + 1 - 1 = m /\ m + 2 - 1 = n
  BY <1>2
<1>6. Len(q) = 2 /\ \A i \in 1 .. 2 : q[i] = s[m + i - 1]
  BY <1>4, <1>5
<1>7. q[1] = s[m] /\ q[2] = s[n]
  BY <1>5, <1>6
<1>8. q = <<s[m], s[n]>>
  <2>1. PICK a \in STRING, b \in STRING : a = s[m] /\ b = s[n]
    <3>1. m \in 1 .. Len(s) /\ n \in 1 .. Len(s)
      BY <1>2
    <3>2. s[m] \in STRING /\ s[n] \in STRING
      BY <3>1
    <3> QED
      BY <3>2
  <2>2. q = <<a, b>>
    <3>1. <<a, b>> \in Seq(STRING) /\ Len(<<a, b>>) = 2 /\ \A i \in 1 .. 2 : <<a, b>>[i] = q[i]
      BY <1>7, <2>1
    <3> QED
      BY <1>4, <1>6, <3>1, SeqEqual
  <2> QED
    BY <2>1, <2>2
<1> QED
  BY <1>2, <1>3, <1>8

LEMMA AheadIs ==
    ASSUME NEW t, t.offset \in Nat, NEW s \in Seq(STRING)
    PROVE  Ahead(t, s) <=> t.offset + 3 <= Len(s) /\ s[t.offset + 2] = "\\" /\ s[t.offset + 3] = "u"
<1>1. CASE t.offset + 3 <= Len(s)
  <2>1. PICK m : m = t.offset + 2
    OBVIOUS
  <2>2. m \in Nat /\ m >= 1 /\ m + 1 <= Len(s) /\ m + 1 = t.offset + 3
    BY <1>1, <2>1
  <2>3. SubSeq(s, m, m + 1) = <<s[m], s[m + 1]>>
    BY <2>2, PairIs
  <2>4. SubSeq(s, m, m + 1) = <<"\\", "u">> <=> s[m] = "\\" /\ s[m + 1] = "u"
    BY <2>3
  <2> QED
    BY <1>1, <2>1, <2>2, <2>4 DEF Ahead
<1>2. CASE ~(t.offset + 3 <= Len(s))
  BY <1>2 DEF Ahead
<1> QED
  BY <1>1, <1>2

-----------------------------------------------------------------------------
(* The two loops.                                                           *)

\* w is something of length k and str.
Joined(str, k, w) ==
    /\ str \in Seq(STRING) /\ w \in Seq(STRING) /\ k \in Nat /\ Len(w) = k + Len(str)
    /\ \A i \in 1 .. Len(str) : w[k + i] = str[i]

LEMMA JoinedAlike ==
    ASSUME NEW str, NEW k, NEW w, Joined(str, k, w), NEW t, NEW x, t.offset \in Nat, x.offset = t.offset + k
    PROVE  Alike(t, str, x, w)
<1>1. str \in Seq(STRING) /\ w \in Seq(STRING) /\ k \in Nat /\ Len(str) \in Nat
  BY DEF Joined
<1>2. PICK o \in Nat, m \in Nat, p \in Nat, q \in Nat :
          o = t.offset /\ m = Len(str) /\ p = x.offset /\ q = Len(w) /\ p = o + k /\ q = k + m
  <2>1. t.offset + k \in Nat /\ Len(w) = k + Len(str) /\ Len(w) \in Nat
    BY <1>1 DEF Joined
  <2> QED
    BY <1>1, <2>1
<1>3. Ahead(t, str) <=> o + 3 <= m /\ str[o + 2] = "\\" /\ str[o + 3] = "u"
  BY <1>1, <1>2, AheadIs
<1>4. Ahead(x, w) <=> p + 3 <= q /\ w[p + 2] = "\\" /\ w[p + 3] = "u"
  BY <1>1, <1>2, AheadIs
<1>5. p + 3 <= q <=> o + 3 <= m
  BY <1>1, <1>2
<1>6. ASSUME o + 3 <= m PROVE w[p + 2] = str[o + 2] /\ w[p + 3] = str[o + 3]
  <2>1. PICK i \in Nat, j \in Nat : i = o + 2 /\ j = o + 3
    OBVIOUS
  <2>2. p + 2 = k + i /\ p + 3 = k + j
    <3>1. p = o + k /\ k \in Nat
      BY <1>1, <1>2
    <3>2. p + 2 = k + (o + 2) /\ p + 3 = k + (o + 3)
      BY <3>1
    <3> QED
      BY <2>1, <3>2
  <2>4. i \in 1 .. m /\ j \in 1 .. m
    BY <1>6, <2>1
  <2>3. w[k + i] = str[i] /\ w[k + j] = str[j]
    BY <1>2, <2>4 DEF Joined
  <2> QED
    BY <2>1, <2>2, <2>3
<1>7. Ahead(t, str) <=> Ahead(x, w)
  BY <1>3, <1>4, <1>5, <1>6
<1>8. o + 3 = m <=> p + 3 = q
  BY <1>1, <1>2
<1> QED
  BY <1>2, <1>7, <1>8 DEF Alike

\* The two loops, at the same character.
Abreast(r, q, k, all, w) ==
    /\ InStep(r.tok, q.tok, k, all) /\ Numerals(r.tok, q.tok, w)
    /\ r.tok.offset > 0 \/ r.tok.out => q.c = r.c

LEMMA TurnPairs ==
    ASSUME NEW str, NEW k, NEW w, Joined(str, k, w), NEW all, Seamless(w, k), SignsClear(w, all),
           NEW n \in 1 .. Len(str),
           NEW r, NEW q, Sane(r.tok, Len(str)), Abreast(r, q, k, all, w), NEW m, m = k + n
    PROVE  Abreast(Turn(r, n, str), Turn(q, m, w), k, all, w)
<1>1. PICK t, x, c : t = r.tok /\ x = q.tok /\ c = str[t.offset + 1]
  OBVIOUS
<1>2. InStep(t, x, k, all) /\ Numerals(t, x, w) /\ IsTok(t) /\ IsTok(x)
  BY <1>1, KinTops DEF Abreast, InStep
<1>3. (x.out <=> t.out) /\ x.offset = t.offset + k /\ k \in Nat /\ t.offset \in Nat /\ x.offset \in Nat
          /\ n \in Nat
  BY <1>2 DEF InStep, Kin, IsTok, Joined
<1>4. x.offset >= m <=> t.offset >= n
  BY <1>3
<1>5. CASE t.out \/ t.offset >= n
  <2>1. Turn(r, n, str) = r
    BY <1>1, <1>5 DEF Turn
  <2>2. Turn(q, m, w) = q
    BY <1>1, <1>3, <1>4, <1>5 DEF Turn
  <2> QED
    BY <2>1, <2>2
<1>6. CASE ~(t.out \/ t.offset >= n)
  <2>1. str \in Seq(STRING) /\ w \in Seq(STRING) /\ Len(w) = k + Len(str) /\ Len(str) \in Nat
            /\ Len(w) \in Nat
    BY DEF Joined
  <2>2. t.offset < Len(str) /\ x.offset < Len(w)
    BY <1>3, <1>6, <2>1
  <2>3. Ready(t, str)
    BY <1>1, <1>6, <2>1, <2>2 DEF Ready
  <2>4. c = w[x.offset + 1]
    <3>1. PICK i : i = t.offset + 1
      OBVIOUS
    <3>2. i \in 1 .. Len(str) /\ x.offset + 1 = k + i
      BY <1>3, <2>1, <2>2, <3>1
    <3>3. w[k + i] = str[i]
      BY <3>2 DEF Joined
    <3> QED
      BY <1>1, <3>1, <3>2, <3>3
  <2>5. c \in Chars
    <3>1. t.offset + 1 \in 1 .. Len(str)
      BY <1>3, <2>1, <2>2
    <3>2. c \in STRING
      BY <1>1, <2>1, <3>1
    <3> QED
      BY <3>2 DEF Chars
  <2>6. Alike(t, str, x, w)
    BY <1>3, JoinedAlike
  <2>7. Top(t).state = "number" => SameSign(t, x, c, all)
    BY <1>2, <2>1, <2>2, <2>4, SignKnown
  <2>8. PICK a, b : a = Pass(t, c, str) /\ b = Pass(x, c, w)
    OBVIOUS
  <2>9. InStep(a, b, k, all) /\ Fresh(t, a)
    BY <1>1, <1>2, <2>3, <2>6, <2>7, <2>8, PassTwins
  <2>10. Numerals(a, b, w)
    BY <1>2, <2>1, <2>2, <2>4, <2>5, <2>8, <2>9, NumeralsKept
  <2>11. Turn(r, n, str) = [tok |-> a, c |-> c]
    BY <1>1, <1>6, <2>8 DEF Turn
  <2>12. Turn(q, m, w) = [tok |-> b, c |-> c]
    BY <1>1, <1>3, <1>4, <1>6, <2>4, <2>8 DEF Turn
  <2>13. PICK r2, q2 : r2 = [tok |-> a, c |-> c] /\ q2 = [tok |-> b, c |-> c]
    OBVIOUS
  <2>14. r2.tok = a /\ q2.tok = b /\ r2.c = c /\ q2.c = c
    BY <2>13
  <2>15. Abreast(r2, q2, k, all, w)
    BY <2>9, <2>10, <2>14 DEF Abreast
  <2> QED
    BY <2>11, <2>12, <2>13, <2>15
<1> QED
  BY <1>5, <1>6

\* What a turn leaves of Ran.
LEMMA TurnRan ==
    ASSUME NEW str, NEW k, NEW w, Behind(str, k, w), NEW n \in 1 .. Len(str), NEW r, Ran(r, str, k, w)
    PROVE  Ran(Turn(r, n, str), str, k, w)
<1>1. PICK r2 : r2 = Turn(r, n, str)
  OBVIOUS
<1>2. CASE r.tok.out \/ r.tok.offset >= n
  BY <1>2 DEF Turn
<1>3. CASE ~r.tok.out /\ r.tok.offset < n
  BY <1>1, <1>3, TurnRuns
<1>4. r.tok.offset \in Nat /\ n \in Nat
  BY DEF Ran, Sane, IsTok, Behind
<1> QED
  BY <1>2, <1>3, <1>4

LEMMA TurnsPairs ==
    ASSUME NEW str, NEW k, NEW w, Joined(str, k, w), NEW all, Seamless(w, k), SignsClear(w, all),
           NEW n \in 1 .. Len(str),
           NEW r, NEW q, Ran(r, str, k, w), Abreast(r, q, k, all, w), NEW m, m = k + n
    PROVE  Abreast(Turns(r, n, str), Turns(q, m, w), k, all, w)
<1>0. Behind(str, k, w)
  BY DEF Joined, Behind
<1>1. q.tok.out <=> r.tok.out
  BY DEF Abreast, InStep, Kin
<1>2. CASE r.tok.out
  <2>1. Turns(r, n, str) = r
    BY <1>2 DEF Turns
  <2>2. Turns(q, m, w) = q
    BY <1>1, <1>2 DEF Turns
  <2> QED
    BY <2>1, <2>2
<1>3. CASE ~r.tok.out
  <2>1. PICK f : /\ f[0] = r /\ \A j \in 1 .. 11 : f[j] = Turn(f[j - 1], n, str)
                 /\ Turns(r, n, str) = f[11]
    <3>1. ~r.tok.out
      BY <1>3
    <3>2. IsLoop(r, n, str)
      BY <3>1, TurnsAre
    <3> QED
      BY <3>2 DEF IsLoop
  <2>2. PICK g : /\ g[0] = q /\ \A j \in 1 .. 11 : g[j] = Turn(g[j - 1], m, w)
                 /\ Turns(q, m, w) = g[11]
    <3>1. ~q.tok.out
      BY <1>1, <1>3
    <3>2. IsLoop(q, m, w)
      BY <3>1, TurnsAre
    <3> QED
      BY <3>2 DEF IsLoop
  <2> DEFINE Good(j) == Ran(f[j], str, k, w) /\ Abreast(f[j], g[j], k, all, w)
             T == {j \in Nat : j <= 11 => Good(j)}
  <2>3. 0 \in T
    BY <2>1, <2>2
  <2>4. ASSUME NEW j \in T PROVE j + 1 \in T
    <3> SUFFICES ASSUME j + 1 <= 11 PROVE Good(j + 1)
      OBVIOUS
    <3>1. j \in Nat /\ j + 1 \in 1 .. 11 /\ (j + 1) - 1 = j /\ Good(j)
      BY <2>4
    <3>2. PICK a, b, a2, b2 : a = f[j] /\ b = g[j] /\ a2 = f[j + 1] /\ b2 = g[j + 1]
      OBVIOUS
    <3>3. a2 = Turn(a, n, str) /\ b2 = Turn(b, m, w)
      <4>1. f[j + 1] = Turn(f[(j + 1) - 1], n, str) /\ g[j + 1] = Turn(g[(j + 1) - 1], m, w)
        BY <2>1, <2>2, <3>1
      <4> QED
        BY <3>1, <3>2, <4>1
    <3>4. Ran(a, str, k, w) /\ Abreast(a, b, k, all, w) /\ Sane(a.tok, Len(str))
      BY <3>1, <3>2 DEF Ran
    <3>5. Ran(a2, str, k, w)
      BY <1>0, <3>3, <3>4, TurnRan
    <3>6. Abreast(a2, b2, k, all, w)
      BY <3>3, <3>4, TurnPairs
    <3> QED
      BY <3>2, <3>5, <3>6
  <2>5. T = Nat
    <3>1. T \in SUBSET Nat /\ \A j \in T : j + 1 \in T
      BY <2>4
    <3> HIDE DEF T
    <3> QED
      BY <2>3, <3>1, NumberInduction
  <2>6. Good(11)
    BY <2>5
  <2> QED
    BY <2>1, <2>2, <2>6
<1> QED
  BY <1>2, <1>3

\* The rest of the text, by one that has read the beginning and by one that
\* has not.
LEMMA PassesPair ==
    ASSUME NEW str, NEW k, NEW w, Joined(str, k, w), NEW all, Seamless(w, k), SignsClear(w, all),
           NEW t, Sane(t, Len(str)), ~t.out, t.err = "success", t.offset = 0, InComment(t, k, w),
           NEW x0, NEW g, \A n \in 1 .. Len(w) : g[n] = Turns(g[n - 1], n, w), Passes(x0, w) = g[Len(w)],
           Abreast([tok |-> t, c |-> "none"], g[k], k, all, w)
    PROVE  Abreast(Passes(t, str), Passes(x0, w), k, all, w)
<1>0. Behind(str, k, w) /\ str \in Seq(STRING) /\ Len(str) \in Nat /\ k \in Nat /\ Len(w) = k + Len(str)
  BY DEF Joined, Behind
<1>1. PICK f : /\ f[0] = [tok |-> t, c |-> "none"]
               /\ \A n \in 1 .. Len(str) : f[n] = Turns(f[n - 1], n, str)
               /\ Passes(t, str) = f[Len(str)]
  BY <1>0, PassesAre
<1> DEFINE Good(n) == /\ Ran(f[n], str, k, w) /\ Abreast(f[n], g[k + n], k, all, w)
                      /\ f[n].tok.out \/ f[n].tok.offset >= n
           T == {n \in Nat : n <= Len(str) => Good(n)}
<1>2. 0 \in T
  <2>1. f[0].tok = t
    BY <1>1
  <2>2. Ran(f[0], str, k, w)
    BY <2>1 DEF Ran
  <2>3. Abreast(f[0], g[k + 0], k, all, w)
    BY <1>0, <1>1
  <2> QED
    BY <2>1, <2>2, <2>3
<1>3. ASSUME NEW n \in T PROVE n + 1 \in T
  <2> SUFFICES ASSUME n + 1 <= Len(str) PROVE Good(n + 1)
    OBVIOUS
  <2>1. n \in Nat /\ n + 1 \in 1 .. Len(str) /\ (n + 1) - 1 = n /\ Good(n)
    BY <1>0, <1>3
  <2>2. PICK a, b, a2, b2, m, p : a = f[n] /\ a2 = f[n + 1] /\ m = n + 1 /\ p = k + m /\ b = g[k + n]
             /\ b2 = g[k + (n + 1)]
    OBVIOUS
  <2>3. a2 = Turns(a, m, str) /\ m \in 1 .. Len(str) /\ m - 1 = n
    BY <1>1, <2>1, <2>2
  <2>4. p \in 1 .. Len(w) /\ p - 1 = k + n /\ p = k + (n + 1)
    BY <1>0, <2>1, <2>2
  <2>5. b2 = Turns(b, p, w)
    <3>1. g[p] = Turns(g[p - 1], p, w)
      BY <2>4
    <3> QED
      BY <2>2, <2>4, <3>1
  <2>6. Ran(a, str, k, w) /\ Abreast(a, b, k, all, w) /\ (a.tok.out \/ a.tok.offset >= m - 1)
    BY <2>1, <2>2, <2>3
  <2>7. Ran(a2, str, k, w) /\ (a2.tok.out \/ a2.tok.offset >= m)
    BY <1>0, <2>3, <2>6, TurnsReach
  <2>8. Abreast(a2, b2, k, all, w)
    BY <2>2, <2>3, <2>5, <2>6, TurnsPairs
  <2> QED
    BY <2>2, <2>7, <2>8
<1>4. T = Nat
  <2>1. T \in SUBSET Nat /\ \A n \in T : n + 1 \in T
    BY <1>3
  <2> HIDE DEF T
  <2> QED
    BY <1>2, <2>1, NumberInduction
<1>5. Good(Len(str))
  BY <1>0, <1>4
<1> QED
  BY <1>0, <1>1, <1>5

\* s is the beginning of w, which goes on.
Opens(s, w) ==
    /\ s \in Seq(STRING) /\ w \in Seq(STRING) /\ Len(s) < Len(w)
    /\ \A i \in 1 .. Len(s) : w[i] = s[i]

LEMMA BeyondSame ==
    ASSUME NEW s, NEW w, Opens(s, w), Seamless(w, Len(s)), NEW t, t.offset \in Nat, t.offset < Len(s),
           w[t.offset + 1] = "hi"
    PROVE  /\ Ahead(t, s) <=> Ahead(t, w)
           /\ Ahead(t, s) => (t.offset + 3 = Len(s) <=> t.offset + 3 = Len(w))
<1>1. PICK o \in Nat, k \in Nat, q \in Nat : o = t.offset /\ k = Len(s) /\ q = Len(w)
  BY DEF Opens
<1>2. s \in Seq(STRING) /\ w \in Seq(STRING) /\ k < q /\ o < k /\ w[o + 1] = "hi"
  BY <1>1 DEF Opens
<1>3. \A i \in 1 .. k : w[i] = s[i]
  BY <1>1 DEF Opens
<1>4. /\ w[k] # "hi"
      /\ k > 1 => ~(w[k - 1] = "hi" /\ w[k] = "\\")
      /\ k > 2 => ~(w[k - 2] = "hi" /\ w[k - 1] = "\\" /\ w[k] = "u")
  BY <1>1, <1>2 DEF Seamless, Unspoiled
<1>5. Ahead(t, s) <=> o + 3 <= k /\ s[o + 2] = "\\" /\ s[o + 3] = "u"
  BY <1>1, <1>2, AheadIs
<1>6. Ahead(t, w) <=> o + 3 <= q /\ w[o + 2] = "\\" /\ w[o + 3] = "u"
  BY <1>1, <1>2, AheadIs
<1>7. CASE o + 3 <= k
  <2>1. o + 2 \in 1 .. k /\ o + 3 \in 1 .. k
    BY <1>7
  <2>2. w[o + 2] = s[o + 2] /\ w[o + 3] = s[o + 3]
    BY <1>3, <2>1
  <2>3. Ahead(t, s) <=> Ahead(t, w)
    BY <1>2, <1>5, <1>6, <1>7, <2>2
  <2>4. ASSUME Ahead(t, s), o + 3 = k PROVE FALSE
    <3>1. k > 2 /\ k - 2 = o + 1 /\ k - 1 = o + 2
      BY <2>4
    <3>2. w[k - 2] = "hi" /\ w[k - 1] = "\\" /\ w[k] = "u"
      BY <1>2, <1>5, <2>2, <2>4, <3>1
    <3> QED
      BY <1>4, <3>1, <3>2
  <2>5. o + 3 # q
    BY <1>2, <1>7
  <2> QED
    BY <1>1, <2>3, <2>4, <2>5
<1>8. CASE ~(o + 3 <= k)
  <2>1. ~Ahead(t, s)
    BY <1>5, <1>8
  <2>2. o + 1 = k \/ o + 1 = k - 1
    BY <1>2, <1>8
  <2>3. o + 1 # k
    BY <1>2, <1>4
  <2>4. k > 1 /\ k - 1 = o + 1 /\ k = o + 2
    BY <2>2, <2>3
  <2>5. w[k] # "\\"
    BY <1>2, <1>4, <2>4
  <2>6. ~Ahead(t, w)
    BY <1>6, <2>4, <2>5
  <2> QED
    BY <2>1, <2>6
<1> QED
  BY <1>7, <1>8

LEMMA TurnSame ==
    ASSUME NEW s, NEW w, Opens(s, w), Seamless(w, Len(s)), NEW n \in 1 .. Len(s), NEW r, Sane(r.tok, Len(s))
    PROVE  Turn(r, n, s) = Turn(r, n, w)
<1>1. PICK t : t = r.tok
  OBVIOUS
<1>2. CASE t.out \/ t.offset >= n
  BY <1>1, <1>2 DEF Turn
<1>3. CASE ~(t.out \/ t.offset >= n)
  <2>1. IsTok(t) /\ t.offset \in Nat /\ Len(s) \in Nat /\ n \in Nat /\ Stack(t.level, t.depth)
            /\ s \in Seq(STRING)
    BY <1>1 DEF Sane, IsTok, Opens
  <2>2. t.offset < Len(s) /\ t.offset + 1 \in 1 .. Len(s)
    BY <1>3, <2>1
  <2>3. PICK c : c = s[t.offset + 1] /\ c = w[t.offset + 1]
    BY <2>2 DEF Opens
  <2>4. Top(t).state \in States
    BY <2>1, TopLevelFacts DEF Top, Stack, GoodLevel
  <2>5. c = "hi" => /\ Ahead(t, s) <=> Ahead(t, w)
                    /\ Ahead(t, s) => (t.offset + 3 = Len(s) <=> t.offset + 3 = Len(w))
    BY <2>1, <2>2, <2>3, BeyondSame
  <2>6. Pass(t, c, s) = Pass(t, c, w)
    BY <2>1, <2>4, <2>5, PassSame
  <2>7. Turn(r, n, s) = [tok |-> Pass(t, c, s), c |-> c] /\ Turn(r, n, w) = [tok |-> Pass(t, c, w), c |-> c]
    BY <1>1, <1>3, <2>3 DEF Turn
  <2> QED
    BY <2>6, <2>7
<1> QED
  BY <1>2, <1>3

LEMMA TurnsSame ==
    ASSUME NEW s, NEW w, Opens(s, w), Seamless(w, Len(s)), NEW n \in 1 .. Len(s), NEW r, Ran(r, s, 0, s),
           Behind(s, 0, s)
    PROVE  Turns(r, n, s) = Turns(r, n, w)
<1>1. CASE r.tok.out
  BY <1>1 DEF Turns
<1>2. CASE ~r.tok.out
  <2>1. PICK f : /\ f[0] = r /\ \A j \in 1 .. 11 : f[j] = Turn(f[j - 1], n, s)
                 /\ Turns(r, n, s) = f[11]
    <3>1. ~r.tok.out
      BY <1>2
    <3>2. IsLoop(r, n, s)
      BY <3>1, TurnsAre
    <3> QED
      BY <3>2 DEF IsLoop
  <2>2. PICK g : /\ g[0] = r /\ \A j \in 1 .. 11 : g[j] = Turn(g[j - 1], n, w)
                 /\ Turns(r, n, w) = g[11]
    <3>1. ~r.tok.out
      BY <1>2
    <3>2. IsLoop(r, n, w)
      BY <3>1, TurnsAre
    <3> QED
      BY <3>2 DEF IsLoop
  <2> DEFINE Good(j) == Ran(f[j], s, 0, s) /\ f[j] = g[j]
             T == {j \in Nat : j <= 11 => Good(j)}
  <2>3. 0 \in T
    BY <2>1, <2>2
  <2>4. ASSUME NEW j \in T PROVE j + 1 \in T
    <3> SUFFICES ASSUME j + 1 <= 11 PROVE Good(j + 1)
      OBVIOUS
    <3>1. j \in Nat /\ j + 1 \in 1 .. 11 /\ (j + 1) - 1 = j /\ Good(j)
      BY <2>4
    <3>2. PICK a, a2, b2 : a = f[j] /\ a = g[j] /\ a2 = f[j + 1] /\ b2 = g[j + 1]
      BY <3>1
    <3>3. a2 = Turn(a, n, s) /\ b2 = Turn(a, n, w)
      <4>1. f[j + 1] = Turn(f[(j + 1) - 1], n, s) /\ g[j + 1] = Turn(g[(j + 1) - 1], n, w)
        BY <2>1, <2>2, <3>1
      <4> QED
        BY <3>1, <3>2, <4>1
    <3>4. Ran(a, s, 0, s) /\ Sane(a.tok, Len(s))
      BY <3>1, <3>2 DEF Ran
    <3>5. Ran(a2, s, 0, s)
      BY <3>3, <3>4, TurnRan
    <3>6. a2 = b2
      BY <3>3, <3>4, TurnSame
    <3> QED
      BY <3>2, <3>5, <3>6
  <2>5. T = Nat
    <3>1. T \in SUBSET Nat /\ \A j \in T : j + 1 \in T
      BY <2>4
    <3> HIDE DEF T
    <3> QED
      BY <2>3, <3>1, NumberInduction
  <2>6. Good(11)
    BY <2>5
  <2> QED
    BY <2>1, <2>2, <2>6
<1> QED
  BY <1>1, <1>2

\* A run on a text goes through a run on its beginning.
LEMMA PassesSame ==
    ASSUME NEW s, NEW w, Opens(s, w), Seamless(w, Len(s)), Behind(s, 0, s), NEW x0,
           Sane(x0, Len(s)), ~x0.out, x0.err = "success", x0.offset = 0, InComment(x0, 0, s)
    PROVE  \E g : /\ \A n \in 1 .. Len(w) : g[n] = Turns(g[n - 1], n, w)
                  /\ Passes(x0, w) = g[Len(w)] /\ g[Len(s)] = Passes(x0, s)
<1>0. s \in Seq(STRING) /\ w \in Seq(STRING) /\ Len(s) \in Nat /\ Len(w) \in Nat /\ Len(s) < Len(w)
  BY DEF Opens
<1>1. PICK f : /\ f[0] = [tok |-> x0, c |-> "none"]
               /\ \A n \in 1 .. Len(s) : f[n] = Turns(f[n - 1], n, s)
               /\ Passes(x0, s) = f[Len(s)]
  BY <1>0, PassesAre
<1>2. PICK g : /\ g[0] = [tok |-> x0, c |-> "none"]
               /\ \A n \in 1 .. Len(w) : g[n] = Turns(g[n - 1], n, w)
               /\ Passes(x0, w) = g[Len(w)]
  BY <1>0, PassesAre
<1> DEFINE Good(n) == /\ Ran(f[n], s, 0, s) /\ f[n] = g[n]
                      /\ f[n].tok.out \/ f[n].tok.offset >= n
           T == {n \in Nat : n <= Len(s) => Good(n)}
<1>3. 0 \in T
  <2>1. f[0].tok = x0 /\ g[0] = f[0]
    BY <1>1, <1>2
  <2>2. Ran(f[0], s, 0, s)
    BY <2>1 DEF Ran
  <2> QED
    BY <2>1, <2>2
<1>4. ASSUME NEW n \in T PROVE n + 1 \in T
  <2> SUFFICES ASSUME n + 1 <= Len(s) PROVE Good(n + 1)
    OBVIOUS
  <2>1. n \in Nat /\ n + 1 \in 1 .. Len(s) /\ (n + 1) - 1 = n /\ Good(n)
    BY <1>0, <1>4
  <2>2. PICK a, a2, b2, m : a = f[n] /\ a = g[n] /\ a2 = f[n + 1] /\ b2 = g[n + 1] /\ m = n + 1
    BY <2>1
  <2>3. m \in 1 .. Len(s) /\ m \in 1 .. Len(w) /\ m - 1 = n
    BY <1>0, <2>1, <2>2
  <2>4. a2 = Turns(a, m, s) /\ b2 = Turns(a, m, w)
    BY <1>1, <1>2, <2>2, <2>3
  <2>5. Ran(a, s, 0, s) /\ (a.tok.out \/ a.tok.offset >= m - 1)
    BY <2>1, <2>2, <2>3
  <2>6. Ran(a2, s, 0, s) /\ (a2.tok.out \/ a2.tok.offset >= m)
    BY <2>3, <2>4, <2>5, TurnsReach
  <2>7. a2 = b2
    BY <2>3, <2>4, <2>5, TurnsSame
  <2> QED
    BY <2>2, <2>6, <2>7
<1>5. T = Nat
  <2>1. T \in SUBSET Nat /\ \A n \in T : n + 1 \in T
    BY <1>4
  <2> HIDE DEF T
  <2> QED
    BY <1>3, <2>1, NumberInduction
<1>6. Good(Len(s))
  BY <1>0, <1>5
<1> QED
  BY <1>1, <1>2, <1>6

-----------------------------------------------------------------------------
(* Two calls, and the text between two cuts.                                *)

\* t, through pieces, has come to where x0 comes through s at once.
Followed(t, x0, s, all) == Abreast([tok |-> t, c |-> "none"], Passes(x0, s), Len(s), all, s)

LEMMA NumeralsOn ==
    ASSUME NEW t, NEW x, NEW s, NEW w, Opens(s, w), IsTok(x), x.offset = Len(s), Numerals(t, x, s)
    PROVE  Numerals(t, x, w)
<1> SUFFICES ASSUME Top(x).state = "number" PROVE Numerals(t, x, w)
  BY DEF Numerals
<1>1. PICK l, o, m : l = x.caseLen /\ o = x.offset /\ m = Len(w)
  OBVIOUS
<1>2. l \in Nat /\ o \in Nat /\ m \in Nat /\ o < m /\ o = Len(s)
  BY <1>1 DEF Opens, IsTok
<1>3. /\ l = Len(x.pb) /\ l <= o
      /\ \A i \in 1 .. l : x.pb[i] \in NumberChars /\ s[o - l + i] = x.pb[i]
      /\ t.caseLen = l \/ (t.caseLen = t.offset /\ t.offset < l)
  BY <1>1 DEF Numerals
<1>4. l # 0
  BY <1>1, <1>2 DEF Numerals
<1>5. ASSUME NEW i \in 1 .. l PROVE w[o - l + i] = x.pb[i]
  <2>1. PICK j : j = o - l + i
    OBVIOUS
  <2>2. j \in 1 .. Len(s)
    BY <1>2, <1>3, <2>1
  <2>3. w[j] = s[j]
    BY <2>2 DEF Opens
  <2> QED
    BY <1>3, <2>1, <2>3
<1> QED
  BY <1>1, <1>2, <1>3, <1>4, <1>5 DEF Numerals

\* Both read on.
LEMMA CallsPair ==
    ASSUME NEW s, NEW w, Opens(s, w), NEW str, Joined(str, Len(s), w), NEW all, Seamless(w, Len(s)),
           SignsClear(w, all),
           NEW t, Sane(t, Len(str)), ~t.out, t.err = "success", t.offset = 0, InComment(t, Len(s), w),
           NEW x0, Sane(x0, Len(s)), ~x0.out, x0.err = "success", x0.offset = 0, InComment(x0, 0, s),
           Followed(t, x0, s, all)
    PROVE  Abreast(Passes(t, str), Passes(x0, w), Len(s), all, w)
<1>1. Behind(s, 0, s)
  BY DEF Behind, Opens
<1>2. PICK g : /\ \A n \in 1 .. Len(w) : g[n] = Turns(g[n - 1], n, w)
               /\ Passes(x0, w) = g[Len(w)] /\ g[Len(s)] = Passes(x0, s)
  BY <1>1, PassesSame
<1>3. PICK r, k : r = [tok |-> t, c |-> "none"] /\ k = Len(s)
  OBVIOUS
<1>4. r.tok = t
  BY <1>3
<1>5. Abreast(r, g[k], k, all, s)
  BY <1>2, <1>3 DEF Followed
<1>6. IsTok(g[k].tok) /\ g[k].tok.offset = k
  <2>1. k \in Nat /\ Kin(t, g[k].tok, k, Needed(Top(t).state, all))
    BY <1>3, <1>4, <1>5 DEF Abreast, InStep, Opens
  <2>2. g[k].tok.offset = 0 + k
    BY <2>1 DEF Kin
  <2> QED
    BY <2>1, <2>2 DEF Kin
<1>7. Numerals(t, g[k].tok, w)
  BY <1>3, <1>4, <1>5, <1>6, NumeralsOn DEF Abreast
<1>8. Abreast(r, g[k], k, all, w)
  BY <1>4, <1>5, <1>7 DEF Abreast
<1>9. Abreast([tok |-> t, c |-> "none"], g[k], k, all, w) /\ Joined(str, k, w) /\ Seamless(w, k)
          /\ InComment(t, k, w)
  BY <1>3, <1>8
<1>10. Abreast(Passes(t, str), Passes(x0, w), k, all, w)
  BY <1>2, <1>9, PassesPair
<1> QED
  BY <1>3, <1>10

\* Both return the same.
Alikes(r, r2, k) == r2[1].err = r[1].err /\ r2[2] = r[2] /\ r2[1].offset = r[1].offset + k
LEMMA ReturnsAlike ==
    ASSUME NEW z, NEW str, NEW q, q = Passes(Begun(z), str), NEW z2, NEW w, NEW q2,
           q2 = Passes(Begun(z2), w),
           NEW k, NEW F, Kin(q.tok, q2.tok, k, F), q2.c = q.c,
           NEW r, r = ParseEx(z, str), NEW r2, r2 = ParseEx(z2, w)
    PROVE  Alikes(r, r2, k)
<1>1. PICK s, s2 : s = q.tok /\ s2 = q2.tok
  OBVIOUS
<1>2. /\ IsTok(s) /\ IsTok(s2) /\ Top(s2) = Top(s) /\ s2.depth = s.depth /\ s2.err = s.err
           /\ s2.strict = s.strict
      /\ (s2.out <=> s.out) /\ s2.offset = s.offset + k
  BY <1>1, KinTops DEF Kin
<1>3. PICK u, u2 : u = AtEnd(s) /\ u2 = AtEnd(s2)
  OBVIOUS
<1>4. PICK e1 : /\ Has(u, s.level, s.depth, e1, s.pb, s.pos, s.quote, s.strict,
                       s.offset, s.hi, s.caseLen, s.obj, s.out)
                /\ Top(u) = Top(s)
                /\ e1 = IF s.out THEN s.err ELSE IF Complete(s) THEN "success" ELSE "continue"
  BY <1>2, <1>3, AtEndIs
<1>5. PICK e2 : /\ Has(u2, s2.level, s2.depth, e2, s2.pb, s2.pos, s2.quote, s2.strict,
                       s2.offset, s2.hi, s2.caseLen, s2.obj, s2.out)
                /\ Top(u2) = Top(s2)
                /\ e2 = IF s2.out THEN s2.err ELSE IF Complete(s2) THEN "success" ELSE "continue"
  BY <1>2, <1>3, AtEndIs
<1>6. Complete(s2) <=> Complete(s)
  BY <1>2 DEF Complete
<1>7. e2 = e1
  BY <1>2, <1>4, <1>5, <1>6
<1>8. PICK e, f : e = AtOut(u, q.c) /\ f = AtOut(u2, q2.c)
  OBVIOUS
<1>9. /\ IsTok(u) /\ IsTok(u2) /\ Top(u2) = Top(u) /\ u2.depth = u.depth /\ u2.err = u.err
           /\ u2.strict = u.strict
      /\ u2.offset = u.offset + k
  BY <1>2, <1>4, <1>5, <1>7 DEF Has
<1>10. f = e
  BY <1>8, <1>9 DEF AtOut
<1>11. /\ Has(r[1], r[1].level, u.depth, e, u.pb, u.pos, u.quote, u.strict, u.offset, No, 0, NullValue, No)
       /\ e = "success" => r[2] = Top(u).current
       /\ e # "success" => r[2] = NullValue
  BY <1>1, <1>2, <1>3, <1>8, <1>9, ParseExIs
<1>12. /\ Has(r2[1], r2[1].level, u2.depth, f, u2.pb, u2.pos, u2.quote, u2.strict, u2.offset, No, 0,
            NullValue, No)
       /\ f = "success" => r2[2] = Top(u2).current
       /\ f # "success" => r2[2] = NullValue
  BY <1>1, <1>2, <1>3, <1>8, <1>9, ParseExIs
<1> QED
  BY <1>9, <1>10, <1>11, <1>12 DEF Has, Alikes

\* A call that has to go on leaves the tokener where the other one is.
LEMMA GoesOn ==
    ASSUME NEW z, NEW str, Len(str) \in Nat, NEW q, q = Passes(Begun(z), str), Sane(q.tok, Len(str)),
           ~q.tok.out, q.tok.offset = Len(str),
           NEW q2, NEW k, NEW all, NEW w, Abreast(q, q2, k, all, w), Len(w) = k + Len(str),
           NEW r, r = ParseEx(z, str), NEW x, x = r[1], Resting(x), x.err = "continue"
    PROVE  Abreast([tok |-> Begun(x), c |-> "none"], q2, Len(w), all, w)
<1>1. PICK s, s2, y, p : s = q.tok /\ s2 = q2.tok /\ y = Begun(x) /\ p = [tok |-> y, c |-> "none"]
  OBVIOUS
<1>2. p.tok = y
  BY <1>1
<1>3. IsTok(s) /\ ~s.out /\ s.err = "success" /\ ~s.hi /\ s.offset = Len(str) /\ Sane(s, Len(str))
  BY <1>1 DEF Sane
<1>4. InStep(s, s2, k, all) /\ Numerals(s, s2, w) /\ Kin(s, s2, k, Needed(Top(s).state, all))
          /\ Top(s2) = Top(s)
  BY <1>1, KinTops DEF Abreast, InStep
<1>5. PICK u : u = AtEnd(s)
  OBVIOUS
<1>6. /\ Has(u, s.level, s.depth, u.err, s.pb, s.pos, s.quote, s.strict, s.offset, s.hi, s.caseLen, s.obj,
           s.out)
      /\ Top(u) = Top(s)
  <2>1. PICK e1 : /\ Has(u, s.level, s.depth, e1, s.pb, s.pos, s.quote, s.strict,
                         s.offset, s.hi, s.caseLen, s.obj, s.out)
                  /\ Top(u) = Top(s)
    BY <1>3, <1>5, AtEndIs
  <2> QED
    BY <2>1 DEF Has
<1>7. PICK e : e = AtOut(u, q.c)
  OBVIOUS
<1>8. /\ Has(x, x.level, u.depth, e, u.pb, u.pos, u.quote, u.strict, u.offset, No, 0, NullValue, No)
      /\ e # "success" => x.level = u.level
  BY <1>1, <1>3, <1>5, <1>6, <1>7, ParseExIs DEF Has
<1>9. e = "continue"
  BY <1>8 DEF Has
<1>10. Has(x, s.level, s.depth, "continue", s.pb, s.pos, s.quote, s.strict, s.offset, No, 0, NullValue, No)
  BY <1>6, <1>8, <1>9 DEF Has
<1>11. Has(y, x.level, x.depth, "success", x.pb, x.pos, x.quote, x.strict, 0, x.hi, x.caseLen, x.obj, x.out)
  BY <1>1, <1>10, BegunFields DEF Has
<1>12. Has(y, s.level, s.depth, "success", s.pb, s.pos, s.quote, s.strict, 0, No, 0, NullValue, No)
  BY <1>10, <1>11 DEF Has
<1>13. Top(y) = Top(s) /\ Top(x) = Top(s)
  BY <1>10, <1>12 DEF Has, Top
<1>14. Top(s).state \notin AddStates
  BY <1>13 DEF Resting
<1>15. PICK F : F = Needed(Top(s).state, all)
  OBVIOUS
<1>16. "obj" \notin F
  BY <1>14, <1>15 DEF Needed
<1>17. Kin(s, s2, k, F)
  BY <1>4, <1>15
<1>18. k \in Nat /\ Len(w) \in Nat /\ s2.offset = Len(w)
  BY <1>3, <1>17 DEF Kin
<1>19. Kin(y, s2, Len(w), F)
  BY <1>3, <1>12, <1>16, <1>17, <1>18 DEF Kin, Has, No
<1>20. InStep(y, s2, Len(w), all)
  BY <1>13, <1>15, <1>19 DEF InStep
<1>21. Numerals(y, s2, w)
  <2>1. y.caseLen = 0 /\ y.offset = 0
    BY <1>12 DEF Has
  <2>2. s2.caseLen \in Nat
    BY <1>17 DEF Kin, IsTok
  <2>3. Top(s2).state = "number" => 0 < s2.caseLen
    BY <1>4, <1>18, <2>2 DEF Numerals
  <2> QED
    BY <1>4, <2>1, <2>3 DEF Numerals
<1>22. p.tok.offset = 0 /\ ~p.tok.out
  BY <1>2, <1>12 DEF Has, No
<1> QED
  BY <1>1, <1>2, <1>20, <1>21, <1>22 DEF Abreast

\* q is what is between two places of s.
Part(q, s, a, b) ==
    /\ q \in Seq(STRING) /\ Len(q) = b - a /\ \A i \in 1 .. b - a : q[i] = s[a + i]

LEMMA PartIs ==
    ASSUME NEW s \in Seq(STRING), NEW a \in 0 .. Len(s), NEW b \in a .. Len(s), NEW q,
           q = SubSeq(s, a + 1, b)
    PROVE  Part(q, s, a, b)
<1>1. PICK c : c = a + 1
  OBVIOUS
<1>2. c \in Int /\ b \in Int /\ \A i \in c .. b : s[i] \in STRING
  BY <1>1
<1>3. /\ q \in Seq(STRING) /\ Len(q) = IF c <= b THEN b - c + 1 ELSE 0
      /\ \A i \in 1 .. b - c + 1 : q[i] = s[c + i - 1]
  BY <1>1, <1>2, SubSeqProperties
<1>4. (IF c <= b THEN b - c + 1 ELSE 0) = b - a /\ b - c + 1 = b - a
          /\ \A i \in 1 .. b - a : c + i - 1 = a + i
  BY <1>1
<1> QED
  BY <1>3, <1>4 DEF Part

LEMMA TripleIs ==
    ASSUME NEW s \in Seq(STRING), NEW m \in Nat, m >= 1, m + 2 <= Len(s), s[m] = "hi", s[m + 1] = "\\",
           s[m + 2] = "u"
    PROVE  SubSeq(s, m, m + 2) = <<"hi", "\\", "u">>
<1>1. PICK a, b, q : a = m - 1 /\ b = m + 2 /\ q = SubSeq(s, m, m + 2)
  OBVIOUS
<1>2. a \in 0 .. Len(s) /\ b \in a .. Len(s) /\ m = a + 1 /\ b - a = 3 /\ a + 2 = m + 1 /\ a + 3 = m + 2
  BY <1>1
<1>3. q = SubSeq(s, a + 1, b)
  BY <1>1, <1>2
<1>4. Part(q, s, a, b)
  BY <1>2, <1>3, PartIs
<1>5. q \in Seq(STRING) /\ Len(q) = 3 /\ \A i \in 1 .. 3 : q[i] = s[a + i]
  BY <1>2, <1>4 DEF Part
<1>6. q[1] = s[m] /\ q[2] = s[m + 1] /\ q[3] = s[m + 2]
  BY <1>2, <1>5
<1>7. s[m] \in STRING /\ s[m + 1] \in STRING /\ s[m + 2] \in STRING
  OBVIOUS
<1>8. PICK x \in STRING, y \in STRING, z \in STRING : x = s[m] /\ y = s[m + 1] /\ z = s[m + 2]
  BY <1>7
<1>9. <<x, y, z>> \in Seq(STRING) /\ Len(<<x, y, z>>) = 3 /\ \A i \in 1 .. 3 : <<x, y, z>>[i] = q[i]
  BY <1>6, <1>8
<1>10. q = <<x, y, z>>
  BY <1>5, <1>9, SeqEqual
<1> QED
  BY <1>1, <1>8, <1>10

LEMMA SpoilsNot ==
    ASSUME text \in Seq(STRING), NEW k \in 1 .. Len(text), ~Spoils(k)
    PROVE  Unspoiled(text, k)
<1>1. k < Len(text) => ~Signed(text, k)
  BY DEF Spoils, InfAt, Signed
<1>2. k + 1 < Len(text) => ~(text[k] \in NumberChars /\ text[k + 1] \in NumberChars
          /\ text[k + 2] \in {"i", "I"})
  BY DEF Spoils
<1>3. text[k] # "hi"
  BY DEF Spoils
<1>4. ASSUME k > 1, text[k - 1] = "hi", text[k] = "\\" PROVE FALSE
  <2>1. PICK m : m = k - 1
    OBVIOUS
  <2>2. m \in Nat /\ m >= 1 /\ m + 1 <= Len(text) /\ m + 1 = k
    BY <1>4, <2>1
  <2>3. SubSeq(text, m, m + 1) = <<text[m], text[m + 1]>>
    BY <2>2, PairIs
  <2>4. SubSeq(text, k - 1, k) = <<"hi", "\\">>
    BY <1>4, <2>1, <2>2, <2>3
  <2> QED
    BY <1>4, <2>4 DEF Spoils
<1>5. ASSUME k > 2, text[k - 2] = "hi", text[k - 1] = "\\", text[k] = "u" PROVE FALSE
  <2>1. PICK m : m = k - 2
    OBVIOUS
  <2>2. m \in Nat /\ m >= 1 /\ m + 2 <= Len(text) /\ m + 2 = k /\ m + 1 = k - 1
    BY <1>5, <2>1
  <2>3. SubSeq(text, m, m + 2) = <<"hi", "\\", "u">>
    BY <1>5, <2>1, <2>2, TripleIs
  <2>4. SubSeq(text, k - 2, k) = <<"hi", "\\", "u">>
    BY <2>1, <2>2, <2>3
  <2> QED
    BY <1>5, <2>4 DEF Spoils
<1> QED
  BY <1>1, <1>2, <1>3, <1>4, <1>5 DEF Unspoiled

\* A text, a value's part of it up to a cut, the next piece, and both.
Pieces(s, v, p, e, a, b, w) ==
    /\ s \in Seq(STRING) /\ v \in Nat /\ p \in v .. Len(s) /\ e \in p + 1 .. Len(s)
    /\ Part(a, s, v, p) /\ Part(b, s, p, e) /\ Part(w, s, v, e)

LEMMA PiecesJoin ==
    ASSUME NEW s, NEW v, NEW p, NEW e, NEW a, NEW b, NEW w, Pieces(s, v, p, e, a, b, w)
    PROVE  /\ Opens(a, w) /\ Joined(b, Len(a), w) /\ Len(a) = p - v /\ Len(w) = e - v /\ Len(b) = e - p
           /\ Len(w) \in Nat /\ Len(b) \in Nat /\ Len(a) \in Nat /\ Len(a) < Len(w) /\ Len(b) > 0
<1>1. /\ s \in Seq(STRING) /\ v \in Nat /\ p \in v .. Len(s) /\ e \in p + 1 .. Len(s) /\ p \in Nat
           /\ e \in Nat
      /\ a \in Seq(STRING) /\ Len(a) = p - v /\ \A i \in 1 .. p - v : a[i] = s[v + i]
      /\ b \in Seq(STRING) /\ Len(b) = e - p /\ \A i \in 1 .. e - p : b[i] = s[p + i]
      /\ w \in Seq(STRING) /\ Len(w) = e - v /\ \A i \in 1 .. e - v : w[i] = s[v + i]
  BY DEF Pieces, Part
<1>2. \A i \in 1 .. Len(a) : w[i] = a[i]
  BY <1>1
<1>3. PICK k : k = p - v
  OBVIOUS
<1>4. k \in Nat /\ Len(w) = k + Len(b)
  BY <1>1, <1>3
<1>5. ASSUME NEW i \in 1 .. Len(b) PROVE w[k + i] = b[i]
  <2>1. PICK j : j = k + i
    OBVIOUS
  <2>2. j \in 1 .. e - v /\ v + j = p + i /\ i \in 1 .. e - p
    BY <1>1, <1>3, <2>1
  <2> QED
    BY <1>1, <2>1, <2>2
<1>6. Len(a) = k
  BY <1>1, <1>3
<1>7. Joined(b, Len(a), w)
  <2>1. Joined(b, k, w)
    BY <1>1, <1>4, <1>5 DEF Joined
  <2> QED
    BY <1>6, <2>1
<1>8. Len(w) \in Nat /\ Len(b) \in Nat /\ Len(a) \in Nat /\ Len(a) < Len(w) /\ Len(b) > 0
  BY <1>1
<1>9. Opens(a, w)
  BY <1>1, <1>2, <1>8 DEF Opens
<1> QED
  BY <1>1, <1>7, <1>8, <1>9

LEMMA CutHere ==
    ASSUME NEW s, NEW v, NEW p, NEW e, NEW a, NEW b, NEW w, Pieces(s, v, p, e, a, b, w), v = p
           \/ Unspoiled(s, p)
    PROVE  Seamless(w, Len(a))
<1>1. PICK k : k = Len(a)
  OBVIOUS
<1>2. k = p - v /\ k \in Nat /\ Len(w) = e - v /\ v \in Nat /\ p \in Nat /\ e \in Nat /\ p < e
          /\ e <= Len(s) /\ p = v + k
      /\ Len(s) \in Nat /\ \A i \in 1 .. e - v : w[i] = s[v + i]
  BY <1>1, PiecesJoin DEF Pieces, Part
<1>3. CASE v = p
  BY <1>1, <1>2, <1>3 DEF Seamless
<1>4. CASE v # p
  <2>1. k >= 1 /\ Unspoiled(s, p)
    BY <1>2, <1>4
  <2>2. w[k] = s[p] /\ w[k + 1] = s[p + 1]
    <3>1. PICK i, j : i = k /\ j = k + 1
      OBVIOUS
    <3>2. i \in 1 .. e - v /\ j \in 1 .. e - v /\ v + i = p /\ v + j = p + 1
      BY <1>2, <2>1, <3>1
    <3> QED
      BY <1>2, <3>1, <3>2
  <2>3. k + 1 < Len(w) => w[k + 2] = s[p + 2]
    <3>1. PICK j : j = k + 2
      OBVIOUS
    <3>2. ASSUME k + 1 < Len(w) PROVE j \in 1 .. e - v /\ v + j = p + 2
      BY <1>2, <2>1, <3>1, <3>2
    <3> QED
      BY <1>2, <3>1, <3>2
  <2>4. k > 1 => w[k - 1] = s[p - 1] /\ p > 1
    <3>1. PICK j : j = k - 1
      OBVIOUS
    <3>2. ASSUME k > 1 PROVE j \in 1 .. e - v /\ v + j = p - 1 /\ p > 1
      BY <1>2, <2>1, <3>1, <3>2
    <3> QED
      BY <1>2, <3>1, <3>2
  <2>5. k > 2 => w[k - 2] = s[p - 2] /\ p > 2
    <3>1. PICK j : j = k - 2
      OBVIOUS
    <3>2. ASSUME k > 2 PROVE j \in 1 .. e - v /\ v + j = p - 2 /\ p > 2
      BY <1>2, <2>1, <3>1, <3>2
    <3> QED
      BY <1>2, <3>1, <3>2
  <2>6. k + 1 < Len(w) => p + 1 < Len(s)
    BY <1>2
  <2>7. p < Len(s)
    BY <1>2
  <2>8. ~Signed(w, k)
    BY <2>1, <2>2, <2>7 DEF Unspoiled, Signed
  <2>9. k + 1 < Len(w) => ~(w[k] \in NumberChars /\ w[k + 1] \in NumberChars /\ w[k + 2] \in {"i", "I"})
    BY <2>1, <2>2, <2>3, <2>6 DEF Unspoiled
  <2>10. /\ w[k] # "hi"
         /\ k > 1 => ~(w[k - 1] = "hi" /\ w[k] = "\\")
    BY <2>1, <2>2, <2>4 DEF Unspoiled
  <2>11. k > 2 => ~(w[k - 2] = "hi" /\ w[k - 1] = "\\" /\ w[k] = "u")
    <3> SUFFICES ASSUME k > 2, w[k - 2] = "hi", w[k - 1] = "\\", w[k] = "u" PROVE FALSE
      OBVIOUS
    <3>1. k > 1
      BY <1>2
    <3>2. s[p - 2] = "hi" /\ s[p - 1] = "\\" /\ s[p] = "u" /\ p > 2
      BY <2>2, <2>4, <2>5, <3>1
    <3> QED
      BY <2>1, <3>2 DEF Unspoiled
  <2> QED
    BY <1>1, <2>8, <2>9, <2>10, <2>11 DEF Seamless, Unspoiled
<1> QED
  BY <1>3, <1>4

\* From v on, -Infinity does not depend on what came before.
NoSigns(s, v, all) == all \/ \A j \in v + 1 .. Len(s) - 1 : ~Signed(s, j)

LEMMA SignsHere ==
    ASSUME NEW s, NEW v, NEW p, NEW e, NEW a, NEW b, NEW w, Pieces(s, v, p, e, a, b, w), NEW all,
           NoSigns(s, v, all)
    PROVE  SignsClear(w, all)
<1> SUFFICES ASSUME ~all, NEW j \in 1 .. Len(w) - 1 PROVE ~Signed(w, j)
  BY DEF SignsClear
<1>1. /\ Len(w) = e - v /\ v \in Nat /\ e \in Nat /\ e <= Len(s) /\ Len(s) \in Nat
      /\ \A i \in 1 .. e - v : w[i] = s[v + i]
  BY PiecesJoin DEF Pieces, Part
<1>2. PICK i, m : i = v + j /\ m = j + 1
  OBVIOUS
<1>3. j \in 1 .. e - v /\ m \in 1 .. e - v /\ v + m = i + 1 /\ i \in v + 1 .. Len(s) - 1
  BY <1>1, <1>2
<1>4. w[j] = s[i] /\ w[j + 1] = s[i + 1]
  BY <1>1, <1>2, <1>3
<1>5. ~Signed(s, i)
  BY <1>3 DEF NoSigns
<1> QED
  BY <1>4, <1>5 DEF Signed

LEMMA CommentHere ==
    ASSUME NEW s, NEW v, NEW p, NEW e, NEW a, NEW b, NEW w, Pieces(s, v, p, e, a, b, w),
           NEW t, t.offset = 0, NEW k, k = p - v, InComment(t, k, SubSeq(s, v + 1, Len(s)))
    PROVE  InComment(t, k, w)
<1>1. PICK r : r = SubSeq(s, v + 1, Len(s))
  OBVIOUS
<1>2. /\ s \in Seq(STRING) /\ v \in 0 .. Len(s) /\ Len(s) \in v .. Len(s) /\ k \in Nat /\ k < e - v
           /\ e - v <= Len(s) - v
      /\ v \in Nat /\ e \in Nat /\ Len(s) \in Nat
      /\ \A i \in 1 .. e - v : w[i] = s[v + i]
  BY PiecesJoin DEF Pieces, Part
<1>3. \A i \in 1 .. Len(s) - v : r[i] = s[v + i]
  BY <1>1, <1>2, PartIs DEF Part
<1>4. \A i \in 1 .. k : w[i] = r[i]
  BY <1>2, <1>3
<1>5. k + t.offset = k
  BY <1>2
<1>6. PICK g : g = k + t.offset
  OBVIOUS
<1>7. /\ Top(t).state = "comment_start" => g >= 1 /\ r[g] = "/"
      /\ Top(t).state \in Within => \E j \in 1 .. g - 1 : r[j] = "/" /\ r[j + 1] \in {"*", "/"}
  <2>1. InComment(t, k, r)
    BY <1>1
  <2>2. InComment(t, k, r) => (Top(t).state = "comment_start" => k + t.offset >= 1 /\ r[k + t.offset] = "/")
    BY DEF InComment
  <2>3. InComment(t, k, r) =>
            (Top(t).state \in Within => \E j \in 1 .. k + t.offset - 1 : r[j] = "/"
                /\ r[j + 1] \in {"*", "/"})
    BY Zenon DEF InComment
  <2> QED
    BY <1>6, <2>1, <2>2, <2>3
<1>8. /\ Top(t).state = "comment_start" => k >= 1 /\ r[k] = "/"
      /\ Top(t).state \in Within => \E j \in 1 .. k - 1 : r[j] = "/" /\ r[j + 1] \in {"*", "/"}
  BY <1>5, <1>6, <1>7
<1>9. Top(t).state = "comment_start" => k >= 1 /\ w[k] = "/"
  BY <1>2, <1>4, <1>8
<1>10. Top(t).state \in Within => \E j \in 1 .. k - 1 : w[j] = "/" /\ w[j + 1] \in {"*", "/"}
  <2> SUFFICES ASSUME Top(t).state \in Within PROVE \E j \in 1 .. k - 1 : w[j] = "/"
      /\ w[j + 1] \in {"*", "/"}
    OBVIOUS
  <2>1. PICK j \in 1 .. k - 1 : r[j] = "/" /\ r[j + 1] \in {"*", "/"}
    BY <1>8
  <2>2. j \in 1 .. k /\ j + 1 \in 1 .. k
    BY <1>2
  <2>3. w[j] = r[j] /\ w[j + 1] = r[j + 1]
    BY <1>4, <2>2
  <2> QED
    BY <2>1, <2>3
<1> QED
  BY <1>5, <1>9, <1>10 DEF InComment

Newcomer(strict) == Begun(NewTokener(strict))

LEMMA NewIs ==
    ASSUME NEW strict, NEW n \in Nat, NEW x, x = Newcomer(strict), NEW s
    PROVE  /\ Sane(x, n) /\ ~x.out /\ x.err = "success" /\ x.offset = 0 /\ x.strict = strict /\ x.depth = 0
           /\ Top(x) = Empty /\ InComment(x, 0, s) /\ x.pos = 0 /\ ~x.hi
                /\ \A d \in 0 .. MaxDepth : x.level[d] = Empty
<1>1. PICK z : z = NewTokener(strict)
  OBVIOUS
<1>2. Resting(z) /\ z.err = "success" /\ z.depth = 0 /\ z.offset = 0 /\ z.pos = 0 /\ z.strict = strict
  BY <1>1, NewTokenerRests
<1>3. x = Begun(z)
  BY <1>1 DEF Newcomer
<1>4. /\ Sane(x, n) /\ ~x.out /\ x.err = "success" /\ x.offset = 0 /\ x.strict = z.strict
      /\ Top(x) = Top(z) /\ x.level = z.level /\ x.depth = z.depth
  BY <1>2, <1>3, BegunIsSane
<1>5. \A d \in 0 .. MaxDepth : x.level[d] = Empty
  BY <1>2, <1>4 DEF Resting
<1>6. Top(x) = Empty
  BY <1>2, <1>4, <1>5, TokenerAssumption DEF Top
<1>7. x.pos = 0 /\ ~x.hi
  <2>1. Has(x, z.level, z.depth, "success", z.pb, z.pos, z.quote, z.strict, 0, z.hi, z.caseLen, z.obj,
            z.out)
    BY <1>2, <1>3, BegunFields DEF Resting
  <2> QED
    BY <1>2, <2>1 DEF Has, Resting
<1>8. InComment(x, 0, s)
  BY <1>6, GoodEmpty DEF InComment, Within
<1> QED
  BY <1>2, <1>4, <1>5, <1>6, <1>7, <1>8

\* Nothing was read yet: a tokener at rest is where a new one is.
LEMMA FollowedFirst ==
    ASSUME NEW z, Resting(z), z.err = "success", z.depth = 0, NEW x0, x0 = Newcomer(z.strict), NEW all, all
           => z.pos = 0,
           NEW s \in Seq(STRING), Len(s) = 0
    PROVE  Followed(Begun(z), x0, s, all)
<1>1. PICK y, p : y = Begun(z) /\ p = [tok |-> y, c |-> "none"]
  OBVIOUS
<1>2. p.tok = y /\ p.c = "none"
  BY <1>1
<1>3. /\ Sane(y, 0) /\ ~y.out /\ y.err = "success" /\ y.offset = 0 /\ y.strict = z.strict
      /\ Top(y) = Top(z) /\ y.level = z.level /\ y.depth = z.depth
  BY <1>1, BegunIsSane
<1>4. /\ Sane(x0, 0) /\ ~x0.out /\ x0.err = "success" /\ x0.offset = 0 /\ x0.strict = z.strict
           /\ x0.depth = 0
      /\ Top(x0) = Empty /\ x0.pos = 0 /\ ~x0.hi /\ \A d \in 0 .. MaxDepth : x0.level[d] = Empty
  BY NewIs
<1>5. Has(y, z.level, z.depth, "success", z.pb, z.pos, z.quote, z.strict, 0, z.hi, z.caseLen, z.obj, z.out)
  BY <1>1, BegunFields DEF Resting
<1>6. y.pos = z.pos /\ ~y.hi
  BY <1>5 DEF Has, Resting
<1>7. y.level = x0.level
  <2>1. Levels(y.level) /\ Levels(x0.level)
    BY <1>3, <1>4 DEF Sane, IsTok
  <2>2. \A d \in 0 .. MaxDepth : y.level[d] = Empty
    BY <1>3 DEF Resting
  <2>3. PICK a, b : a = y.level /\ b = x0.level
    OBVIOUS
  <2>4. a = [d \in 0 .. MaxDepth |-> a[d]] /\ b = [d \in 0 .. MaxDepth |-> b[d]]
    BY <2>1, <2>3 DEF Levels
  <2>5. \A d \in 0 .. MaxDepth : a[d] = b[d]
    BY <1>4, <2>2, <2>3
  <2>6. a = b
    BY <2>4, <2>5
  <2> QED
    BY <2>3, <2>6
<1>8. Top(y) = Empty
  BY <1>3, <1>4, <1>7 DEF Top
<1>9. Needed("eatws", all) \subseteq {"pos"} /\ ("pos" \in Needed("eatws", all) => all)
  BY DEF Needed, Buffered, Counting, InString, InEscape, AddStates
<1>10. InStep(y, x0, 0, all)
  <2>1. Empty.state = "eatws"
    BY GoodEmpty
  <2>2. PICK F : F = Needed("eatws", all)
    OBVIOUS
  <2>3. Kin(y, x0, 0, F)
    BY <1>3, <1>4, <1>6, <1>7, <1>9, <2>2 DEF Kin, Sane
  <2> QED
    BY <1>8, <2>1, <2>2, <2>3 DEF InStep
<1>11. PICK q : q = Passes(x0, s)
  OBVIOUS
<1>12. q.tok = x0
  <2>1. PICK f : /\ f[0] = [tok |-> x0, c |-> "none"]
                 /\ Passes(x0, s) = f[Len(s)]
    BY PassesAre
  <2> QED
    BY <1>11, <2>1
<1>13. Numerals(y, x0, s)
  BY <1>4, GoodEmpty DEF Numerals
<1>14. Abreast(p, q, 0, all, s)
  BY <1>2, <1>3, <1>10, <1>12, <1>13 DEF Abreast
<1> QED
  BY <1>1, <1>11, <1>14 DEF Followed

\* A call with the next piece, and one of a new tokener with all there is.
LEMMA CallCompared ==
    ASSUME NEW s, NEW v, NEW p, NEW e, NEW a, NEW b, NEW w, Pieces(s, v, p, e, a, b, w), v = p
           \/ Unspoiled(s, p),
           NEW all, NoSigns(s, v, all),
           NEW z, Resting(z), z.err = "continue" \/ (z.err = "success" /\ z.depth = 0),
           InComment(Begun(z), p - v, SubSeq(s, v + 1, Len(s))),
               Followed(Begun(z), Newcomer(z.strict), a, all),
           NEW r, r = ParseEx(z, b), NEW x, x = r[1], NEW r2, r2 = ParseEx(NewTokener(z.strict), w)
    PROVE  /\ r2[1].err = x.err /\ r2[2] = r[2] /\ r2[1].offset = x.offset + (p - v)
           /\ x.err = "continue" /\ Unspoiled(s, e) => Followed(Begun(x), Newcomer(z.strict), w, all)
           /\ Resting(x) /\ x.strict = z.strict
<1>1. PICK t, x0, k : t = Begun(z) /\ x0 = Newcomer(z.strict) /\ k = p - v
  OBVIOUS
<1>2. /\ Opens(a, w) /\ Joined(b, Len(a), w) /\ Len(a) = p - v /\ Len(w) = e - v /\ Len(b) = e - p
      /\ Len(w) \in Nat /\ Len(b) \in Nat /\ Len(a) \in Nat /\ Len(a) < Len(w) /\ Len(b) > 0
  BY PiecesJoin
<1>3. Seamless(w, Len(a)) /\ SignsClear(w, all)
  BY CutHere, SignsHere
<1>4. Sane(t, Len(b)) /\ ~t.out /\ t.err = "success" /\ t.offset = 0 /\ t.strict = z.strict
  BY <1>1, <1>2, BegunIsSane
<1>5. InComment(t, k, w) /\ k = Len(a)
  BY <1>1, <1>2, <1>4, CommentHere
<1>6. Sane(x0, Len(a)) /\ ~x0.out /\ x0.err = "success" /\ x0.offset = 0 /\ InComment(x0, 0, a)
  BY <1>1, <1>2, NewIs
<1>7. PICK q, q2 : q = Passes(t, b) /\ q2 = Passes(x0, w)
  OBVIOUS
<1>8. Followed(t, x0, a, all) /\ InComment(t, Len(a), w)
  BY <1>1, <1>5
<1>9. Abreast(q, q2, k, all, w)
  <2>1. Abreast(Passes(t, b), Passes(x0, w), Len(a), all, w)
    BY <1>2, <1>3, <1>4, <1>6, <1>8, CallsPair
  <2> QED
    BY <1>5, <1>7, <2>1
<1>10. Behind(b, k, w)
  BY <1>2, <1>5 DEF Joined, Behind
<1>11. Ran(q, b, k, w) /\ q.tok.strict = t.strict /\ (q.tok.out \/ q.tok.offset = Len(b))
  BY <1>4, <1>5, <1>7, <1>10, PassesReach
<1>12. q2.c = q.c /\ Kin(q.tok, q2.tok, k, Needed(Top(q.tok).state, all)) /\ Sane(q.tok, Len(b))
  BY <1>2, <1>9, <1>11 DEF Abreast, InStep, Ran
<1>13. r2[1].err = r[1].err /\ r2[2] = r[2] /\ r2[1].offset = r[1].offset + k
  <2>1. PICK y, F : y = NewTokener(z.strict) /\ F = Needed(Top(q.tok).state, all)
    OBVIOUS
  <2>2. q = Passes(Begun(z), b)
    BY <1>1, <1>7
  <2>3. q2 = Passes(Begun(y), w)
    BY <1>1, <1>7, <2>1 DEF Newcomer
  <2>4. r = ParseEx(z, b) /\ r2 = ParseEx(y, w)
    BY <2>1
  <2>5. Kin(q.tok, q2.tok, k, F) /\ q2.c = q.c
    BY <1>12, <2>1
  <2>6. Alikes(r, r2, k)
    BY <2>2, <2>3, <2>4, <2>5, ReturnsAlike
  <2> QED
    BY <2>6 DEF Alikes
<1>14. InComment(Begun(z), k, w)
  BY <1>1, <1>5
<1>15. /\ Resting(x) /\ x.strict = z.strict /\ x.offset <= Len(b)
       /\ x.err = "continue" => x.offset = Len(b) /\ InComment(Begun(x), k + Len(b), w)
  BY <1>10, <1>14, CallEnds
<1>16. ASSUME x.err = "continue", Unspoiled(s, e) PROVE Followed(Begun(x), Newcomer(z.strict), w, all)
  <2>1. ~q.tok.out
    <3> SUFFICES ASSUME q.tok.out PROVE FALSE
      OBVIOUS
    <3>1. PICK u : u = AtEnd(q.tok)
      OBVIOUS
    <3>2. IsTok(q.tok) /\ q = Passes(Begun(z), b)
      BY <1>1, <1>7, <1>12 DEF Sane
    <3>3. PICK e1 : /\ Has(u, q.tok.level, q.tok.depth, e1, q.tok.pb, q.tok.pos, q.tok.quote, q.tok.strict,
                           q.tok.offset,
                           q.tok.hi, q.tok.caseLen, q.tok.obj, q.tok.out)
                    /\ Top(u) = Top(q.tok)
                    /\ e1 = IF q.tok.out THEN q.tok.err ELSE IF Complete(q.tok) THEN "success" ELSE "continue"
      BY <3>1, <3>2, AtEndIs
    <3>4. u.err = q.tok.err /\ IsTok(u)
      BY <3>3 DEF Has
    <3>5. PICK f : f = AtOut(u, q.c)
      OBVIOUS
    <3>6. Has(r[1], r[1].level, u.depth, f, u.pb, u.pos, u.quote, u.strict, u.offset, No, 0, NullValue, No)
      BY <3>1, <3>2, <3>4, <3>5, ParseExIs
    <3>7. x.err = f
      BY <3>6 DEF Has
    <3>8. f \in {"eof", "unexpected"} \/ f = u.err
      BY <3>5 DEF AtOut
    <3>9. q.tok.err = "continue"
      BY <1>16, <3>4, <3>7, <3>8
    <3>10. Len(b) >= 3 /\ b[Len(b) - 2] = "hi" /\ b[Len(b) - 1] = "\\" /\ b[Len(b)] = "u"
      BY <1>11, <3>9 DEF Ran, CutShort
    <3>11. PICK l : l = Len(b)
      OBVIOUS
    <3>12. /\ l = e - p /\ p \in Nat /\ e \in Nat /\ \A i \in 1 .. e - p : b[i] = s[p + i]
      BY <1>2, <3>11 DEF Pieces, Part
    <3>13. PICK i, j : i = l - 2 /\ j = l - 1
      OBVIOUS
    <3>14. i \in 1 .. e - p /\ j \in 1 .. e - p /\ l \in 1 .. e - p /\ p + i = e - 2 /\ p + j = e - 1
               /\ p + l = e /\ e > 2
      BY <3>10, <3>11, <3>12, <3>13
    <3>15. b[i] = s[e - 2] /\ b[j] = s[e - 1] /\ b[l] = s[e]
      BY <3>12, <3>14
    <3>16. s[e - 2] = "hi" /\ s[e - 1] = "\\" /\ s[e] = "u"
      BY <3>10, <3>11, <3>13, <3>15
    <3> QED
      BY <1>16, <3>14, <3>16 DEF Unspoiled
  <2>2. q.tok.offset = Len(b) /\ Len(w) = k + Len(b) /\ q = Passes(Begun(z), b)
    BY <1>1, <1>2, <1>5, <1>7, <1>11, <2>1 DEF Joined
  <2>3. Abreast([tok |-> Begun(x), c |-> "none"], q2, Len(w), all, w)
    BY <1>2, <1>9, <1>12, <1>15, <1>16, <2>1, <2>2, GoesOn
  <2> QED
    BY <1>1, <1>7, <2>3 DEF Followed
<1> QED
  BY <1>1, <1>13, <1>15, <1>16

-----------------------------------------------------------------------------
(* The inductive invariant of the pieces.                                   *)

\* A value that goes on at a place where a cut leaves no trace: the tokener is
\* where a new one is that has read all of it at once.
Matched(z, s, v, p) ==
    \E all : NoSigns(s, v, all) /\ Followed(Begun(z), Newcomer(z.strict), SubSeq(s, v + 1, p), all)

CutsInv ==
    /\ TokInv /\ CutsDoNotMatter
    /\ tok.err = "continue" => valueAt < upto
    /\ tok.err = "continue" /\ ~delicate /\ Unspoiled(text, upto) => Matched(tok, text, valueAt, upto)

LEMMA CutsStart == TokInit => CutsInv
<1> SUFFICES ASSUME TokInit PROVE CutsInv
  OBVIOUS
<1>1. TokInv
  BY Starts
<1>2. valueAt = 0 /\ upto = 0
  BY DEF TokInit
<1>3. CutsDoNotMatter
  BY <1>2 DEF CutsDoNotMatter
<1>4. tok.err = "success"
  BY NewTokenerRests DEF TokInit
<1> QED
  BY <1>1, <1>3, <1>4 DEF CutsInv

Restarts(z, s, v, p, a) ==
    /\ v = p \/ Unspoiled(s, p)
    /\ \E all : NoSigns(s, v, all) /\ Followed(Begun(z), Newcomer(z.strict), a, all)

\* The start of a piece: of a new value or of the rest of one.
LEMMA PieceStart ==
    ASSUME CutsInv, ParseMore, NEW v, v = valueAt', ~delicate', NEW a, a = SubSeq(text, v + 1, pieceAt)
    PROVE  Restarts(tok, text, v, pieceAt, a)
<1>1. text \in Seq(STRING) /\ Len(text) \in Nat /\ Resting(tok) /\ pieceAt \in 0 .. Len(text)
          /\ valueAt \in 0 .. pieceAt
      /\ (tok.err = "continue" => pieceAt = upto)
  BY DEF CutsInv, TokInv, IsText
<1>2. /\ tok.err \in {"success", "continue"} /\ pieceAt < Len(text)
      /\ v = IF tok.err = "success" THEN pieceAt ELSE valueAt
      /\ delicate' = IF tok.err = "success" THEN LeftPos ELSE delicate \/ Spoils(pieceAt)
  BY DEF ParseMore
<1>3. CASE tok.err = "success"
  <2>1. v = pieceAt /\ ~LeftPos
    BY <1>2, <1>3
  <2>2. tok.depth = 0
    <3>1. tok.depth = 0 \/ EndsInComment
      BY <1>3 DEF CutsInv, TokInv
    <3>2. ASSUME EndsInComment PROVE FALSE
      <4>1. pieceAt > 0 /\ text[pieceAt] = Nul
        BY <3>2 DEF EndsInComment
      <4>2. \A i \in 1 .. Len(text) - 1 : text[i] # Nul
        BY DEF CutsInv, TokInv, IsText
      <4> QED
        BY <1>1, <1>2, <4>1, <4>2
    <3> QED
      BY <3>1, <3>2
  <2>3. a \in Seq(STRING) /\ Len(a) = 0
    <3>1. v \in 0 .. Len(text) /\ v \in v .. Len(text) /\ a = SubSeq(text, v + 1, v) /\ v - v = 0
      BY <1>1, <2>1
    <3>2. Part(a, text, v, v)
      BY <1>1, <3>1, PartIs
    <3> QED
      BY <3>1, <3>2 DEF Part
  <2>4. PICK z, all : z = tok /\ all = (tok.pos = 0)
    OBVIOUS
  <2>5. NoSigns(text, v, all)
    <3> SUFFICES ASSUME ~all, NEW j \in v + 1 .. Len(text) - 1, Signed(text, j) PROVE FALSE
      BY DEF NoSigns
    <3>1. j \in pieceAt + 1 .. Len(text) /\ j < Len(text)
      BY <1>1, <2>1
    <3>2. InfAt(j)
      BY <3>1 DEF InfAt, Signed
    <3> QED
      BY <2>1, <2>4, <3>1, <3>2 DEF LeftPos
  <2>6. Followed(Begun(z), Newcomer(z.strict), a, all)
    BY <1>1, <1>3, <2>2, <2>3, <2>4, FollowedFirst
  <2> QED
    BY <2>1, <2>4, <2>5, <2>6 DEF Restarts
<1>4. CASE tok.err = "continue"
  <2>1. v = valueAt /\ ~delicate /\ ~Spoils(pieceAt) /\ pieceAt = upto
    BY <1>1, <1>2, <1>4
  <2>2. pieceAt \in 1 .. Len(text)
    BY <1>1, <1>4, <2>1 DEF CutsInv
  <2>3. Unspoiled(text, pieceAt)
    BY <1>1, <2>1, <2>2, SpoilsNot
  <2>4. Matched(tok, text, v, pieceAt)
    BY <1>4, <2>1, <2>3 DEF CutsInv
  <2> QED
    BY <2>3, <2>4 DEF Matched, Restarts
<1> QED
  BY <1>2, <1>3, <1>4

LEMMA CutsMore == CutsInv /\ ParseMore => CutsInv'
<1> SUFFICES ASSUME CutsInv, ParseMore PROVE CutsInv'
  OBVIOUS
<1>0. TokInv /\ TokInv'
  BY MoreKeeps DEF CutsInv
<1>1. text \in Seq(STRING) /\ Len(text) \in Nat /\ Resting(tok) /\ pieceAt \in 0 .. Len(text)
          /\ valueAt \in 0 .. pieceAt
  BY <1>0 DEF TokInv, IsText
<1>2. /\ tok.err \in {"success", "continue"} /\ pieceAt < Len(text) /\ text' = text
      /\ valueAt' = IF tok.err = "success" THEN pieceAt ELSE valueAt
  BY DEF ParseMore
<1>3. PICK n \in 1 .. Len(text) - pieceAt :
          LET r == ParseEx(tok, SubSeq(text, pieceAt + 1, pieceAt + n))
          IN  tok' = r[1] /\ got' = r[2] /\ upto' = pieceAt + n /\ pieceAt' = pieceAt + r[1].offset
  BY DEF ParseMore
<1>4. PICK s, v, p, e, a, b, w, z, r, x, r2 :
          /\ s = text /\ v = valueAt' /\ p = pieceAt /\ e = p + n /\ z = tok
          /\ a = SubSeq(s, v + 1, p) /\ b = SubSeq(s, p + 1, e) /\ w = SubSeq(s, v + 1, e)
          /\ r = ParseEx(z, b) /\ x = r[1] /\ r2 = ParseEx(NewTokener(z.strict), w)
  OBVIOUS
<1>5. tok' = x /\ got' = r[2] /\ upto' = e /\ pieceAt' = p + x.offset
  BY <1>3, <1>4
<1>6. s \in Seq(STRING) /\ Len(s) \in Nat /\ v \in 0 .. p /\ p \in 0 .. Len(s) /\ e \in p + 1 .. Len(s)
  BY <1>1, <1>2, <1>4
<1>7. Pieces(s, v, p, e, a, b, w)
  <2>1. Part(a, s, v, p)
    <3>1. v \in 0 .. Len(s) /\ p \in v .. Len(s) /\ a = SubSeq(s, v + 1, p)
      BY <1>4, <1>6
    <3> QED
      BY <1>6, <3>1, PartIs
  <2>2. Part(b, s, p, e)
    <3>1. p \in 0 .. Len(s) /\ e \in p .. Len(s) /\ b = SubSeq(s, p + 1, e)
      BY <1>4, <1>6
    <3> QED
      BY <1>6, <3>1, PartIs
  <2>3. Part(w, s, v, e)
    <3>1. v \in 0 .. Len(s) /\ e \in v .. Len(s) /\ w = SubSeq(s, v + 1, e)
      BY <1>4, <1>6
    <3> QED
      BY <1>6, <3>1, PartIs
  <2> QED
    BY <1>6, <2>1, <2>2, <2>3 DEF Pieces
<1>8. Resting(z) /\ (z.err = "continue" \/ (z.err = "success" /\ z.depth = 0))
  <2>1. tok.err = "success" => tok.depth = 0 \/ EndsInComment
    BY <1>0 DEF TokInv
  <2>2. ASSUME EndsInComment PROVE FALSE
    <3>1. pieceAt > 0 /\ text[pieceAt] = Nul
      BY <2>2 DEF EndsInComment
    <3>2. \A i \in 1 .. Len(text) - 1 : text[i] # Nul
      BY <1>0 DEF TokInv, IsText
    <3> QED
      BY <1>1, <1>2, <3>1, <3>2
  <2> QED
    BY <1>1, <1>2, <1>4, <2>1, <2>2
<1>9. InComment(Begun(z), p - v, SubSeq(s, v + 1, Len(s)))
  <2>1. CASE z.err = "success"
    <3>1. PICK y : y = Begun(z)
      OBVIOUS
    <3>2. Top(y) = Top(z) /\ Top(z) = Empty
      BY <1>8, <2>1, <3>1, BegunIsSane, TopLevelFacts DEF Resting, Top
    <3> QED
      BY <3>1, <3>2, GoodEmpty DEF InComment, Within
  <2>2. CASE z.err = "continue"
    BY <1>0, <1>2, <1>4, <2>2 DEF TokInv
  <2> QED
    BY <1>8, <2>1, <2>2
<1>10. ASSUME ~delicate'
       PROVE  /\ r2[1].err = x.err /\ r2[2] = r[2] /\ r2[1].offset = x.offset + (p - v)
                   /\ x.strict = z.strict
              /\ x.err = "continue" /\ Unspoiled(s, e) => Matched(x, s, v, e)
  <2>1. CutsInv /\ ParseMore /\ v = valueAt' /\ ~delicate' /\ a = SubSeq(text, v + 1, pieceAt)
    BY <1>4, <1>10
  <2>2. Restarts(tok, text, v, pieceAt, a)
    BY <2>1, PieceStart
  <2>3. v = p \/ Unspoiled(s, p)
    BY <1>4, <2>2 DEF Restarts
  <2>4. PICK all : NoSigns(s, v, all) /\ Followed(Begun(z), Newcomer(z.strict), a, all)
    BY <1>4, <2>2 DEF Restarts
  <2>5. /\ r2[1].err = x.err /\ r2[2] = r[2] /\ r2[1].offset = x.offset + (p - v)
        /\ x.err = "continue" /\ Unspoiled(s, e) => Followed(Begun(x), Newcomer(z.strict), w, all)
        /\ Resting(x) /\ x.strict = z.strict
    <3>1. r = ParseEx(z, b) /\ x = r[1] /\ r2 = ParseEx(NewTokener(z.strict), w)
      BY <1>4
    <3> QED
      BY <1>7, <1>8, <1>9, <2>3, <2>4, <3>1, CallCompared
  <2>6. w = SubSeq(s, v + 1, e)
    BY <1>4
  <2> QED
    BY <2>4, <2>5, <2>6 DEF Matched
<1>11. CutsDoNotMatter'
  <2> SUFFICES ASSUME ~delicate' PROVE CutsDoNotMatter'
    BY DEF CutsDoNotMatter
  <2>1. r2[1].err = x.err /\ r2[2] = r[2] /\ r2[1].offset = x.offset + (p - v) /\ x.strict = z.strict
    BY <1>10
  <2>2. r2 = ParseEx(NewTokener(tok'.strict), SubSeq(text', valueAt' + 1, upto'))
    BY <1>2, <1>4, <1>5, <2>1
  <2>3. r2[1].err = tok'.err /\ r2[2] = got'
    BY <1>5, <2>1
  <2>4. pieceAt' = valueAt' + r2[1].offset
    <3>1. PICK o : o = x.offset
      OBVIOUS
    <3>2. o \in Nat
      BY <1>0, <1>5, <3>1 DEF TokInv, Resting, IsTok
    <3>3. p + o = v + (o + (p - v))
      BY <1>6, <3>2
    <3> QED
      BY <1>4, <1>5, <2>1, <3>1, <3>3
  <2> QED
    BY <2>2, <2>3, <2>4 DEF CutsDoNotMatter
<1>12. tok'.err = "continue" => valueAt' < upto'
  BY <1>4, <1>5, <1>6
<1>13. ASSUME tok'.err = "continue", ~delicate', Unspoiled(text', upto')
       PROVE  Matched(tok', text', valueAt', upto')
  <2>1. Matched(x, s, v, e)
    BY <1>2, <1>4, <1>5, <1>10, <1>13
  <2> QED
    BY <1>2, <1>4, <1>5, <2>1
<1> QED
  BY <1>0, <1>11, <1>12, <1>13 DEF CutsInv

LEMMA CutsReset == CutsInv /\ Reset => CutsInv'
<1> SUFFICES ASSUME CutsInv, Reset PROVE CutsInv'
  OBVIOUS
<1>1. TokInv'
  BY ResetKeeps DEF CutsInv
<1>2. valueAt' = 0 /\ upto' = 0
  BY DEF Reset
<1>3. CutsDoNotMatter'
  BY <1>2 DEF CutsDoNotMatter
<1>4. tok'.err = "success"
  <2>1. PICK t, c, x : t = tok /\ c = Cleared(t) /\ x = Renewed(t, c)
    OBVIOUS
  <2>2. tok' = x
    BY <2>1 DEF Reset, Renewed
  <2>3. IsTok(t)
    BY <2>1 DEF CutsInv, TokInv, Resting
  <2>4. Levels(c)
    BY <2>1, <2>3, ClearedLevels
  <2>5. Has(x, c, 0, "success", t.pb, t.pos, t.quote, t.strict, t.offset, t.hi, t.caseLen, t.obj, t.out)
    BY <2>1, <2>3, <2>4, RenewedFields
  <2> QED
    BY <2>2, <2>5 DEF Has
<1> QED
  BY <1>1, <1>3, <1>4 DEF CutsInv

LEMMA CutsStutter == CutsInv /\ UNCHANGED tokVars => CutsInv'
<1> SUFFICES ASSUME CutsInv, UNCHANGED tokVars PROVE CutsInv'
  OBVIOUS
<1>1. TokInv'
  BY StutterKeeps DEF CutsInv
<1>2. /\ text' = text /\ tok' = tok /\ valueAt' = valueAt /\ pieceAt' = pieceAt /\ upto' = upto
           /\ got' = got
      /\ delicate' = delicate
  BY DEF tokVars
<1>3. CutsDoNotMatter'
  BY <1>2 DEF CutsInv, CutsDoNotMatter
<1> QED
  BY <1>1, <1>2, <1>3 DEF CutsInv

LEMMA CutsInvHolds == TokSpec => []CutsInv
<1>1. CutsInv /\ [TokNext]_tokVars => CutsInv'
  BY CutsMore, CutsReset, CutsStutter DEF TokNext
<1> QED
  BY CutsStart, <1>1, PTL DEF TokSpec

\* json_tokener.h: however a text is cut into pieces, the calls return what
\* one call with all of it would, and stop where that stops, but for the cuts
\* and values of "delicate".
THEOREM PiecesAreOne == TokSpec => []ParsesInPieces
<1>1. CutsInv => ParsesInPieces
  BY DEF CutsInv, TokInv, SuccessAtTop, ParsesInPieces
<1> QED
  BY CutsInvHolds, <1>1, PTL
=============================================================================
