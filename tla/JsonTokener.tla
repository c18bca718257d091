----------------------------- MODULE JsonTokener -----------------------------
(***************************************************************************)
(* json-c/json_tokener.c: a parser that is fed a text in pieces, and the   *)
(* printing of json_object.c whose output it must read back.               *)
(*                                                                         *)
(* One call of json_tokener_parse_ex is one step.  A text is a sequence of *)
(* characters; four hexadecimal digits that follow \u are one ("hi" and    *)
(* "lo" halves of a surrogate pair, "hx" another), and so is a decoded     *)
(* pair, a control character and the replacement character.  The keywords  *)
(* are cut down to a first and a last letter.                              *)
(***************************************************************************)
EXTENDS Integers, SequencesExt

CONSTANTS
    MaxDepth,  \* max_depth
    Printable, \* values that are printed and read back, with their parts
    Damaged,   \* other texts
    MaxResets  \* bound of the model: resets after an error

ASSUME TokenerAssumption == MaxDepth \in Nat \ {0} /\ MaxResets \in Nat

VARIABLES
    tok,      \* the tokener
    text,     \* the text the client has
    wrote,    \* the value the text was printed from, if it was
    valueAt,  \* where in the text the present value starts
    pieceAt,  \* where the next piece starts
    upto,     \* where the last one ended
    got,      \* what the last call returned
    delicate, \* history: the value is one of those that a cut spoils
    resets

tokVars == <<tok, text, wrote, valueAt, pieceAt, upto, got, delicate, resets>>

Nul    == "nul"
Blanks == {" ", "\n"}
NumberChars == {"0", "1", ".", "-"}
HexGroups == {"hi", "lo", "hx"}
Lower(c) == IF c = "N" THEN "n" ELSE IF c = "I" THEN "i" ELSE c

\* A value: its kind and what it is made of.  NULL is both null and no value.
NullValue == <<"null", <<>>>>
Empty == [state |-> "eatws", saved |-> "start", current |-> NullValue, name |-> <<>>]

NewTokener(strict) ==
    [level |-> [d \in 0 .. MaxDepth |-> Empty], depth |-> 0, err |-> "success",
     pb |-> <<>>, pos |-> 0, quote |-> "none", strict |-> strict, offset |-> 0,
     hi |-> FALSE, caseLen |-> 0, obj |-> NullValue, out |-> FALSE]

-----------------------------------------------------------------------------
(* What the cases of the switch have in common.                             *)

Top(t) == t.level[t.depth]
AtTop(t, l) == [t EXCEPT !.level[t.depth] = l]
Goto(t, s) == AtTop(t, [Top(t) EXCEPT !.state = s])
Escape(t, s) == AtTop(t, [Top(t) EXCEPT !.state = s, !.saved = Top(t).state])
Expect(t, s) == AtTop(t, [Top(t) EXCEPT !.state = "eatws", !.saved = s])
Become(t, s, v) == AtTop(t, [Top(t) EXCEPT !.state = "eatws", !.saved = s, !.current = v])
Named(t, s, n) == AtTop(t, [Top(t) EXCEPT !.state = "eatws", !.saved = s, !.name = n])
Make(t, v) == Become(t, "finish", v)
Leave(t) == [t EXCEPT !.out = TRUE]
Fail(t, e) == [t EXCEPT !.err = e, !.out = TRUE]
Collect(t, c) == [t EXCEPT !.pb = Append(@, c)]
Advance(t, c) == [t EXCEPT !.offset = @ + 1, !.out = (c = Nul)]

\* Bug: the last level is one beyond the end of the stack.
DeepByOne(t) == t.depth >= MaxDepth
TooDeep(t) == t.depth >= MaxDepth - 1
Deeper(t) == [t EXCEPT !.level[t.depth + 1] = Empty, !.depth = @ + 1]
Push(t, s) == IF TooDeep(t) THEN Fail(t, "depth") ELSE Deeper(Goto(t, s))

\* Bug: the object of the level that is left stays there.
KeptLevel(t) == [t.level EXCEPT ![t.depth].state = "eatws"]
LeftLevel(t) == [t.level EXCEPT ![t.depth] = Empty]
Shallower(t) == [t EXCEPT !.obj = Top(t).current, !.level = LeftLevel(t), !.depth = @ - 1]
Finish(t) == IF t.depth = 0 THEN Leave(t) ELSE Shallower(t)

-----------------------------------------------------------------------------
(* White space and comments.                                                *)

EatWs(t, c) ==
    IF c \in Blanks THEN Advance(t, c)
    ELSE IF c = "/" /\ ~t.strict THEN Advance(Goto(t, "comment_start"), c)
    ELSE Goto(t, Top(t).saved)

CommentStart(t, c) ==
    IF c = "*" THEN Advance(Goto(t, "comment"), c)
    ELSE IF c = "/" THEN Advance(Goto(t, "comment_eol"), c)
    ELSE Fail(t, "comment")
Comment(t, c) == Advance(IF c = "*" THEN Goto(t, "comment_end") ELSE t, c)
CommentEol(t, c) == Advance(IF c = "\n" THEN Goto(t, "eatws") ELSE t, c)
CommentEnd(t, c) == Advance(Goto(t, IF c = "/" THEN "eatws" ELSE "comment"), c)

-----------------------------------------------------------------------------
(* The start of a value, keywords and numbers.                              *)

Keyword(t)   == [t EXCEPT !.pb = <<>>, !.pos = 0]
Numeral(t)   == [t EXCEPT !.pb = <<>>, !.caseLen = 0]
Quoted(t, c) == [t EXCEPT !.pb = <<>>, !.quote = c]

Start(t, c) ==
    CASE c = "{" -> Advance(Become(t, "object_field_start", <<"object", <<>>>>), c)
      [] c = "[" -> Advance(Become(t, "array", <<"array", <<>>>>), c)
      [] c \in {"i", "I"} -> Keyword(Goto(t, "inf"))
      [] c \in {"n", "N"} -> Keyword(Goto(t, "null"))
      [] c \in {"t", "f"} -> Keyword(Goto(t, "boolean"))
      [] c = "\"" \/ (c = "'" /\ ~t.strict) ->
            Advance(Quoted(Goto(t, "string"), c), c)
      [] c \in {"0", "1", "-"} -> Numeral(Goto(t, "number"))
      [] OTHER -> Fail(t, "unexpected")

\* strncasecmp (in strict mode strncmp) of the keyword with what was
\* collected, over the first st_pos + 1 letters.
Fits(t, word, buf) ==
    LET size == IF t.pos + 1 < Len(word) THEN t.pos + 1 ELSE Len(word)
    IN  /\ size <= Len(buf)
        /\ \A j \in 1 .. size :
              IF t.strict THEN buf[j] = word[j] ELSE Lower(buf[j]) = Lower(word[j])

Counted(t, n) == [t EXCEPT !.pos = @ + n]

\* Another letter of a keyword that fits, or its end: the value v.
Letter(t, c, word, v) ==
    IF t.pos = Len(word) THEN Make(Collect(t, c), v)
    ELSE Advance(Counted(Collect(t, c), 1), c)

NullOrNaN(t, c) ==
    LET buf == Append(t.pb, c)
    IN  IF Fits(t, <<"n", "l">>, buf) THEN Letter(t, c, <<"n", "l">>, NullValue)
        ELSE IF Fits(t, <<"N", "a">>, buf) THEN Letter(t, c, <<"N", "a">>, <<"double", <<"NaN">>>>)
        ELSE Fail(Collect(t, c), "null")

Boolean(t, c) ==
    LET buf == Append(t.pb, c)
    IN  IF Fits(t, <<"t", "e">>, buf) THEN Letter(t, c, <<"t", "e">>, <<"boolean", <<"true">>>>)
        ELSE IF Fits(t, <<"f", "e">>, buf) THEN Letter(t, c, <<"f", "e">>, <<"boolean", <<"false">>>>)
        ELSE Fail(Collect(t, c), "boolean")

Inf(t, c) ==
    LET buf   == Append(t.pb, c)
        minus == buf[1] = "-"
    IN  IF Fits(t, <<"I", "y">>, IF minus THEN Tail(buf) ELSE buf)
        THEN Letter(t, c, <<"I", "y">>, <<"double", IF minus THEN <<"-", "Inf">> ELSE <<"Inf">>>>)
        ELSE Fail(Collect(t, c), "unexpected")

\* json_parse_int64 and json_parse_double: a digit, perhaps after a sign.
Unsigned(pb) == IF Head(pb) = "-" THEN Tail(pb) ELSE pb
Parses(pb) == Unsigned(pb) # <<>> /\ Head(Unsigned(pb)) \in {"0", "1"}
IsDouble(pb) == Contains(pb, ".")
LeadingZero(pb) == ~IsDouble(pb) /\ Head(pb) = "0" /\ Contains(pb, "1")

\* case_len, the length of the number within this piece.
Lengthened(t) == [t EXCEPT !.caseLen = @ + 1]

Number(t, c) ==
    CASE c \in NumberChars -> Advance(Lengthened(Collect(t, c)), c)
      [] c \notin NumberChars /\ Head(t.pb) = "-" /\ t.caseLen = 1 /\ c \in {"i", "I"} ->
            Goto(t, "inf")
      [] OTHER ->
            IF ~Parses(t.pb) \/ (t.strict /\ LeadingZero(t.pb)) THEN Fail(t, "number")
            ELSE Make(t, <<IF IsDouble(t.pb) THEN "double" ELSE "int", t.pb>>)

-----------------------------------------------------------------------------
(* Strings and names.                                                       *)

String(t, c) ==
    CASE c = t.quote /\ Top(t).state = "string" -> Advance(Make(t, <<"string", t.pb>>), c)
      [] c = t.quote /\ Top(t).state = "object_field" ->
            Advance(Named(t, "object_field_end", t.pb), c)
      [] c = "\\" -> Advance(Escape(t, "string_escape"), c)
      [] OTHER -> Advance(Collect(t, c), c)

FirstDigit(t) == [t EXCEPT !.pos = 0]

StringEscape(t, c) ==
    CASE c \in {"\"", "\\", "/"} -> Advance(Collect(Goto(t, Top(t).saved), c), c)
      [] c = "n" -> Advance(Collect(Goto(t, Top(t).saved), "\n"), c)
      [] c = "u" -> Advance(FirstDigit(Goto(t, "escape_unicode")), c)
      [] OTHER -> Fail(t, "string")

\* The \u of a second half has to be in the same piece.
Ahead(t, str) ==
    /\ t.offset + 3 <= Len(str)
    /\ SubSeq(str, t.offset + 2, t.offset + 3) = <<"\\", "u">>

SecondHalf(t) == [t EXCEPT !.offset = @ + 3, !.hi = TRUE, !.pos = 0]
Truncated(t)  == [t EXCEPT !.offset = @ + 3, !.err = "continue", !.out = TRUE]

\* A first half.  If its piece ends after the \u of the second, st_pos stays
\* where it is and never is four again.
FirstHalf(t, str) ==
    IF ~Ahead(t, str) THEN Advance(Collect(Goto(t, Top(t).saved), "rep"), "hi")
    ELSE IF t.offset + 3 = Len(str)
    THEN Truncated(Collect(t, "rep"))
    ELSE SecondHalf(t)

\* got_hi_surrogate is forgotten.
Alone(t) == [t EXCEPT !.hi = FALSE]

EscapeUnicode(t, c, str) ==
    LET four == Alone(Counted(t, 4))
        rest == IF t.hi THEN Collect(four, "rep") ELSE four
        back(u) == Goto(u, Top(t).saved)
    IN  CASE c = Nul -> Advance(Counted(t, 1), c)
          [] c \in HexGroups /\ four.pos # 4 -> Advance(four, c)
          [] c = "lo" /\ four.pos = 4 ->
                Advance(Collect(back(four), IF t.hi THEN "pair" ELSE "rep"), c)
          [] c = "hx" /\ four.pos = 4 -> Advance(Collect(back(rest), "ctl"), c)
          [] c = "hi" /\ four.pos = 4 -> FirstHalf(rest, str)
          [] OTHER -> Fail(t, "string")

-----------------------------------------------------------------------------
(* Arrays and objects.                                                      *)

StrayComma(t, after) == t.strict /\ Top(t).state = after

CloseBracket(t, c, after) ==
    IF StrayComma(t, after) THEN Fail(t, "unexpected") ELSE Advance(Expect(t, "finish"), c)

Array(t, c) ==
    IF c = "]" THEN CloseBracket(t, c, "array_after_sep") ELSE Push(t, "array_add")

ElementAdd(t) ==
    Become(t, "array_sep", <<"array", Append(Top(t).current[2], t.obj)>>)

Separated(t, c, end, next, e) ==
    IF c = end THEN Advance(Expect(t, "finish"), c)
    ELSE IF c = "," THEN Advance(Expect(t, next), c)
    ELSE Fail(t, e)
ArraySep(t, c) == Separated(t, c, "]", "array_after_sep", "array")
ObjectSep(t, c) == Separated(t, c, "}", "field_start_after_sep", "value_sep")

FieldStart(t, c) ==
    IF c = "}" THEN CloseBracket(t, c, "field_start_after_sep")
    ELSE IF c \in {"\"", "'"}
    THEN Advance(Quoted(Goto(t, "object_field"), c), c)
    ELSE Fail(t, "key_name")

FieldEnd(t, c) ==
    IF c = ":" THEN Advance(Expect(t, "object_value"), c) ELSE Fail(t, "key_sep")

\* json_object_object_add: the value of a name that is there is replaced.
With(members, name, v) ==
    IF \E j \in DOMAIN members : members[j][1] = name
    THEN [j \in DOMAIN members |-> IF members[j][1] = name THEN <<name, v>> ELSE members[j]]
    ELSE Append(members, <<name, v>>)

ValueAdd(t) ==
    LET added == <<"object", With(Top(t).current[2], Top(t).name, t.obj)>>
    IN  Named(Become(t, "object_sep", added), "object_sep", <<>>)

-----------------------------------------------------------------------------
(* json_tokener_parse_ex.                                                   *)

Pass(t, c, str) ==
    LET s == Top(t).state
    IN  CASE s = "eatws" -> EatWs(t, c)
          [] s = "start" -> Start(t, c)
          [] s = "finish" -> Finish(t)
          [] s = "inf" -> Inf(t, c)
          [] s = "null" -> NullOrNaN(t, c)
          [] s = "boolean" -> Boolean(t, c)
          [] s = "number" -> Number(t, c)
          [] s = "comment_start" -> CommentStart(t, c)
          [] s = "comment" -> Comment(t, c)
          [] s = "comment_eol" -> CommentEol(t, c)
          [] s = "comment_end" -> CommentEnd(t, c)
          [] s \in {"string", "object_field"} -> String(t, c)
          [] s = "string_escape" -> StringEscape(t, c)
          [] s = "escape_unicode" -> EscapeUnicode(t, c, str)
          [] s \in {"array", "array_after_sep"} -> Array(t, c)
          [] s = "array_add" -> ElementAdd(t)
          [] s = "array_sep" -> ArraySep(t, c)
          [] s \in {"object_field_start", "field_start_after_sep"} -> FieldStart(t, c)
          [] s = "object_field_end" -> FieldEnd(t, c)
          [] s = "object_value" -> Push(t, "object_value_add")
          [] s = "object_value_add" -> ValueAdd(t)
          [] s = "object_sep" -> ObjectSep(t, c)

\* PEEK_CHAR at the end of a piece: is there a value, and nothing pending?
\* Bug: the value may be inside another one.
CompleteAtAnyDepth(t) == Top(t).state = "eatws" /\ Top(t).saved = "finish"
Complete(t) == t.depth = 0 /\ Top(t).state = "eatws" /\ Top(t).saved = "finish"

\* A turn of the loop for the character at n, unless one before went to out or
\* beyond it; c is the last character looked at.
Turn(r, n, str) ==
    IF r.tok.out \/ r.tok.offset >= n THEN r
    ELSE LET peeked == str[r.tok.offset + 1]
         IN  [tok |-> Pass(r.tok, peeked, str), c |-> peeked]

\* All the turns for it: no character is looked at more than eleven times.
Turns(r, n, str) ==
    IF r.tok.out THEN r
    ELSE LET after[j \in 0 .. 11] == IF j = 0 THEN r ELSE Turn(after[j - 1], n, str)
         IN  after[11]

\* The loop, until the piece ends or a pass goes to out.
Passes(t, str) ==
    LET upTo[n \in 0 .. Len(str)] ==
            IF n = 0 THEN [tok |-> t, c |-> "none"] ELSE Turns(upTo[n - 1], n, str)
    IN  upTo[Len(str)]

AtEnd(t) == IF t.out THEN t ELSE [t EXCEPT !.err = IF Complete(t) THEN "success" ELSE "continue"]

\* json_tokener_reset_level for the levels in use.
\* Bug: the lowest level is forgotten.
AllButLowest(t) == [d \in 0 .. MaxDepth |-> IF d \in 1 .. t.depth THEN Empty ELSE t.level[d]]
Cleared(t) == [d \in 0 .. MaxDepth |-> IF d <= t.depth THEN Empty ELSE t.level[d]]

AtOut(t, c) ==
    IF c = Nul /\ Top(t).state # "finish" /\ Top(t).saved # "finish" THEN "eof"
    ELSE IF c # Nul /\ Top(t).state = "finish" /\ t.depth = 0 /\ t.strict THEN "unexpected"
    ELSE t.err

\* Bug: every call starts to count the letters of a keyword again.
BegunAfresh(t) == [t EXCEPT !.offset = 0, !.err = "success", !.pos = 0]
Begun(t) == [t EXCEPT !.offset = 0, !.err = "success"]

\* The variables of the function itself end with the call.
Returned(t) == [t EXCEPT !.out = FALSE, !.hi = FALSE, !.caseLen = 0, !.obj = NullValue]

\* The tokener after the call and what the call returns.
ParseEx(t, str) ==
    LET run  == Passes(Begun(t), str)
        u    == AtEnd(run.tok)
        err  == AtOut(u, run.c)
        done == [Returned(u) EXCEPT !.err = err]
    IN  IF err = "success" THEN <<[done EXCEPT !.level = Cleared(u)], Top(u).current>>
        ELSE <<done, NullValue>>

-----------------------------------------------------------------------------
(* The printing of json_object.c.                                           *)

\* Bug: only quotes are escaped.
EscapedQuotes(c) == IF c = "\"" THEN <<"\\", c>> ELSE <<c>>
Escaped(c) ==
    CASE c \in {"\"", "\\", "/"} -> <<"\\", c>>
      [] c = "\n" -> <<"\\", "n">>
      [] c = "ctl" -> <<"\\", "u", "hx">>
      [] OTHER -> <<c>>
EscapeStr(s) == FlattenSeq([j \in DOMAIN s |-> Escaped(s[j])])

Spaced(style)  == IF style = "spaced" THEN <<" ">> ELSE <<>>
Newline(style) == IF style = "pretty" THEN <<"\n">> ELSE <<>>
Indent(style, n) == IF style = "pretty" THEN [j \in 1 .. 2 * n |-> " "] ELSE <<>>

\* What an array and an object have in common: children between two brackets.
Bracketed(open, children, close, n, style) ==
    LET one(j) == (IF j > 1 THEN <<",">> \o Newline(style) ELSE <<>>)
                  \o Spaced(style) \o Indent(style, n + 1) \o children[j]
        end    == IF children = <<>> THEN <<>> ELSE Newline(style)
    IN  <<open>> \o Newline(style) \o FlattenSeq([j \in DOMAIN children |-> one(j)])
        \o end \o Indent(style, n) \o Spaced(style) \o <<close>>

PrintScalar(v) ==
    CASE v = NullValue -> <<"n", "l">>
      [] v[1] = "boolean" -> IF v[2][1] = "true" THEN <<"t", "e">> ELSE <<"f", "e">>
      [] v[1] = "double" /\ v[2] = <<"NaN">> -> <<"N", "a">>
      [] v[1] = "double" /\ v[2] = <<"Inf">> -> <<"I", "y">>
      [] v[1] = "double" /\ v[2] = <<"-", "Inf">> -> <<"-", "I", "y">>
      [] v[1] = "string" -> <<"\"">> \o EscapeStr(v[2]) \o <<"\"">>
      [] OTHER -> v[2]

Styles == {"plain", "spaced", "pretty"}
Printed[v \in Printable, n \in Nat, style \in Styles] ==
    CASE v[1] = "array" ->
            Bracketed("[", [j \in DOMAIN v[2] |-> Printed[v[2][j], n + 1, style]], "]", n, style)
      [] v[1] = "object" ->
            Bracketed("{", [j \in DOMAIN v[2] |->
                               <<"\"">> \o EscapeStr(v[2][j][1]) \o <<"\"", ":">> \o Spaced(style)
                               \o Printed[v[2][j][2], n + 1, style]], "}", n, style)
      [] OTHER -> PrintScalar(v)

-----------------------------------------------------------------------------
(* The client.                                                              *)

NotPrinted == <<"none", <<>>>>

\* What a char pointer is: it ends at the first NUL.
IsText(s) == s \in Seq(STRING) /\ \A k \in 1 .. Len(s) - 1 : s[k] # Nul

\* A text that was printed, with the end json_tokener_parse gives it, or not.
TokInit ==
    /\ \E strict \in BOOLEAN : tok = NewTokener(strict)
    /\ \/ \E v \in Printable, style \in Styles, last \in {<<>>, <<Nul>>} :
             wrote = v /\ text = Printed[v, 0, style] \o last
       \/ wrote = NotPrinted /\ text \in Damaged
    /\ IsText(text)
    /\ valueAt = 0 /\ pieceAt = 0 /\ upto = 0 /\ got = NullValue /\ delicate = FALSE /\ resets = 0

InfAt(k) == k < Len(text) /\ text[k] = "-" /\ text[k + 1] \in {"i", "I"}

\* Where a cut changes the result: after a first half of a pair or the start
\* of its \u, after the sign of -Infinity, and within a number before a last
\* character with an i behind it: case_len of the call is then 1.
Spoils(k) ==
    \/ text[k] = "hi"
    \/ InfAt(k)
    \/ k + 1 < Len(text) /\ {text[k], text[k + 1]} \subseteq NumberChars /\ text[k + 2] \in {"i", "I"}
    \/ k > 1 /\ SubSeq(text, k - 1, k) = <<"hi", "\\">>
    \/ k > 2 /\ SubSeq(text, k - 2, k) = <<"hi", "\\", "u">>

\* -Infinity starts with the st_pos that an earlier keyword left.
LeftPos == tok.pos # 0 /\ \E k \in pieceAt + 1 .. Len(text) : InfAt(k)

\* It does not go on at the end of a text it has got a value from.
ParseMore ==
    /\ tok.err \in {"success", "continue"}
    /\ pieceAt < Len(text)
    /\ tok.err = "success" /\ pieceAt > 0 => text[pieceAt + 1] # Nul
    /\ \E n \in 1 .. Len(text) - pieceAt :
          LET r == ParseEx(tok, SubSeq(text, pieceAt + 1, pieceAt + n))
          IN  /\ tok' = r[1] /\ got' = r[2]
              /\ upto' = pieceAt + n /\ pieceAt' = pieceAt + r[1].offset
    /\ valueAt' = IF tok.err = "success" THEN pieceAt ELSE valueAt
    /\ delicate' = IF tok.err = "success" THEN LeftPos ELSE delicate \/ Spoils(pieceAt)
    /\ UNCHANGED <<text, wrote, resets>>

\* json_tokener_reset after an error, and the text once more.
Reset ==
    /\ tok.err \notin {"success", "continue"}
    /\ resets < MaxResets
    /\ resets' = resets + 1
    /\ tok' = [tok EXCEPT !.level = Cleared(tok), !.depth = 0, !.err = "success"]
    /\ valueAt' = 0 /\ pieceAt' = 0 /\ upto' = 0 /\ got' = NullValue /\ delicate' = FALSE
    /\ UNCHANGED <<text, wrote>>

TokNext == ParseMore \/ Reset
TokSpec == TokInit /\ [][TokNext]_tokVars

-----------------------------------------------------------------------------
(* Properties.                                                              *)

ArrayStates  == {"array", "array_add", "array_sep", "array_after_sep"}
ObjectStates == {"object_field_start", "object_field", "object_field_end", "object_value",
                 "object_value_add", "object_sep", "field_start_after_sep"}
Errors == {"success", "continue", "depth", "eof", "unexpected", "null", "boolean", "number",
           "array", "key_name", "key_sep", "value_sep", "string", "comment"}

\* Every level below the last waits for a child of its array or its object,
\* what is built at a level is of the kind its state works on, the levels
\* above the last hold nothing, the stack of max_depth levels is never indexed
\* beyond its end, and between two values and after a reset no level owns an
\* object or a name: json_tokener_free resets the levels up to depth only.
TokTypeOK ==
    /\ tok.err \in Errors /\ tok.pos \in Nat /\ tok.offset \in 0 .. Len(text)
    /\ valueAt \in 0 .. pieceAt /\ upto \in 0 .. Len(text) /\ resets \in 0 .. MaxResets
    /\ \A d \in 0 .. MaxDepth :
          LET l == tok.level[d]
          IN  /\ d < tok.depth /\ tok.err # "success" => l.state \in {"array_add", "object_value_add"}
              /\ d > tok.depth => l = Empty
              /\ {l.state, l.saved} \cap ArrayStates # {} => l.current[1] = "array"
              /\ {l.state, l.saved} \cap ObjectStates # {} => l.current[1] = "object"
    /\ tok.depth < MaxDepth
    /\ tok.err = "success" => \A d \in 0 .. MaxDepth : tok.level[d] = Empty

\* json_tokener.h says that a text can be parsed in pieces: wherever it is cut,
\* a used tokener comes to the result, and to the offset, of a new one that
\* is given the whole text; except for the cuts and values of "delicate".
CutsDoNotMatter ==
    (upto > valueAt /\ ~delicate) =>
        LET r == ParseEx(NewTokener(tok.strict), SubSeq(text, valueAt + 1, upto))
        IN  /\ r[1].err = tok.err /\ r[2] = got
            /\ tok.err # "continue" => pieceAt = valueAt + r[1].offset

\* A comment that the end of the text cuts off.
EndsInComment ==
    /\ pieceAt > 0 /\ text[pieceAt] = Nul
    /\ \E k \in valueAt + 1 .. pieceAt - 1 : text[k] = "/" /\ text[k + 1] \in {"*", "/"}

\* A value is returned only when every array and object around it is closed,
\* unless the text ends in a comment.
SuccessAtTop == tok.err = "success" => tok.depth = 0 \/ EndsInComment

\* A text given in any pieces is parsed as one, and to its end.
ParsesInPieces == CutsDoNotMatter /\ SuccessAtTop

\* -Infinity after something that counts in st_pos.
InfAfterWord ==
    \E k \in DOMAIN text :
        InfAt(k) /\ \E j \in 1 .. k - 1 : text[j] \in {"n", "N", "t", "f", "i", "I", "u"}

\* What json_object.c prints, json_tokener.c reads back, in every style, in
\* either mode and however it is cut, if it does not nest too deeply.
RoundTrip ==
    (wrote # NotPrinted /\ valueAt = 0 /\ upto > 0 /\ ~delicate /\ ~InfAfterWord) =>
        /\ tok.err \in {"success", "continue"}
        /\ tok.err = "success" => got = wrote
        /\ upto = Len(text) /\ text[upto] \in {Nul, "]", "}", "\""} => tok.err = "success"
=============================================================================
