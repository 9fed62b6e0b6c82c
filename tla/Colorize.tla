------------------------------ MODULE Colorize ------------------------------
(***************************************************************************)
(* The markup scanner of colorize.hpp: scanner::scan over a string, with   *)
(* colorizer::do_parse for the specifiers of a bracketed field, and the    *)
(* three scanners that share them (checking, noop, colorizing).            *)
(*                                                                         *)
(* A string is a sequence of tokens.  The three characters with a meaning  *)
(* are tokens; so are the words a specifier is made of: a colour name,     *)
(* "rgb" for a well-formed rgb(r,g,b), "badrgb" for any other text that    *)
(* starts with "rgb(", an emphasis name, "reset", the prefixes "fg:" and   *)
(* "bg:", and anything else.  Outside a field a word is plain text.        *)
(***************************************************************************)
EXTENDS Integers, Sequences, SequencesExt

CONSTANTS Inputs,   \* the strings to scan, sequences of tokens
          Modes,    \* the scanners to run
          NPos      \* npos, what find() says if there is nothing to find

\* No string is as long as npos.
ASSUME TextFits ==
  /\ NPos \in Nat /\ Modes \subseteq {"check", "noop", "color"}
  /\ \A s \in Inputs : s \in Seq(STRING) /\ Len(s) < NPos

VARIABLES str,      \* the string
          mode,     \* the scanner
          phase,    \* "scan", "parse" (inside a field), "done" or "thrown"
          pos,      \* pc.begin(), as the number of tokens before it
          left,     \* scan's left_bracket and right_bracket: offsets from pos
          right,
          spec,     \* do_parse's result so far
          out       \* what was written: tokens of text and escape sequences

colVars == <<str, mode, phase, pos, left, right, spec, out>>

Rest(p) == SubSeq(str, p + 1, Len(str))
Remaining(p) == Len(str) - p                \* fmt.size()

\* find_first_of: the offset of the first of some tokens from p, or NPos.
Find(tokens, p) ==
  LET at == { i \in 0..(Len(str) - p - 1) : str[p + i + 1] \in tokens }
  IN  IF at = {} THEN NPos ELSE Min(at)

\* A name's value is itself: what the tables map it to is not interpreted.
RgbColors == {"red", "blue"}
NoColor == "none"
NameToColor(name) == IF name \in RgbColors THEN name ELSE NoColor

\* The enumerators of emphasis in the order of their bits, a few of the eight.
Emphases == <<"bold", "italic", "reverse", "strike">>
NameToEmphasis(name) == name \in Range(Emphases)

\* each_bit with emphasis_to_value: a parameter for each bit that is set, from
\* the lowest to max_bit.
Bit(flags, em, value) == IF em \in flags THEN <<value>> ELSE <<>>
EachBit(flags) == Bit(flags, "bold", "1") \o Bit(flags, "italic", "3")
                    \o Bit(flags, "reverse", "7") \o Bit(flags, "strike", "9")

-----------------------------------------------------------------------------
(* Specifiers *)

NoSpec == [fg |-> NoColor, bg |-> NoColor, emphasis |-> {}, reset |-> FALSE,
           fgReset |-> FALSE, bgReset |-> FALSE, bad |-> FALSE]

\* A throw of colorize_error.
Bad(r) == [r EXCEPT !.bad = TRUE]

\* parse_rgb looks at the text after "rgb(" only as far as the closing ")".
MalformedRgb(s) == s # <<>> /\ Head(s) = "badrgb"
ParseColor(s) ==
  IF s # <<>> /\ Head(s) = "rgb" THEN "rgb"
  ELSE IF Len(s) = 1 THEN NameToColor(Head(s)) ELSE NoColor

SetColor(r, side, c) == IF r[side] # NoColor THEN Bad(r) ELSE [r EXCEPT ![side] = c]

\* The part after "fg:" or "bg:".
ApplySided(r, side, s) ==
  CASE s = <<"reset">>       -> IF side = "fg" THEN [r EXCEPT !.fgReset = TRUE]
                                               ELSE [r EXCEPT !.bgReset = TRUE]
    [] ParseColor(s) # NoColor  -> SetColor(r, side, ParseColor(s))
    [] OTHER                 -> Bad(r)

\* One specifier, the text between two of "[", "|" and "]".
ApplySpecifier(r, s) ==
  CASE s = <<"reset">>                           -> [r EXCEPT !.reset = TRUE]
    [] MalformedRgb(s)                           -> Bad(r)
    [] ParseColor(s) # NoColor                      -> SetColor(r, "fg", ParseColor(s))
    [] Len(s) = 1 /\ NameToEmphasis(Head(s))     -> [r EXCEPT !.emphasis = @ \union {Head(s)}]
    [] s # <<>> /\ Head(s) = "fg:"               -> ApplySided(r, "fg", Tail(s))
    [] s # <<>> /\ Head(s) = "bg:"               -> ApplySided(r, "bg", Tail(s))
    [] OTHER                                     -> Bad(r)

\* The check at the end of do_parse.
Contradictory(r) == r.reset /\ (r.fg # NoColor \/ r.emphasis # {})

\* colorizer::colorize: the parameters of one escape sequence.
ColorParams(code, c) == IF c = NoColor THEN <<>> ELSE <<code, "2", c>>
Escape(r) ==
  IF r.reset THEN <<"esc", "0">>
  ELSE <<"esc">> \o EachBit(r.emphasis)
                 \o (IF r.fgReset THEN <<"39">> ELSE <<>>)
                 \o (IF r.bgReset THEN <<"49">> ELSE <<>>)
                 \o ColorParams("38", r.fg) \o ColorParams("48", r.bg)

-----------------------------------------------------------------------------
(* The scanner *)

ColInit ==
  /\ str \in Inputs /\ mode \in Modes
  /\ phase = "scan" /\ pos = 0
  /\ left = Find({"["}, 0) /\ right = Find({"]"}, 0)
  /\ spec = NoSpec /\ out = <<>>

\* on_chars(last): copies the text up to last; the checking scanner does not.
OnChars(last) ==
  out' = IF mode = "check" THEN out
         ELSE out \o [i \in 1..(last - pos) |-> <<str[pos + i]>>]

Throw == phase' = "thrown" /\ UNCHANGED <<str, mode, pos, left, right, spec, out>>

\* No bracket is left.
ScanRest ==
  /\ phase = "scan" /\ Remaining(pos) > 0 /\ left = right
  /\ OnChars(Len(str))
  /\ pos' = Len(str) /\ phase' = "done"
  /\ UNCHANGED <<str, mode, left, right, spec>>

\* The string is used up.
ScanEnd ==
  /\ phase = "scan" /\ Remaining(pos) = 0
  /\ phase' = "done"
  /\ UNCHANGED <<str, mode, pos, left, right, spec, out>>

At(offset) == str[pos + offset + 1]

UnmatchedLeft == left + 1 < Remaining(pos) => (right = NPos /\ At(left + 1) = "[")

ScanUnmatchedLeft ==
  /\ phase = "scan" /\ left < right /\ UnmatchedLeft
  /\ Throw

\* Mutant of ScanLeftEscape: right_bracket is left where it was.
ScanLeftEscape_Stale ==
  /\ phase = "scan" /\ left < right /\ ~UnmatchedLeft /\ At(left + 1) = "["
  /\ OnChars(pos + left + 1)
  /\ pos' = pos + left + 2
  /\ left' = Find({"["}, pos')
  /\ UNCHANGED <<str, mode, phase, right, spec>>

\* "[[" stands for "[": the text up to and with the first is copied, the
\* second is dropped.
ScanLeftEscape ==
  /\ phase = "scan" /\ left < right /\ ~UnmatchedLeft /\ At(left + 1) = "["
  /\ OnChars(pos + left + 1)
  /\ pos' = pos + left + 2
  /\ right' = IF right # NPos THEN right - (left + 2) ELSE right
  /\ left' = Find({"["}, pos')
  /\ UNCHANGED <<str, mode, phase, spec>>

\* A field begins; "[]" is refused by on_replacement_field.
ScanField ==
  /\ phase = "scan" /\ left < right /\ ~UnmatchedLeft /\ At(left + 1) # "["
  /\ OnChars(pos + left)
  /\ pos' = pos + left + 1
  /\ phase' = IF At(left + 1) = "]" THEN "thrown" ELSE "parse"
  /\ spec' = NoSpec
  /\ UNCHANGED <<str, mode, left, right>>

UnmatchedRight == right + 1 < Remaining(pos) => At(right + 1) # "]"

ScanUnmatchedRight ==
  /\ phase = "scan" /\ right < left /\ UnmatchedRight
  /\ Throw

\* "]]" stands for "]".
ScanRightEscape ==
  /\ phase = "scan" /\ right < left /\ ~UnmatchedRight
  /\ OnChars(pos + right + 1)
  /\ pos' = pos + right + 2
  /\ left' = IF left # NPos THEN left - (right + 2) ELSE left
  /\ right' = Find({"]"}, pos')
  /\ UNCHANGED <<str, mode, phase, spec>>

AtFieldEnd == Remaining(pos) > 0 => At(0) = "]"

\* Mutant of ParseSpecifier: the iterator is not moved past the specifier.
ParseSpecifier_Stays ==
  /\ phase = "parse" /\ ~AtFieldEnd
  /\ LET begin == IF At(0) = "|" THEN pos + 1 ELSE pos
         len   == Find({"|", "]"}, begin)
         text  == IF len = NPos THEN Rest(begin) ELSE SubSeq(str, begin + 1, begin + len)
     IN  /\ spec' = ApplySpecifier(spec, text)
         /\ phase' = IF spec'.bad THEN "thrown" ELSE "parse"
         /\ pos' = begin
  /\ UNCHANGED <<str, mode, left, right, out>>

\* One turn of do_parse's loop.  Without a "|" or "]" ahead len is npos, and
\* it += len moves the iterator back by one.
ParseSpecifier ==
  /\ phase = "parse" /\ ~AtFieldEnd
  /\ LET begin == IF At(0) = "|" THEN pos + 1 ELSE pos
         len   == Find({"|", "]"}, begin)
         text  == IF len = NPos THEN Rest(begin) ELSE SubSeq(str, begin + 1, begin + len)
     IN  /\ spec' = ApplySpecifier(spec, text)
         /\ phase' = IF spec'.bad THEN "thrown" ELSE "parse"
         /\ pos' = IF spec'.bad THEN begin
                   ELSE IF len = NPos THEN begin - 1 ELSE begin + len
  /\ UNCHANGED <<str, mode, left, right, out>>

\* The end of do_parse, the escape sequence, and the rest of
\* on_replacement_field.
ParseEnd ==
  /\ phase = "parse" /\ AtFieldEnd
  /\ IF Contradictory(spec) \/ Remaining(pos) = 0
     THEN Throw
     ELSE /\ pos' = pos + 1 /\ phase' = "scan"
          /\ out' = IF mode = "color" THEN Append(out, Escape(spec)) ELSE out
          /\ left' = Find({"["}, pos') /\ right' = Find({"]"}, pos')
          /\ UNCHANGED <<str, mode, spec>>

Ended == phase \in {"done", "thrown"}

ColNext == ScanRest \/ ScanEnd \/ ScanUnmatchedLeft \/ ScanLeftEscape \/ ScanField
          \/ ScanUnmatchedRight \/ ScanRightEscape \/ ParseSpecifier \/ ParseEnd

ColSpec == ColInit /\ [][ColNext]_colVars /\ WF_colVars(ColNext)

-----------------------------------------------------------------------------
(* The markup language, defined on its own *)

\* The first place from p on with one of these tokens, or one past the end.
FirstFrom(s, tokens, p) == Min({i \in p..Len(s) : s[i] \in tokens} \union {Len(s) + 1})

\* The specifiers of a field, by where they begin: behind the "[", or the "|"
\* that may come first, and behind every other "|".
Specifiers(s, open, close) ==
  LET first  == IF s[open + 1] = "|" THEN open + 2 ELSE open + 1
      starts == {first} \union {i \in (first + 1)..close : s[i - 1] = "|"}
  IN  [i \in starts |-> SubSeq(s, i, FirstFrom(s, {"|", "]"}, i) - 1)]

\* Of the words of this module each specifier but the sided ones is one token,
\* and the text after an rgb is ignored.
IsColor(s) == s # <<>> /\ (Head(s) = "rgb" \/ (Len(s) = 1 /\ Head(s) \in {"red", "blue"}))
Sides == {"fg:", "bg:"}
Valid(s) ==
  \/ IsColor(s)
  \/ Len(s) = 1 /\ Head(s) \in Range(Emphases) \union {"reset"}
  \/ s # <<>> /\ Head(s) \in Sides /\ (IsColor(Tail(s)) \/ Tail(s) = <<"reset">>)

Paints(s, side) == \/ side = "fg:" /\ IsColor(s)
                   \/ s # <<>> /\ Head(s) = side /\ IsColor(Tail(s))
ColorName(s) == IF Head(s) \in Sides THEN s[2] ELSE Head(s)
Colors(list, side) == {i \in DOMAIN list : Paints(list[i], side)}

Accepts(list) ==
  LET words == Range(list)
  IN  /\ \A s \in words : Valid(s)
      /\ \A side \in Sides : \A i, j \in Colors(list, side) : i = j
      /\ <<"reset">> \in words =>
           Colors(list, "fg:") = {} /\ \A e \in Range(Emphases) : <<e>> \notin words

Sgr(list) ==
  LET words == Range(list)
      Side(side, code) == IF Colors(list, side) = {} THEN <<>>
                          ELSE LET i == CHOOSE i \in Colors(list, side) : TRUE
                               IN  <<code, "2", ColorName(list[i])>>
      If(word, code) == IF word \in words THEN <<code>> ELSE <<>>
  IN  IF <<"reset">> \in words THEN <<"esc", "0">>
      ELSE <<"esc">> \o (If(<<"bold">>, "1") \o If(<<"italic">>, "3")
                           \o If(<<"reverse">>, "7") \o If(<<"strike">>, "9"))
             \o If(<<"fg:", "reset">>, "39") \o If(<<"bg:", "reset">>, "49")
             \o Side("fg:", "38") \o Side("bg:", "48")

\* The "]" that closes the field at p, and the field's specifiers.
Close(s, p) == FirstFrom(s, {"]"}, p)
FieldAt(s, p) == Specifiers(s, p, Close(s, p))

\* How many tokens belong to what begins at p: a word, an escaped bracket (of
\* which a "[" needs some "]" after it) or a field; none if it is an error.
Doubled(s, p) == p < Len(s) /\ s[p + 1] = s[p]
Width(s, p) ==
  IF s[p] \notin {"[", "]"} THEN 1
  ELSE IF Doubled(s, p) THEN IF s[p] = "[" /\ Close(s, p) > Len(s) THEN 0 ELSE 2
  ELSE IF s[p] = "[" /\ Close(s, p) \in (p + 2)..Len(s) /\ Accepts(FieldAt(s, p))
       THEN Close(s, p) - p + 1
  ELSE 0

\* What it stands for: text, or in colour an escape sequence.
Stands(s, p, m) ==
  IF s[p] = "[" /\ ~Doubled(s, p)
  THEN IF m = "color" THEN <<Sgr(FieldAt(s, p))>> ELSE <<>>
  ELSE <<<<s[p]>>>>

\* What a string means from each place on: what is written for it up to the
\* first error, and whether there is one.
Meanings(s, m) ==
  LET from[p \in 1..(Len(s) + 1)] ==
        IF p > Len(s) \/ Width(s, p) = 0 THEN [text |-> <<>>, error |-> p <= Len(s)]
        ELSE [text  |-> Stands(s, p, m) \o from[p + Width(s, p)].text,
              error |-> from[p + Width(s, p)].error]
  IN  from
Meaning(s, m) == Meanings(s, m)[1]

-----------------------------------------------------------------------------
\* What the scanners write is the string's meaning: at any time a beginning of
\* it, all of it when scan() returns, which it does exactly when the markup has
\* no error; without colours the escape sequences are left out, and the check
\* at compile time refuses exactly what the other two refuse.
OutputExact ==
  LET meaning == Meaning(str, mode)
  IN  /\ mode # "check" => IsPrefix(out, meaning.text)
      /\ phase = "done" => ~meaning.error /\ (mode # "check" => out = meaning.text)
      /\ phase = "thrown" => meaning.error

\* Every field that is opened, that is each "[" but those in an escape, has a
\* "]" after it.
Unclosed(s) ==
  LET from[p \in 1..(Len(s) + 1)] ==
        /\ p <= Len(s)
        /\ IF s[p] = "[" /\ Doubled(s, p) THEN from[p + 2]
           ELSE (s[p] = "[" /\ Close(s, p) > Len(s)) \/ from[p + 1]
  IN  from[1]

\* scan() comes to an end on every string whose fields are closed.
ScanEnds == (~Unclosed(str)) ~> Ended

\* A field that is not closed is reported ("unmatched left brace").
UnclosedReported == <>Ended
=============================================================================
