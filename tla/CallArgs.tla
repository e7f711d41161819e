------------------------------- MODULE CallArgs -------------------------------
(***************************************************************************)
(* fncalls_checks/: the checks of one printed call, over the C splitter of *)
(* its arguments (checks-utils.c), and the splitter the scripts have of    *)
(* their own (scripts/pahaggar/parser.py).  Both find the arguments in the *)
(* text of a call by counting parentheses.                                 *)
(*                                                                         *)
(* A call is given as the sequence of its arguments, which GimpleText      *)
(* prints; its text puts parentheses around them and ", " between.  Every  *)
(* character the splitters look at is a lexeme of its own, and so are the  *)
(* blanks they skip; a <tag>, a word and a number are one each.  A place   *)
(* in a text counts from 1, 0 is NULL, and the Nul is in place Len + 1.    *)
(* The matcher (fncalls-match.c) hands a check what it cuts out of the     *)
(* line of the call, which need not be all of the call.                    *)
(***************************************************************************)
EXTENDS GimpleText

CONSTANTS
  Operands,    \* the arguments a call may have: leaves and statements
  MaxArgs,     \* the bound on the arguments of a call
  Tags,        \* the lexemes that are tags
  TmpBuf,      \* TMPBUF_SIZE, in lexemes
  Shortened,   \* the lexemes of more than one character, without the last
  CreatFlags,  \* the values with O_CREAT
  ULong,       \* the values of an unsigned long
  LooseModes,  \* the values with a bit of S_IRWXO or S_IXGRP
  PointerSize  \* __SIZEOF_POINTER__

Bracket == "["

(* The lexemes no splitter looks for. *)
Plain == Lexeme \ {"(", ")", Comma}

(* The tags and the numbers are plain, a number is one and no tag, and the *)
(* operators of GIMPLE have neither commas nor parentheses.                *)
ASSUME WordsAssumption ==
  /\ {IntCst, "<pointer_type>"} \subseteq Tags
  /\ DOMAIN Digits \subseteq Int
  /\ Digits \in [DOMAIN Digits -> Plain \ ({Blank, Bracket} \cup Tags)]
  /\ \A m, n \in DOMAIN Digits : Digits[m] = Digits[n] => m = n
  /\ Symbol \in [DOMAIN Symbol -> Seq(Plain)]
  /\ {ULong, PointerSize} \subseteq Nat \ {0} /\ ULong % 2 = 0

(* What a lexeme leaves is none the splitters look for. *)
ASSUME BufferAssumption ==
  /\ TmpBuf \in Nat \ {0}
  /\ DOMAIN Shortened \subseteq Plain \ {Blank, Bracket}
  /\ Shortened \in [DOMAIN Shortened -> Plain \ {Blank, Bracket}]

VARIABLES
  call,      \* the arguments printed so far
  check,     \* the last check made of the call, "none" for none yet
  verdict    \* what it returned and wrote

vars == <<call, check, verdict>>

CallText(args) == Parenthesized(Listed(args))

(* strtol and strtoul.  What follows the digits is not looked at; a number *)
(* out of range gives the limit next to it, and ERANGE.  An unsigned long  *)
(* is read with a sign, too, and counts up from there.                     *)
Numerals == {Digits[n] : n \in DOMAIN Digits}

NumberIn(numeral) == CHOOSE n \in DOMAIN Digits : Digits[n] = numeral

ERANGE == 34
Long == (-(ULong \div 2))..(ULong \div 2 - 1)
SignedULong == (1 - ULong)..(ULong - 1)

strtol(numeral) ==
  LET n == NumberIn(numeral) IN
  IF n \in Long THEN [value |-> n, errno |-> 0]
  ELSE [value |-> IF n < 0 THEN -(ULong \div 2) ELSE ULong \div 2 - 1, errno |-> ERANGE]

strtoul(numeral) ==
  LET n == NumberIn(numeral) IN
  IF n \in SignedULong THEN [value |-> n % ULong, errno |-> 0]
  ELSE [value |-> ULong - 1, errno |-> ERANGE]

Count(text, from, to, c) == Cardinality({p \in from..to : text[p] = c})

(* `subcalls' when a scan that began in one place comes to another. *)
Depth(text, from, p) == Count(text, from, p - 1, "(") - Count(text, from, p - 1, ")")

(* Parentheses in pairs. *)
Balanced(arg) ==
  /\ Count(arg, 1, Len(arg), "(") = Count(arg, 1, Len(arg), ")")
  /\ \A p \in DOMAIN arg : Depth(arg, 1, p + 1) >= 0

(* The numbers of an INTEGER_CST, which has two words. *)
Values(unsigned) ==
  IF unsigned THEN 0..(Word * Word - 1)
  ELSE (-(Word * (Word \div 2)))..(Word * (Word \div 2) - 1)

Constants ==
  {c \in [kind : {"int"}, wide : BOOLEAN, value : Int,
          type : [unsigned : BOOLEAN, long : {"none", "l", "ll"}, pointer : BOOLEAN]] :
     c.value \in Values(c.type.unsigned) /\ __get_int_cst(c) \in DOMAIN Digits}

Leaves ==
  [kind : {"name"}, code : STRING, text : Seq(Lexeme)]
    \cup Constants \cup [kind : {"string"}, chars : Seq(Lexeme)]

(* How many operands a statement has. *)
Arity == [unary |-> {1}, binary |-> {2}, ternary |-> {3}, nop |-> {1},
          phi |-> Nat \ {0}, call |-> Nat]

(* Those of unary and binary ones have a symbol, an empty one perhaps. *)
Statements ==
  {s \in [kind : DOMAIN Arity, code : Plain, ops : Seq(Leaves), cast : Seq(Lexeme)] :
     /\ Len(s.ops) \in Arity[s.kind]
     /\ s.kind \in {"unary", "binary"} => s.code \in DOMAIN Symbol}

(* The name of a type has its parentheses in pairs. *)
ASSUME OperandsAssumption ==
  /\ MaxArgs \in Nat
  /\ Operands \subseteq Leaves \cup Statements
  /\ \A arg \in Operands \cap Statements : Balanced(arg.cast)

(* Mutant of EndOfArg: a comma inside a call ends the argument around it. *)
EndAtAnyComma(text, from) ==
  LET stop == {p \in from..Len(text) :
                 text[p] = Comma \/ (text[p] = ")" /\ Depth(text, from, p) = 0)}
  IN IF stop = {} THEN Len(text) + 1 ELSE CHOOSE p \in stop : \A q \in stop : p <= q

(* Where the loop over an argument ends: the first comma or parenthesis    *)
(* that is not inside a call, or the Nul.                                  *)
EndOfArg(text, from) ==
  LET stop == {p \in from..Len(text) :
                 text[p] \in {Comma, ")"} /\ Depth(text, from, p) = 0}
  IN IF stop = {} THEN Len(text) + 1 ELSE CHOOSE p \in stop : \A q \in stop : p <= q

(***************************************************************************)
(* checks-utils.c.                                                         *)
(***************************************************************************)
(* Mutant of AfterArg: the step over the comma is taken at the end, too. *)
AfterAnyEnd(text, e) == e + 2

(* Over the comma and the blank; a parenthesis is left for the next call. *)
AfterArg(text, e) == IF e <= Len(text) /\ text[e] = Comma THEN e + 2 ELSE e

(* The argument at an offset, and the offset of the next. *)
get_next_arg(text, offset) ==
  LET p == IF offset = 1 THEN 2 ELSE offset IN
  IF offset = 0 \/ p > Len(text) \/ text[p] = ")"
  THEN [ptr |-> 0, offset |-> 0]
  ELSE [ptr |-> p, offset |-> AfterArg(text, EndOfArg(text, p))]

(* What the first n calls of a loop over get_next_arg return and leave. *)
Walk(text, n) ==
  LET walk[k \in 0..n] ==
        IF k = 0 THEN <<>>
        ELSE LET before == walk[k - 1]
                 offset == IF before = <<>> THEN 1 ELSE Last(before).offset
             IN Append(before, get_next_arg(text, offset))
  IN walk[n]

get_args_nr(text) ==
  SelectInSeq(Walk(text, Len(text)), LAMBDA step : step.ptr = 0) - 1

(* Mutant of call_start_at_arg: the last argument, if there are fewer. *)
LastAtArg(text, arg_idx) ==
  LET step == Walk(text, arg_idx)  found == {step[k].ptr : k \in DOMAIN step} IN
  IF found = {} THEN 0 ELSE CHOOSE p \in found : \A q \in found : q <= p

call_start_at_arg(text, arg_idx) ==
  IF arg_idx > 0 THEN Last(Walk(text, arg_idx)).ptr ELSE 0

(* The first word of an argument that is not in parentheses. *)
get_arg_value(text, arg) ==
  LET end == EndOfArg(text, arg)
      words == {p \in arg..(end - 1) :
                  text[p] \notin {"(", ")", Comma, Blank} \cup Tags /\ Depth(text, arg, p) = 0}
  IN IF words = {} THEN 0 ELSE CHOOSE p \in words : \A q \in words : p <= q

(***************************************************************************)
(* mem-checks.c, malloc-checks.c, file-checks.c.                           *)
(***************************************************************************)
NoMatch == [match |-> FALSE, msg |-> "none"]
Matched(msg) == [match |-> TRUE, msg |-> msg]

(* The place of the value of an argument that is an integer constant. *)
mem_to_int_cst_size(text, arg_idx) ==
  LET p == call_start_at_arg(text, arg_idx) IN
  IF p # 0 /\ p < Len(text) /\ text[p] = IntCst /\ text[p + 1] = Blank
  THEN get_arg_value(text, p) ELSE 0

(* Mutant of Unread: errno is not looked at. *)
NoDigits(word, read) == word \notin Numerals

(* The conversion has found no digits, or has set errno. *)
Unread(word, read) == word \notin Numerals \/ read.errno # 0

(* Mutant of chk_memory_size: it returns REG_NOMATCH with a message. *)
SizeIsNoMatch(size) ==
  [match |-> size >= PointerSize, msg |-> IF size = 0 THEN "zero" ELSE "none"]

chk_memory_size(size) ==
  Matched(IF size = 0 THEN "zero"
          ELSE IF size < PointerSize THEN "small"
          ELSE IF size = PointerSize THEN "pointer" ELSE "none")

mem_chk_common_size(text, arg_idx) ==
  LET p == mem_to_int_cst_size(text, arg_idx) IN
  IF p = 0 \/ Unread(text[p], strtoul(text[p])) THEN NoMatch
  ELSE chk_memory_size(strtoul(text[p]).value)

mem_size_arg ==
  [memset |-> 3, memcpy |-> 3, strncpy |-> 3, strncat |-> 3, memmove |-> 3, memcmp |-> 3]

malloc_size_arg ==
  [malloc |-> 1, kmalloc |-> 1, kzalloc |-> 1, strndup |-> 2, strndupa |-> 2]

open_to_int_cst_arg(text, arg_idx) == mem_to_int_cst_size(text, arg_idx)

open_assumes_file_exists(text) ==
  IF get_args_nr(text) = 2 THEN Matched("none") ELSE NoMatch

open_needs_mode_arg(text) ==
  LET p == open_to_int_cst_arg(text, 2) IN
  IF /\ get_args_nr(text) # 3
     /\ p # 0 /\ ~Unread(text[p], strtol(text[p]))
     /\ strtol(text[p]).value \in CreatFlags
  THEN Matched("none") ELSE NoMatch

(* The flags are only converted; a mode is reported if it is loose. *)
open_chk_flag_mode(text) ==
  LET flag == open_to_int_cst_arg(text, 2)
      mode == open_to_int_cst_arg(text, 3)
  IN IF \/ flag # 0 /\ Unread(text[flag], strtol(text[flag]))
        \/ mode # 0 /\ Unread(text[mode], strtoul(text[mode]))
     THEN NoMatch
     ELSE IF mode = 0 THEN Matched("none")
     ELSE IF strtoul(text[mode]).value \in LooseModes THEN Matched("mode") ELSE NoMatch

(* The callback of the tables that a check names. *)
Run(name, text) ==
  CASE name = "open_assumes_file_exists" -> open_assumes_file_exists(text)
    [] name = "open_needs_mode_arg" -> open_needs_mode_arg(text)
    [] name = "open_chk_flag_mode" -> open_chk_flag_mode(text)
    [] name \in DOMAIN mem_size_arg -> mem_chk_common_size(text, mem_size_arg[name])
    [] name \in DOMAIN malloc_size_arg -> mem_chk_common_size(text, malloc_size_arg[name])

Checks ==
  {"open_assumes_file_exists", "open_needs_mode_arg", "open_chk_flag_mode"}
    \cup DOMAIN mem_size_arg \cup DOMAIN malloc_size_arg

(***************************************************************************)
(* regexp_match_cargs (fncalls-match.c).                                   *)
(***************************************************************************)
(* How much of a line is copied: what is in front of the first "[", as far *)
(* as the buffer goes.                                                     *)
Copied(line) ==
  LET end == CHOOSE p \in DOMAIN line :
               line[p] = Bracket /\ \A q \in 1..(p - 1) : line[q] # Bracket
  IN IF end - 1 > TmpBuf THEN TmpBuf ELSE end - 1

(* The Nul is written over the last character that was copied. *)
tmp_buffer(line) ==
  LET last == line[Copied(line)] IN
  SubSeq(line, 1, Copied(line) - 1)
    \o (IF last \in DOMAIN Shortened THEN <<Shortened[last]>> ELSE <<>>)

(* The walk goes behind the Nul.  There is the zero of the memset, but for *)
(* a full buffer, behind which it finds whatever there is.                 *)
Overruns(line) ==
  LET text == tmp_buffer(line)  step == Walk(text, Len(text)) IN
  Copied(line) = TmpBuf /\ \E k \in DOMAIN step : step[k].offset > Len(text) + 1

Messages == {"none", "zero", "small", "pointer", "mode"}

Outcomes(name, line) ==
  IF Overruns(line) THEN {NoMatch} \cup {Matched(msg) : msg \in Messages}
  ELSE {Run(name, tmp_buffer(line))}

(* What is printed for the arguments of the call, for all of it, and up to *)
(* the location behind it.                                                 *)
Printed == [i \in DOMAIN call |-> ArgText(call[i])]

Text == CallText(Printed)

Line == Text \o <<Blank, Bracket>>

Init == call = <<>> /\ check = "none" /\ verdict = NoMatch

(* The plugin prints one more argument. *)
PrintArg ==
  /\ check = "none" /\ Len(call) < MaxArgs
  /\ \E arg \in Operands : call' = Append(call, arg)
  /\ UNCHANGED <<check, verdict>>

(* The matcher hands what it cut out to the callback of a pattern; neither *)
(* keeps anything, and another one would start as the first did.           *)
regexp_match_cargs ==
  /\ check = "none"
  /\ check' \in Checks
  /\ verdict' \in Outcomes(check', Line)
  /\ UNCHANGED call

(* The matcher comes to the next call. *)
NextCall ==
  /\ check # "none"
  /\ call' = <<>> /\ check' = "none" /\ verdict' = NoMatch

Next == PrintArg \/ regexp_match_cargs \/ NextCall

Spec == Init /\ [][Next]_vars

(***************************************************************************)
(* scripts/pahaggar/parser.py.  Its indices count from 0; places do here,  *)
(* too, from 1, so that offset 0 of the script is place 1.                 *)
(***************************************************************************)
NoArg == [end |-> 1, arg |-> <<>>]

(* Without a parenthesis the loop stops at the last character. *)
PyEndOfArg(text, from) ==
  LET end == EndOfArg(text, from) IN IF end > Len(text) THEN Len(text) ELSE end

PyArg(text, idx, from) ==
  LET end == PyEndOfArg(text, from) IN
  IF text[idx] = ")" THEN NoArg ELSE [end |-> end, arg |-> SubSeq(text, from, end - 1)]

(* Mutant of py_get_next_arg: the blank after a comma stays in front. *)
PyKeepsBlank(text, offset) ==
  LET idx == IF offset = 1 THEN 2 ELSE offset IN
  PyArg(text, idx, IF text[idx] = Comma THEN idx + 1 ELSE idx)

py_get_next_arg(text, offset) ==
  LET idx == IF offset = 1 THEN 2 ELSE offset IN
  PyArg(text, idx, IF text[idx] = Comma THEN idx + 2 ELSE idx)

(* The arguments up to the first that is not found or has no text, and up  *)
(* to max_args of them if that is not 0.                                   *)
py_get_call_args(text, max_args) ==
  LET args[k \in 0..Len(text)] ==
        IF k = 0 THEN [offset |-> 1, found |-> <<>>, more |-> TRUE]
        ELSE LET before == args[k - 1]
                 next == py_get_next_arg(text, before.offset)
             IN IF before.more /\ next.arg # <<>>
                THEN [offset |-> next.end, found |-> Append(before.found, next.arg),
                      more |-> max_args = 0 \/ k < max_args]
                ELSE [before EXCEPT !.more = FALSE]
  IN args[Len(text)].found

(***************************************************************************)
(* Properties.                                                             *)
(***************************************************************************)
(* Every variable has its type, and a callback that returns REG_NOMATCH    *)
(* has written nothing for the matcher to print.                           *)
TypeOK ==
  /\ call \in Seq(Operands) /\ Len(call) <= MaxArgs
  /\ check \in Checks \cup {"none"}
  /\ verdict \in [match : BOOLEAN, msg : Messages]
  /\ ~verdict.match => verdict.msg = "none"

(* Parentheses in pairs, and commas only between them. *)
Splittable(arg) ==
  Balanced(arg) /\ \A p \in DOMAIN arg : arg[p] = Comma => Depth(arg, 1, p) > 0

(* The leaves of an argument. *)
LeavesOf(arg) ==
  IF arg.kind \in {"name", "int", "string"} THEN {arg} ELSE {arg.ops[i] : i \in DOMAIN arg.ops}

LeavesSplittable ==
  \A i \in DOMAIN call : \A leaf \in LeavesOf(call[i]) : Splittable(Leaf(leaf))

LastHasText == call # <<>> => Last(Printed) # <<>>

(* One word is printed of a constant of a wide host or a pointer, and on a *)
(* narrow host of a signed one whose high word is 0 or -1: right for those *)
(* that fit.  A pointer is read as the signed number it is printed as.     *)
OneWord(type) ==
  IF type.unsigned /\ ~type.pointer THEN 0..(Word - 1) ELSE (-(Word \div 2))..(Word \div 2 - 1)

Misprinted(c) ==
  /\ c.wide \/ c.type.pointer \/ (~c.type.unsigned /\ High(c) \in {0, -1})
  /\ c.value \notin OneWord(c.type)

(* What is printed of a constant argument is read back as that constant,   *)
(* by strtol if it fits in a long and by strtoul if, without its sign, it  *)
(* fits in an unsigned long; of any other constant both say that it does   *)
(* not, so that no limit is taken for it (nodes-utils.c:352).              *)
ConstantsReadBack ==
  check = "none" =>
    \A i \in DOMAIN call :
      call[i].kind = "int" /\ ~Misprinted(call[i]) =>
        LET text == Printed[i]  p == get_arg_value(text, 1)  n == call[i].value IN
        /\ p # 0 /\ text[p] \in Numerals
        /\ strtol(text[p]).errno = 0 <=> n \in Long
        /\ n \in Long => strtol(text[p]).value = n
        /\ strtoul(text[p]).errno = 0 <=> n \in SignedULong
        /\ n \in SignedULong => strtoul(text[p]).value = IF n < 0 THEN n + ULong ELSE n

(* No "[" in the call but that of its location, and room in the buffer. *)
HandedWhole ==
  LET text == Text IN Len(text) < TmpBuf /\ \A p \in DOMAIN text : text[p] # Bracket

(* The place after the parenthesis, the arguments before and their commas. *)
StartOf(k) == Len(CallText(SubSeq(Printed, 1, k - 1))) + (IF k = 1 THEN 0 ELSE 2)

(* In a call that is handed over whole, the splitter of the checks         *)
(* (checks-utils.c) finds every argument, an empty one too, where it was   *)
(* printed, none after the last, and as many as there are, whatever calls  *)
(* and casts are nested in them; only an empty argument at the end goes    *)
(* unseen.                                                                 *)
CSplits ==
  check = "none" /\ HandedWhole /\ LeavesSplittable /\ LastHasText =>
    LET text == tmp_buffer(Line) IN
    /\ get_args_nr(text) = Len(call)
    /\ \A k \in 0..(MaxArgs + 1) :
         call_start_at_arg(text, k) = IF k \in DOMAIN call THEN StartOf(k) ELSE 0

(* The splitter of the scripts (parser.py) returns the arguments that were *)
(* printed, up to as many as it is asked for, if none of them is empty.    *)
PySplits ==
  check = "none" /\ LeavesSplittable /\ (\A i \in DOMAIN call : Printed[i] # <<>>) =>
    \A max \in 0..(MaxArgs + 1) :
      py_get_call_args(Text, max)
        = IF max = 0 \/ max > Len(call) THEN Printed ELSE SubSeq(Printed, 1, max)

(* The character behind the comma is the one the Nul is written over. *)
CutBehindComma ==
  LET n == Copied(Line) IN
  n > 1 /\ Line[n - 1] = Comma /\ Line[n] \notin DOMAIN Shortened

(* Wherever the text was cut, in an array reference, a string or at the    *)
(* end of the buffer, and whatever commas and parentheses a string has,    *)
(* the walk (checks-utils.c:57) stays in the text and its Nul, but for a   *)
(* cut right behind a comma, where it ends one place further; as long as   *)
(* the buffer is not full, that is in the buffer, too.                     *)
OffsetsInText ==
  check = "none" =>
    LET text == tmp_buffer(Line)
        step == Walk(text, Len(text))
        last == Len(text) + (IF CutBehindComma THEN 2 ELSE 1)
    IN /\ \A k \in DOMAIN step : step[k].ptr <= Len(text) /\ step[k].offset <= last
       /\ Copied(Line) < TmpBuf => last <= TmpBuf

(* A pointer has its type in front of the number: it is no size or flag.   *)
IsConstant(k) == k \in DOMAIN call /\ call[k].kind = "int" /\ ~call[k].type.pointer

(* Text that begins with a constant and is an expression: "4 - n".  The    *)
(* checks take it for the constant.                                        *)
ConstantInFront(k) == Printed[k] # <<>> /\ Printed[k][1] = IntCst /\ ~IsConstant(k)

SizeVerdict(k) ==
  IF ~IsConstant(k) \/ call[k].value \notin SignedULong THEN NoMatch
  ELSE LET n == call[k].value % ULong IN
       Matched(CASE n = 0 -> "zero"
                 [] n \in 1..(PointerSize - 1) -> "small"
                 [] n = PointerSize -> "pointer"
                 [] OTHER -> "none")

(* Of a call that is handed over whole, a check decides by the value of    *)
(* the argument it is about, if that is in range, and by no other one: the *)
(* size of the memory functions if it is a constant, the mode of open() or *)
(* the lack of one.                                                        *)
VerdictRight ==
  HandedWhole /\ LeavesSplittable /\ LastHasText
  /\ (\A k \in DOMAIN call : ~ConstantInFront(k) /\ (IsConstant(k) => ~Misprinted(call[k]))) =>
    CASE check = "none" -> verdict = NoMatch
      [] check = "open_assumes_file_exists" -> verdict.match <=> Len(call) = 2
      [] check = "open_needs_mode_arg" ->
           verdict.match <=>
             Len(call) # 3 /\ IsConstant(2) /\ call[2].value \in CreatFlags \cap Long
      [] check = "open_chk_flag_mode" ->
           /\ verdict.match <=>
                /\ IsConstant(2) => call[2].value \in Long
                /\ IsConstant(3) =>
                     call[3].value \in SignedULong /\ call[3].value % ULong \in LooseModes
           /\ verdict.msg = "mode" <=> verdict.match /\ IsConstant(3)
      [] check \in {"malloc", "kmalloc", "kzalloc"} -> verdict = SizeVerdict(1)
      [] check \in {"strndup", "strndupa"} -> verdict = SizeVerdict(2)
      [] OTHER -> verdict = SizeVerdict(3)

(* A "[" in the arguments may hide some of them from a check, so that it   *)
(* counts fewer, but no check takes another argument, or a part of one,    *)
(* for the one it is about: the sizes, flags and modes it reports of a     *)
(* call that fits in the buffer are those of the call (checks-utils.c).    *)
CutOnlyHides ==
  Len(Text) < TmpBuf /\ LeavesSplittable /\ LastHasText
  /\ (\A k \in DOMAIN call : ~ConstantInFront(k) /\ (IsConstant(k) => ~Misprinted(call[k])))
  /\ verdict.match =>
    CASE check = "open_assumes_file_exists" -> Len(call) >= 2
      [] check = "open_needs_mode_arg" ->
           IsConstant(2) /\ call[2].value \in CreatFlags \cap Long
      [] check = "open_chk_flag_mode" ->
           verdict.msg = "mode" =>
             /\ IsConstant(3)
             /\ call[3].value \in SignedULong /\ call[3].value % ULong \in LooseModes
      [] check \in {"malloc", "kmalloc", "kzalloc"} -> verdict = SizeVerdict(1)
      [] check \in {"strndup", "strndupa"} -> verdict = SizeVerdict(2)
      [] OTHER -> verdict = SizeVerdict(3)
=============================================================================
