---------------------------- MODULE LogChecker ----------------------------
(***************************************************************************)
(* The scripts that check call logs (fncalls_check.py and the modules it   *)
(* imports), reading logs that compilations may still be writing.          *)
(*                                                                         *)
(* A lexeme is a pair of a kind and a name:                                *)
(*   "decl"   the front of a line "<function_decl> f(...)"                 *)
(*   "call"   a blank, the address and the text of a call of that name     *)
(*   "loc"    the location that ends such a line, with its newline         *)
(*   "nl"     a newline behind anything else                               *)
(*   "text"   whatever else there is                                       *)
(* A line is what the file iterator of Python returns: lexemes up to the   *)
(* first that ends in a newline, or up to the end of the file.  The writer *)
(* of functions is a plugin whose main file is not in the repository; it   *)
(* writes as ahaggar-ast.c does, one function at a time.                   *)
(***************************************************************************)
EXTENDS LogFile, Selecting, SequencesExt

CONSTANTS
  Arguments,    \* the names given on the command line
  Selections,   \* the lists of calls that -c can give
  Exports       \* the functions the check modules export

(* is_compiled_call looks for str(None) when get_fnname found no name. *)
ASSUME CheckerAssumption == "None" \notin Exports /\ Arguments \subseteq Names

VARIABLES
  status,       \* where fncalls_check.py is: "new", "run", "exit"
  selected,     \* the calls to check, args of Fncalls
  todo,         \* the files still to process
  input,        \* the file being read and how far, or NoInput
  parsed,       \* the parser: the calls so far, and the function being read
  nr_files,     \* the files processed
  result,       \* what run returns
  checked       \* history: for each file processed, what was checked

checkerVars == <<status, selected, todo, input, parsed, nr_files, result, checked>>

allVars == <<vars, checkerVars>>

ALL_COMPILED_FUNCTIONS == "*"

NoInput == [name |-> NoFile, file |-> NoFile, pos |-> 0]

(***************************************************************************)
(* FncallsCompile: which of the selected calls there is a check for.       *)
(***************************************************************************)
Selects(sel, call) == \E i \in DOMAIN sel : sel[i] = call

is_compiled_call(call) ==
  call \in Exports /\ (Selects(selected, ALL_COMPILED_FUNCTIONS) \/ Selects(selected, call))

(***************************************************************************)
(* FncallsParser.                                                          *)
(***************************************************************************)
EndsLine(lexeme) == lexeme[1] \in {"loc", "nl"}

(* The next line of text behind pos: at least one lexeme, and a newline at *)
(* its end unless the text has none.                                       *)
NextLine(text, pos) ==
  LET rest == SubSeq(text, pos + 1, Len(text))
      end == SelectInSeq(rest, EndsLine)
  IN SubSeq(rest, 1, IF end > 0 THEN end ELSE Len(rest))

Blank == <<<<"nl", "">>>>

(* A function as it is printed: its declaration, lines of calls that end   *)
(* in a location, and a blank line, the only one; see                      *)
(* doc/main.c.237.ahaggar_fncalls.log.                                     *)
FunctionText(text) ==
  LET n == Len(text) IN
  /\ n > 1 /\ text[1][1] = "decl" /\ text[n - 1][1] = "loc" /\ text[n] = Blank[1]
  /\ \A i \in 2..n : text[i][1] # "decl"
  /\ \A i \in 2..(n - 1) : text[i] = Blank[1] => ~EndsLine(text[i - 1])

(* Nor is there a declaration in what is written between functions. *)
ASSUME PrintedAssumption ==
  /\ \A p \in Procs : \A i \in DOMAIN Records[p] : FunctionText(Records[p][i])
  /\ \A text \in {Header, Prefix, Message, Newline} :
       \A i \in DOMAIN text : text[i][1] # "decl"

next_is_subcall(line) == line[Len(line)][1] # "loc"

get_fnname(line) == IF line[1][1] = "call" THEN line[1][2] ELSE "None"

(* A function being read: its lines so far, and a line to be continued.    *)
NoFunction == [new |-> FALSE, lines |-> <<>>, subcall |-> <<>>]

(* Mutant of AddLine: only the last line of a call is kept. *)
AddLineLast(now, line) ==
  IF next_is_subcall(line)
  THEN [now EXCEPT !.new = TRUE, !.subcall = line]
  ELSE [new |-> TRUE, lines |-> Append(now.lines, line), subcall |-> <<>>]

(* A line of a function: alone, or behind and in front of others that make *)
(* one call together.                                                      *)
AddLine(now, line) ==
  IF next_is_subcall(line)
  THEN [now EXCEPT !.new = TRUE, !.subcall = @ \o line]
  ELSE [new |-> TRUE, lines |-> Append(now.lines, now.subcall \o line), subcall |-> <<>>]

(* Mutant of parse_input_calls: what was read of a function is kept. *)
parse_keeps(p, line) ==
  CASE p.now.new /\ line = Blank ->
         [calls |-> Append(p.calls, p.now.lines), now |-> [p.now EXCEPT !.new = FALSE]]
    [] (p.now.new /\ line # Blank) \/ line[1][1] = "decl" ->
         [p EXCEPT !.now = AddLine(@, line)]
    [] OTHER -> p

(* A blank line hands the function on; without one it never is.            *)
parse_input_calls(p, line) ==
  CASE p.now.new /\ line = Blank ->
         [calls |-> Append(p.calls, p.now.lines), now |-> NoFunction]
    [] (p.now.new /\ line # Blank) \/ line[1][1] = "decl" ->
         [p EXCEPT !.now = AddLine(@, line)]
    [] OTHER -> p

(* The lines of a function, behind its declaration, that have a check. *)
Compiled(lines) ==
  Kept([i \in DOMAIN lines |-> i],
       {i \in DOMAIN lines \ {1} : is_compiled_call(get_fnname(lines[i]))})

(* Mutant of check_fncalls: only calls that have a check are counted. *)
check_counts_checked(lines) ==
  LET indices == Compiled(lines)
  IN [k \in DOMAIN indices |-> [idx |-> k, call |-> lines[indices[k]]]]

(* check_fncalls: the calls of a function that have a check, as the index  *)
(* the check is told and the call it is given.                             *)
check_fncalls(lines) ==
  LET indices == Compiled(lines)
  IN [k \in DOMAIN indices |-> [idx |-> indices[k] - 1, call |-> lines[indices[k]]]]

(***************************************************************************)
(* Input and Fncalls.run.                                                  *)
(***************************************************************************)
CheckerInit ==
  /\ status = "new"
  /\ selected \in Selections
  /\ todo = {} /\ input = NoInput
  /\ parsed = [calls |-> <<>>, now |-> NoFunction]
  /\ nr_files = 0 /\ result = 0
  /\ checked = <<>>

IsFile(name) == entry[name] \in Files

(* run asks is_compiled_call of every call of the list, also of a "*" that *)
(* is not its first: it refuses that list, though it selects every check.  *)
NothingSelected ==
  /\ selected[1] # ALL_COMPILED_FUNCTIONS
  /\ \A i \in DOMAIN selected : ~is_compiled_call(selected[i])

(* The files are looked for before the selected calls are compiled. *)
run ==
  /\ status = "new"
  /\ todo' = {a \in Arguments : IsFile(a)}
  /\ IF NothingSelected
     THEN status' = "exit" /\ result' = -1
     ELSE status' = "run" /\ result' = 0
  /\ UNCHANGED <<selected, input, parsed, nr_files, checked>>

open_input(name) ==
  /\ status = "run" /\ input = NoInput /\ name \in todo
  /\ IsFile(name)
  /\ todo' = todo \ {name}
  /\ input' = [name |-> name, file |-> entry[name], pos |-> 0]
  /\ parsed' = [calls |-> <<>>, now |-> NoFunction]
  /\ UNCHANGED <<status, selected, nr_files, result, checked>>

(* What was a file when it was looked for is none any more, or may not be  *)
(* read.                                                                   *)
open_input_fails(name) ==
  /\ status = "run" /\ input = NoInput /\ name \in todo
  /\ todo' = todo \ {name}
  /\ UNCHANGED <<status, selected, input, parsed, nr_files, result, checked>>

Text == content[input.file]

read_line ==
  /\ input # NoInput /\ input.pos < Len(Text)
  /\ LET line == NextLine(Text, input.pos) IN
     /\ parsed' = parse_input_calls(parsed, line)
     /\ input' = [input EXCEPT !.pos = @ + Len(line)]
  /\ UNCHANGED <<status, selected, todo, nr_files, result, checked>>

(* The end of the file: process_fncalls checks what was read. *)
process_fncalls ==
  /\ input # NoInput /\ input.pos >= Len(Text)
  /\ checked' = Append(checked,
       [file |-> input.file, upto |-> input.pos, calls |-> parsed.calls,
        hits |-> [i \in DOMAIN parsed.calls |-> check_fncalls(parsed.calls[i])]])
  /\ nr_files' = nr_files + 1
  /\ input' = NoInput
  /\ UNCHANGED <<status, selected, todo, parsed, result>>

run_returns ==
  /\ status = "run" /\ input = NoInput /\ todo = {}
  /\ status' = "exit"
  /\ result' = IF nr_files = 0 THEN -1 ELSE 0
  /\ UNCHANGED <<selected, todo, input, parsed, nr_files, checked>>

CheckerStep ==
  \/ run
  \/ \E name \in Arguments : open_input(name) \/ open_input_fails(name)
  \/ read_line \/ process_fncalls \/ run_returns

(* Compilations and the checker side by side, until the checker is done:   *)
(* what is written later is nothing to it.                                 *)
LogsInit == Init /\ CheckerInit

LogsNext ==
  \/ status # "exit" /\ Next /\ UNCHANGED checkerVars
  \/ CheckerStep /\ UNCHANGED vars

LogsSpec == LogsInit /\ [][LogsNext]_allVars

(***************************************************************************)
(* Correctness.                                                            *)
(***************************************************************************)
(* The types of both; the checker reads at most one file, only while it    *)
(* runs, and counts the files it read.                                     *)
CheckerTypeOK ==
  /\ TypeOK
  /\ status \in {"new", "run", "exit"}
  /\ input # NoInput => status = "run" /\ input.file \in Files
  /\ input.pos \in Nat /\ nr_files = Len(checked)
  /\ todo \subseteq Arguments /\ result \in {-1, 0}
  /\ ~parsed.now.new => parsed.now = NoFunction

(* A text of a function, cut behind each location. *)
Calls(text) ==
  LET ends == Kept([i \in DOMAIN text |-> i], {i \in DOMAIN text : text[i][1] = "loc"})
  IN [k \in DOMAIN ends |->
        SubSeq(text, IF k = 1 THEN 1 ELSE ends[k - 1] + 1, ends[k])]

IsSubsequence(s, t) ==
  \E at \in [DOMAIN s -> DOMAIN t] :
    /\ \A i \in DOMAIN s : s[i] = t[at[i]]
    /\ \A i, j \in DOMAIN s : i < j => at[i] < at[j]

(* The functions a compilation had written whole when its log was upto     *)
(* long, and those of them that begin a line: behind a report, or a        *)
(* header, whose end was not written, a function begins in the middle of   *)
(* one.                                                                    *)
Ending(p, r) == r.at + Len(Records[p][r.fn]) - 1

Written(p, upto) ==
  Kept(printed[p], {r \in ToSet(printed[p]) : Ending(p, r) <= upto})

BeginsLine(p, r) == r.at = 1 \/ EndsLine(sent[p][r.at - 1])

CallsOf(p, fns) == [i \in DOMAIN fns |-> Calls(Records[p][fns[i].fn])]

(* Whenever it reads, and however often a compilation replaces the log     *)
(* meanwhile, the functions the checker checks are those of one            *)
(* compilation, in order, each with all of its calls and no other, a call  *)
(* on several lines as one; and it misses none that begins a line.  This   *)
(* needs every function to be written whole or not at all.                 *)
ChecksWhatWasPrinted ==
  \A k \in DOMAIN checked :
    LET c == checked[k]  p == c.file IN
    p \in Procs \ (clash \cup torn) =>
      LET written == Written(p, c.upto)
          begins == {r \in ToSet(written) : BeginsLine(p, r)}
      IN /\ IsSubsequence(CallsOf(p, Kept(written, begins)), c.calls)
         /\ IsSubsequence(c.calls, CallsOf(p, written))

(* A check is made of the selected calls of a function and of no others,   *)
(* and the index it is told is that of its call in the current function,   *)
(* where it looks for the calls before and behind.                         *)
ChecksSelectedCalls ==
  \A k \in DOMAIN checked :
    LET c == checked[k] IN
    \A f \in DOMAIN c.calls :
      /\ \A h \in DOMAIN c.hits[f] :
            c.calls[f][c.hits[f][h].idx + 1] = c.hits[f][h].call
      /\ {c.hits[f][h].idx : h \in DOMAIN c.hits[f]} =
           {i \in 1..(Len(c.calls[f]) - 1) :
              \E name \in Exports :
                /\ c.calls[f][i + 1][1] = <<"call", name>>
                /\ Selects(selected, "*") \/ Selects(selected, name)}
=============================================================================
