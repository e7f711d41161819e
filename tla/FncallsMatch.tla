----------------------------- MODULE FncallsMatch -----------------------------
(***************************************************************************)
(* fncalls-match.c: which calls of a function are errors, warnings or      *)
(* reports.  Its plugin is not in the repository; from how the matcher is  *)
(* declared (ahaggar.h:55-60) and from doc/main.c.237.ahaggar_fncalls.log  *)
(* it asks match_function_name, the checker, about each call of a function *)
(* and puts the line of the call into the buffer if the answer is 0, after *)
(* a line with the declaration; match_output then handles the buffer.      *)
(*                                                                         *)
(* A text is a sequence of lexemes; every character the matcher searches   *)
(* for or steps over is a lexeme of its own.  A place in the buffer counts *)
(* lexemes from 1; the terminating Nul is in place Len(buffer) + 1 and 0   *)
(* is NULL.                                                                *)
(***************************************************************************)
EXTENDS Naturals, SequencesExt

CONSTANTS
  Builds,            \* the tables a build may contain: errors, warnings, reports
  Names, Args,       \* the functions called and the texts of arguments
  Locs,              \* the location of the first, second, ... call of a function
  NoRegex,           \* a pattern without this regular expression
  MAX_HASH_ENTRIES, SAFE_LOAD_FACTOR

(* A table is a sequence of targets [name, patterns], `patterns' a         *)
(* sequence, empty where the source has NULL.  A pattern has               *)
(*   args, all                        a regular expression or NoRegex,     *)
(*   force_match                      a Boolean,                           *)
(*   match_args_func, match_all_func  the texts the callback accepts and   *)
(*                                    what it then writes, empty for NULL, *)
(*   msg, msg_nomatch                 a message, Null for NULL.            *)
(* A regular expression is [valid, matches]: whether it compiles and what  *)
(* it matches.                                                             *)
Blank == " "

(* The empty text, and no text. *)
Null == ""

IsSequence(s) == s \in Seq({s[i] : i \in DOMAIN s})

IsPattern(pm) ==
  /\ pm.msg \in STRING /\ pm.msg_nomatch \in STRING
  /\ pm.match_args_func \in [DOMAIN pm.match_args_func -> STRING]
  /\ pm.match_all_func \in [DOMAIN pm.match_all_func -> STRING]

ASSUME BuildsAssumption ==
  \A b \in Builds :
    /\ DOMAIN b = 1..3
    /\ \A t \in 1..3 :
         /\ IsSequence(b[t])
         /\ \A i \in DOMAIN b[t] :
              /\ IsSequence(b[t][i].patterns)
              /\ \A k \in DOMAIN b[t][i].patterns : IsPattern(b[t][i].patterns[k])

(* A name and a location are one lexeme, none that the matcher looks for.  *)
ASSUME TextsAssumption ==
  /\ Names \cap {Blank, "(", "]"} = {}
  /\ \A a \in Args : IsSequence(a)
  /\ IsSequence(Locs) /\ \A j \in DOMAIN Locs : Locs[j] # "]"

VARIABLES
  tables,     \* errors[], warnings[] and reports[] of this build
  phase,      \* the callback under way
  at,         \* while the tables are populated: table and target to come
  compiled,   \* the patterns with a regex_t: table, target, pattern, field
  buffer,     \* the text collected for the current function
  mcounter,   \* per table: the calls of the function it has a target for
  h,          \* the table match_output is at
  sub,        \* the substring: first place and place after the last
  print_decl, \* the declaration is still to be printed for this table
  log,        \* what was put out for the current function
  calls       \* the calls in the buffer

setup == <<tables, at, compiled>>
vars == <<setup, phase, buffer, mcounter, h, sub, print_decl, log, calls>>

Tables == 1..3
REPORTS_ID == 3

NoSub == [start |-> 0, end |-> 0]

NoTargets == \A t \in Tables : tables[t] = <<>>

is_hash_safe(n) == n > 0 /\ n * 100 < (100 - SAFE_LOAD_FACTOR) * MAX_HASH_ENTRIES

(* The target the hash table of t has under the name in a text, 0 for      *)
(* none: the first one if the table lists it twice.                        *)
Lookup(t, text) ==
  SelectInSeq(tables[t], LAMBDA f : text = <<f.name>>)

(***************************************************************************)
(* Loading the tables.                                                     *)
(***************************************************************************)
Init ==
  /\ tables \in Builds
  /\ phase = "off"
  /\ at = <<1, 0>> /\ compiled = {}
  /\ buffer = <<>> /\ calls = <<>> /\ log = <<>>
  /\ mcounter = [t \in Tables |-> 0]
  /\ h = 1 /\ sub = NoSub /\ print_decl = TRUE

Patterns(t, i) == tables[t][i].patterns

(* The test is made of the compiled expression. *)
WantsAll(t, i, k) == <<t, i, k, "all">> \in compiled

Wants(t, i, k, field) ==
  IF field = "args" THEN Patterns(t, i)[k].args # NoRegex ELSE WantsAll(t, i, k)

init_regexp(t, i, k, field) == Patterns(t, i)[k][field].valid

Fails(t, i, k) ==
  \E field \in {"args", "all"} : Wants(t, i, k, field) /\ ~init_regexp(t, i, k, field)

(* The patterns of a target up to the first that does not compile. *)
compile_regexp_match(t, i) ==
  {<<t, i, p[1], p[2]>> : p \in
     {q \in (DOMAIN Patterns(t, i)) \X {"args", "all"} :
        /\ Wants(t, i, q[1], q[2]) /\ init_regexp(t, i, q[1], q[2])
        /\ \A j \in 1..(q[1] - 1) : ~Fails(t, i, j)}}

Load == phase = "off" /\ at[1] \in Tables

init_hash ==
  /\ Load /\ at[2] = 0
  /\ IF tables[at[1]] = <<>>
     THEN at' = <<at[1] + 1, 0>> /\ UNCHANGED phase
     ELSE IF is_hash_safe(Len(tables[at[1]]))
          THEN at' = <<at[1], 1>> /\ UNCHANGED phase
          ELSE phase' = "failed" /\ UNCHANGED at
  /\ UNCHANGED <<tables, compiled, buffer, mcounter, h, sub, print_decl, log, calls>>

populate_hash_target ==
  LET t == at[1]  i == at[2] IN
  /\ Load /\ i > 0
  /\ IF tables[t][i].name = Null
     THEN phase' = "failed" /\ UNCHANGED <<at, compiled>>
     ELSE /\ compiled' = compiled \cup compile_regexp_match(t, i)
          /\ IF \E k \in DOMAIN Patterns(t, i) : Fails(t, i, k)
             THEN phase' = "failed" /\ UNCHANGED at
             ELSE /\ at' = IF i = Len(tables[t]) THEN <<t + 1, 0>> ELSE <<t, i + 1>>
                  /\ UNCHANGED phase
  /\ UNCHANGED <<tables, buffer, mcounter, h, sub, print_decl, log, calls>>

fncalls_match_init ==
  /\ phase = "off" /\ at[1] \notin Tables
  /\ phase' = "ready"
  /\ UNCHANGED <<setup, buffer, mcounter, h, sub, print_decl, log, calls>>

fncalls_match_finish ==
  /\ phase \in {"ready", "failed"}
  /\ phase' = "finished" /\ compiled' = {}
  /\ UNCHANGED <<tables, at, buffer, mcounter, h, sub, print_decl, log, calls>>

(***************************************************************************)
(* The driver, as far as the matcher can tell.                             *)
(***************************************************************************)
DeclLine == <<"\n", "<function_decl>", Blank, "f", "(", ")", Blank, "[", "decl", "]", "\n">>

CallText(c) == <<"(">> \o c.args \o <<")">>

CallLine(c) ==
  <<Blank, "<@>", Blank, c.name>> \o CallText(c) \o <<Blank, "[", c.loc, "]", "\n">>

StartFunction ==
  /\ phase = "ready"
  /\ phase' = "walking"
  /\ buffer' \in {DeclLine, <<>>}
  /\ calls' = <<>> /\ log' = <<>>
  /\ h' = 1 /\ sub' = NoSub /\ print_decl' = TRUE
  /\ UNCHANGED <<setup, mcounter>>

(* The tables that have the function, each of which counts the call. *)
match_function_name(name) == {t \in Tables : Lookup(t, <<name>>) # 0}

WalkCall ==
  /\ phase = "walking" /\ Len(calls) < Len(Locs)
  /\ \E name \in Names, args \in Args :
       LET c == [name |-> name, args |-> args, loc |-> Locs[Len(calls) + 1]]
           matched == match_function_name(name)
       IN /\ NoTargets \/ matched # {}
          /\ mcounter' = [t \in Tables |-> mcounter[t] + IF t \in matched THEN 1 ELSE 0]
          /\ calls' = Append(calls, c)
          /\ buffer' = buffer \o CallLine(c)
  /\ UNCHANGED <<setup, phase, h, sub, print_decl, log>>

(***************************************************************************)
(* Cutting the buffer into calls.                                          *)
(***************************************************************************)
strchr(from, c) == SelectInSubSeq(buffer, from, Len(buffer), LAMBDA x : x = c)

strrchr(from, c) == SelectLastInSubSeq(buffer, from, Len(buffer), LAMBDA x : x = c)

(* The text from one place up to, but not with, another. *)
Text(from, to) == SubSeq(buffer, from, to - 1)

HasDecl == Len(buffer) > 1 /\ buffer[2] = "<function_decl>"

Offset ==
  IF sub.start # 0 THEN sub.end
  ELSE IF HasDecl THEN strchr(2, "\n") + 1 ELSE 1

(* Mutant of EndOf: the newline is left to the next call, and the one      *)
(* after.                                                                  *)
EndPastNewline(p) == p + 3

(* Mutant of EndOf: the end stays before the bracket. *)
EndBeforeBracket(p) == p - 1

(* Right before the bracket, and three further: after the newline. *)
EndOf(p) == p - 1 + 3

(* The substring of the next call; the buffer may be at its end. *)
next_fncall_to_substring ==
  LET p == strchr(Offset, "]") IN
  IF p # 0 THEN [start |-> Offset, end |-> EndOf(p)]
  ELSE IF sub.start = 0 /\ HasDecl THEN [start |-> Offset, end |-> Len(buffer) + 1]
  ELSE sub

Found == strchr(Offset, "]") # 0

(* The word before the next parenthesis. *)
extract_fnname(s) ==
  LET q == strchr(s.start, "(")
  IN Text(SelectLastInSubSeq(buffer, 1, q, LAMBDA x : x = Blank) + 1, q)

(* The next newline, if any, belongs to the call as well. *)
WithNewline(s) ==
  IF strchr(s.start, "(") # 0 /\ s.end <= Len(buffer) /\ buffer[s.end] = "\n"
  THEN [s EXCEPT !.end = @ + 1] ELSE s

(***************************************************************************)
(* Matching a call, whose substring is s, against target i of table t.     *)
(***************************************************************************)
(* What the expressions and callbacks for arguments are given. *)
ArgsOf(s) ==
  LET a == strchr(s.start, "(")  b == strchr(a, "[") IN Text(a, b - 1)

(* What those for the whole call are given. *)
AllOf(s) == Text(s.start, strchr(s.start, "]"))

regexp_match_cargs(t, i, k, s) ==
  LET pm == Patterns(t, i)[k] IN
  \/ ArgsOf(s) \in DOMAIN pm.match_args_func
  \/ <<t, i, k, "args">> \in compiled /\ ArgsOf(s) \in pm.args.matches

regexp_match_call(t, i, k, s) ==
  LET pm == Patterns(t, i)[k] IN
  \/ AllOf(s) \in DOMAIN pm.match_all_func
  \/ <<t, i, k, "all">> \in compiled /\ AllOf(s) \in pm.all.matches

Match(t, i, k, s) ==
  \/ Patterns(t, i)[k].force_match
  \/ regexp_match_cargs(t, i, k, s)
  \/ regexp_match_call(t, i, k, s)

(* What a callback left in tmp_message, cleared before each pattern. *)
msg_extra(t, i, k, s) ==
  LET pm == Patterns(t, i)[k] IN
  IF pm.force_match THEN Null
  ELSE IF ArgsOf(s) \in DOMAIN pm.match_args_func THEN pm.match_args_func[ArgsOf(s)]
  ELSE IF regexp_match_cargs(t, i, k, s) THEN Null
  ELSE IF AllOf(s) \in DOMAIN pm.match_all_func THEN pm.match_all_func[AllOf(s)]
  ELSE Null

(* Mutant of Message: a call that does not match is reported with the      *)
(* message for one that does.                                              *)
MessageOfMatch(t, i, k, s) ==
  IF msg_extra(t, i, k, s) # Null THEN msg_extra(t, i, k, s) ELSE Patterns(t, i)[k].msg

Message(t, i, k, s) ==
  LET pm == Patterns(t, i)[k] IN
  IF ~Match(t, i, k, s) THEN pm.msg_nomatch
  ELSE IF msg_extra(t, i, k, s) # Null THEN msg_extra(t, i, k, s)
  ELSE pm.msg

(* Between the last bracket there is, and the end of its pair. *)
extract_location(s) ==
  LET a == strrchr(s.start, "[") IN Text(a + 1, strchr(a + 1, "]"))

Entry(t, kind, what, loc) == [table |-> t, kind |-> kind, what |-> what, loc |-> loc]

(* Mutant of dump_decl_output: the newline in front is not skipped. *)
DeclAtFront(t) ==
  IF Len(buffer) > 0 /\ buffer[1] = "<function_decl>"
  THEN <<Entry(t, "decl", Text(1, strchr(2, "\n") + 1), <<>>)>> ELSE <<>>

dump_decl_output(t) ==
  IF HasDecl THEN <<Entry(t, "decl", Text(1, strchr(2, "\n") + 1), <<>>)>> ELSE <<>>

substring_write(t, s) == <<Entry(t, "raw", Text(s.start, s.end), <<>>)>>

output_fncall_results(t, i, k, s) ==
  IF Message(t, i, k, s) = Null THEN <<>>
  ELSE <<Entry(t, "message", <<Message(t, i, k, s)>>, extract_location(s))>>

(* A pattern that has nothing to say: in reports[] it asks for the call    *)
(* itself.                                                                 *)
Silent(pm) ==
  /\ pm.msg = Null /\ pm.msg_nomatch = Null
  /\ DOMAIN pm.match_args_func = {} /\ DOMAIN pm.match_all_func = {}

(* What is asked of a report and answered with the call itself.            *)
RawCall(t, i, k, s) == Silent(Patterns(t, i)[k]) /\ t = REPORTS_ID /\ Match(t, i, k, s)

(* The declaration goes in front of the first call of them.                *)
process_pattern(t, i, k, s) ==
  IF ~Silent(Patterns(t, i)[k]) THEN output_fncall_results(t, i, k, s)
  ELSE IF ~RawCall(t, i, k, s) THEN <<>>
  ELSE IF \E j \in 1..(k - 1) : RawCall(t, i, j, s) THEN substring_write(t, s)
  ELSE dump_decl_output(t) \o substring_write(t, s)

process_fncall(t, i, s) ==
  FlattenSeq([k \in DOMAIN Patterns(t, i) |-> process_pattern(t, i, k, s)])

(***************************************************************************)
(* match_output.                                                           *)
(***************************************************************************)
(* A build without targets puts every function out as it is. *)
output_buffer_write ==
  /\ phase = "walking" /\ NoTargets
  /\ phase' = "ready"
  /\ log' = <<Entry(0, "raw", buffer, <<>>)>>
  /\ UNCHANGED <<setup, buffer, mcounter, h, sub, print_decl, calls>>

match_output ==
  /\ phase = "walking" /\ ~NoTargets
  /\ phase' = "output"
  /\ UNCHANGED <<setup, buffer, mcounter, h, sub, print_decl, log, calls>>

(* Mutant of NextTable: calls of the table may be left over. *)
NextTableEarly ==
  /\ phase = "output" /\ h \in Tables
  /\ h' = h + 1 /\ sub' = NoSub /\ print_decl' = TRUE
  /\ UNCHANGED <<setup, phase, buffer, mcounter, log, calls>>

(* The counter of the table has come to zero, or was: the next table. *)
NextTable ==
  /\ phase = "output" /\ h \in Tables /\ mcounter[h] = 0
  /\ h' = h + 1 /\ sub' = NoSub /\ print_decl' = TRUE
  /\ UNCHANGED <<setup, phase, buffer, mcounter, log, calls>>

OutputDone ==
  /\ phase = "output" /\ h \notin Tables
  /\ phase' = "ready"
  /\ UNCHANGED <<setup, buffer, mcounter, h, sub, print_decl, log, calls>>

(* One iteration: the next call and, if the table has it, its patterns or, *)
(* for a report without patterns, the call itself.                         *)
process_output ==
  LET cut == next_fncall_to_substring
      s == IF Found THEN WithNewline(cut) ELSE cut
      i == IF Found /\ strchr(s.start, "(") # 0 THEN Lookup(h, extract_fnname(s)) ELSE 0
      listed == i # 0 /\ h = REPORTS_ID /\ Patterns(h, i) = <<>>
  IN /\ phase = "output" /\ h \in Tables /\ mcounter[h] > 0
     /\ mcounter' = [mcounter EXCEPT ![h] = @ - 1]
     /\ sub' = s
     /\ log' = log \o (IF i = 0 THEN <<>>
                       ELSE IF listed
                       THEN (IF print_decl THEN dump_decl_output(h) ELSE <<>>)
                            \o substring_write(h, s)
                       ELSE process_fncall(h, i, s))
     /\ print_decl' = (print_decl /\ ~listed)
     /\ UNCHANGED <<setup, phase, buffer, h, calls>>

Next ==
  \/ init_hash \/ populate_hash_target \/ fncalls_match_init \/ fncalls_match_finish
  \/ StartFunction \/ WalkCall
  \/ output_buffer_write \/ match_output \/ NextTable \/ process_output \/ OutputDone

Spec == Init /\ [][Next]_vars

(***************************************************************************)
(* Correctness.                                                            *)
(***************************************************************************)
TypeOK ==
  /\ tables \in Builds
  /\ phase \in {"off", "failed", "ready", "walking", "output", "finished"}
  /\ mcounter \in [Tables -> 0..Len(Locs)]
  /\ h \in 1..4
  /\ Len(calls) <= Len(Locs)
  /\ phase \in {"ready", "finished"} => \A t \in Tables : mcounter[t] = 0

(* The substring stays inside the text it is cut from, also when the text  *)
(* has brackets where the matcher does not expect them, and at its end.    *)
CutsInsideText ==
  sub # NoSub => 1 <= sub.start /\ sub.start <= sub.end /\ sub.end <= Len(buffer) + 1

(* No text of an argument has a bracket. *)
Plain == \A j \in DOMAIN calls : \A x \in {"[", "]"} : \A n \in DOMAIN calls[j].args :
           calls[j].args[n] # x

(* Reference: what a table has to say of a call.  Each pattern of the      *)
(* target with the call's name, in order.  A pattern is asked about the    *)
(* arguments and, if they do not match, about the line up to its location. *)
LineText(c) == SubSeq(CallLine(c), 1, Len(CallLine(c)) - 2)

Accepts(regex, text) == regex # NoRegex /\ text \in regex.matches

Asked(pm, c) ==
  \/ pm.force_match
  \/ CallText(c) \in DOMAIN pm.match_args_func \/ Accepts(pm.args, CallText(c))
  \/ LineText(c) \in DOMAIN pm.match_all_func \/ Accepts(pm.all, LineText(c))

Reason(pm, c) ==
  IF pm.force_match THEN Null
  ELSE IF CallText(c) \in DOMAIN pm.match_args_func THEN pm.match_args_func[CallText(c)]
  ELSE IF Accepts(pm.args, CallText(c)) \/ LineText(c) \notin DOMAIN pm.match_all_func
  THEN Null ELSE pm.match_all_func[LineText(c)]

Verdict(pm, c) ==
  IF ~Asked(pm, c) THEN pm.msg_nomatch
  ELSE IF Reason(pm, c) # Null THEN Reason(pm, c) ELSE pm.msg

OfPattern(t, pm, c) ==
  IF Silent(pm)
  THEN IF t = REPORTS_ID /\ Asked(pm, c) THEN <<CallLine(c)>> ELSE <<>>
  ELSE IF Verdict(pm, c) = Null THEN <<>> ELSE <<<<Verdict(pm, c)>>>>

OfCall(t, c) ==
  LET i == Lookup(t, <<c.name>>) IN
  IF i = 0 THEN <<>>
  ELSE IF Patterns(t, i) = <<>>
  THEN IF t = REPORTS_ID THEN <<CallLine(c)>> ELSE <<>>
  ELSE FlattenSeq([k \in DOMAIN Patterns(t, i) |-> OfPattern(t, Patterns(t, i)[k], c)])

Expected(t) == FlattenSeq([j \in DOMAIN calls |-> OfCall(t, calls[j])])

SaidIn(entries, t) ==
  FlattenSeq([j \in DOMAIN entries |->
    IF entries[j].table = t /\ entries[j].kind # "decl" THEN <<entries[j].what>> ELSE <<>>])

Said(t) == SaidIn(log, t)

(* What a table puts out is right: it is about the first calls of the      *)
(* function, in order, none twice, with the messages of their patterns.    *)
OutputIsRight ==
  phase = "ready" /\ Plain => \A t \in Tables : IsPrefix(Said(t), Expected(t))

(* In a build with one table, it is also complete.                         *)
OneTableComplete ==
  phase = "ready" /\ Plain =>
    \A t \in Tables : (\A u \in Tables \ {t} : tables[u] = <<>>) => Said(t) = Expected(t)

(* A call is never written to the log before the declaration of its        *)
(* function: who reads the log (scripts/pahaggar/fncalls.py:66-86) takes   *)
(* it for a call of the function declared last.                            *)
RawUnderDecl ==
  HasDecl => \A j \in DOMAIN log : log[j].kind = "raw" /\ log[j].table # 0 =>
               \E n \in 1..(j - 1) : log[n].kind = "decl"

(***************************************************************************)
(* What the comments say and the code does not do.                         *)
(***************************************************************************)
(* "internal compiled all" (fncalls-match.h:48): once loaded, a pattern    *)
(* over the whole call has been compiled.                                  *)
AllCompiled ==
  phase = "ready" =>
    \A t \in Tables : \A i \in DOMAIN tables[t] : \A k \in DOMAIN Patterns(t, i) :
      Patterns(t, i)[k].all # NoRegex => <<t, i, k, "all">> \in compiled

(* The counter "is used to optimize code and avoid unnecessary loops"      *)
(* (fncalls-match.h:88-89): it saves no loop over a call a table has.      *)
EveryMatchHandled ==
  phase = "ready" /\ Plain => \A t \in Tables : Said(t) = Expected(t)

(* Reports are "Like gcc's error() and warning() functions" (log.h:36),    *)
(* which put the location of what they are about in front: a message comes *)
(* with the location of a call to a function that has it.                  *)
LocationIsCalls ==
  phase = "ready" /\ Plain =>
    \A j \in DOMAIN log : log[j].kind = "message" =>
      \E n \in DOMAIN calls :
        /\ <<calls[n].loc>> = log[j].loc
        /\ \E m \in DOMAIN OfCall(log[j].table, calls[n]) :
             OfCall(log[j].table, calls[n])[m] = log[j].what
=============================================================================
