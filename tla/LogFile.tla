------------------------------ MODULE LogFile ------------------------------
(***************************************************************************)
(* log.c: compilations that open, write and close their logs side by side. *)
(* A build may compile one source twice at a time, or again while an       *)
(* earlier compiler still runs; all of them write to files of one name.    *)
(*                                                                         *)
(* A name refers to a file, a file is a sequence of lexemes, and an open   *)
(* descriptor keeps its file whatever happens to the name.  Each system    *)
(* call is a step; open and unlink may fail, a write may fail or stop      *)
(* early.  A compilation may stop for good between any two steps: nothing  *)
(* forces it to take the next one.                                         *)
(***************************************************************************)
EXTENDS Integers, Sequences

CONSTANTS
  Procs,        \* the compilations
  Names,        \* the names logs can have, as get_logname puts them together
  Job,          \* what a compilation works on: its source, pass and suffix
  Before,       \* what may be under a name before: its file, nothing, a link
  Old,          \* the text of that file
  Records,      \* the functions a compilation prints: the text of each
  Header, Prefix, Message, Newline,  \* texts of write_log and report
  NoFile, Link, \* what a name may refer to beside files: nothing, a link
  Nul,          \* what a hole in a file reads as
  ReportBound,  \* how many reports each compilation makes at most
  FaultBound    \* how many writes of each go wrong at most

VARIABLES
  entry,        \* the directory: what each name refers to
  content,      \* the text of each file
  pc,           \* how far each compilation is
  file,         \* the file open gave it, NoFile until then
  offset,       \* the offset of its descriptor
  next,         \* the function it prints next
  reports,      \* how many reports it has made
  faults,       \* how many of its writes went wrong
  sent,         \* history: what write took of its text, in order
  printed,      \* history: the functions written whole, and where
  last,         \* history: the last compilation to begin open_log on a name
  clash,        \* history: those whose open_log met another one, or a refusal
  torn          \* history: those that had a function cut short

vars == <<entry, content, pc, file, offset, next, reports, faults,
          sent, printed, last, clash, torn>>

history == <<sent, printed, last, clash, torn>>

(***************************************************************************)
(* get_logname: source, pass and suffix, joined by points.                 *)
(***************************************************************************)
get_logname(job) == <<job.source, job.pass, job.suffix>>

LogName(p) == get_logname(Job[p])

Files == Procs \cup Names  \* one per compilation, and those of before

ASSUME LogFileAssumption ==
  /\ \A p \in Procs : LogName(p) \in Names /\ Records[p] \in Seq(Seq(STRING \X STRING))
  /\ \A n \in Names : Old[n] \in Seq(STRING \X STRING) /\ Before[n] \subseteq {n, NoFile, Link}
  /\ {Header, Prefix, Message, Newline} \subseteq Seq(STRING \X STRING)
  /\ Nul \in STRING \X STRING
  /\ Procs \cap Names = {} /\ {NoFile, Link} \cap Files = {} /\ NoFile # Link
  /\ ReportBound \in [Procs -> Nat] /\ FaultBound \in [Procs -> Nat]

Init ==
  /\ entry \in [Names -> Files \cup {NoFile, Link}]
  /\ \A n \in Names : entry[n] \in Before[n]
  /\ content = [f \in Files |-> IF f \in Names THEN Old[f] ELSE <<>>]
  /\ pc = [p \in Procs |-> "begin"]
  /\ file = [p \in Procs |-> NoFile]
  /\ offset = [p \in Procs |-> 0]
  /\ next = [p \in Procs |-> 1] /\ reports = [p \in Procs |-> 0]
  /\ faults = [p \in Procs |-> 0]
  /\ sent = [p \in Procs |-> <<>>] /\ printed = [p \in Procs |-> <<>>]
  /\ last = [n \in Names |-> NoFile]
  /\ clash = {} /\ torn = {}

Goto(p, from, to) == pc[p] = from /\ pc' = [pc EXCEPT ![p] = to]

(***************************************************************************)
(* open_log: lstat, unlink, open.                                          *)
(***************************************************************************)
Between(p) == {q \in Procs \ {p} : LogName(q) = LogName(p) /\ pc[q] \in {"unlink", "open"}}

open_log_lstat(p) ==
  /\ Goto(p, "begin", IF entry[LogName(p)] # NoFile THEN "unlink" ELSE "open")
  /\ last' = [last EXCEPT ![LogName(p)] = p]
  /\ clash' = IF Between(p) # {} THEN clash \cup Between(p) \cup {p} ELSE clash
  /\ UNCHANGED <<entry, content, file, offset, next, reports, faults, sent, printed, torn>>

(* Mutant of open_log_unlink: the old log is left to O_TRUNC. *)
open_log_keeps(p) ==
  /\ Goto(p, "unlink", "open")
  /\ UNCHANGED <<entry, content, file, offset, next, reports, faults, history>>

(* The name may be gone by now, which unlink reports and nobody reads. *)
open_log_unlink(p) ==
  /\ Goto(p, "unlink", "open")
  /\ entry' = [entry EXCEPT ![LogName(p)] = NoFile]
  /\ UNCHANGED <<content, file, offset, next, reports, faults, history>>

(* Nor does anybody read that unlink was refused. *)
open_log_unlink_refused(p) ==
  /\ Goto(p, "unlink", "open")
  /\ entry[LogName(p)] # NoFile
  /\ LET owners == {q \in Procs : file[q] = entry[LogName(p)]} IN
     clash' = IF owners # {} THEN clash \cup owners \cup {p} ELSE clash
  /\ UNCHANGED <<entry, content, file, offset, next, reports, faults,
                 sent, printed, last, torn>>

(* Mutant of open_log_open: the old name is removed behind it. *)
open_log_then_unlink(p) ==
  LET n == LogName(p)
      f == IF entry[n] = NoFile THEN p ELSE entry[n] IN
  /\ entry[n] # Link
  /\ Goto(p, "open", "header")
  /\ entry' = [entry EXCEPT ![n] = NoFile]
  /\ content' = [content EXCEPT ![f] = <<>>]
  /\ file' = [file EXCEPT ![p] = f]
  /\ UNCHANGED <<offset, next, reports, faults, history>>

(* O_CREAT|O_TRUNC|O_NOFOLLOW, without O_EXCL. *)
open_log_open(p) ==
  LET n == LogName(p)
      f == IF entry[n] = NoFile THEN p ELSE entry[n] IN
  /\ entry[n] # Link
  /\ Goto(p, "open", "header")
  /\ entry' = [entry EXCEPT ![n] = f]
  /\ content' = [content EXCEPT ![f] = <<>>]
  /\ file' = [file EXCEPT ![p] = f]
  /\ UNCHANGED <<offset, next, reports, faults, history>>

(* No log: start_unit calls error(), and nothing is printed. *)
open_log_fails(p) ==
  /\ Goto(p, "open", "failed")
  /\ UNCHANGED <<entry, content, file, offset, next, reports, faults, history>>

(***************************************************************************)
(* write(2): all of the text, a front of it, or nothing.                   *)
(***************************************************************************)
Larger(m, n) == IF m > n THEN m ELSE n

Overwrite(old, at, text) ==
  [i \in 1..Larger(Len(old), at + Len(text)) |->
     IF i \in (at + 1)..(at + Len(text)) THEN text[i - at]
     ELSE IF i <= Len(old) THEN old[i] ELSE Nul]

(* How much of a text is written: nothing, which is a failure, all, or a   *)
(* part, of which half stands for any.                                     *)
Taken(text) == {0, Len(text) \div 2, Len(text)}

Write(p, text, n) ==
  LET done == SubSeq(text, 1, n) IN
  /\ n < Len(text) => faults[p] < FaultBound[p]
  /\ faults' = IF n < Len(text) THEN [faults EXCEPT ![p] = @ + 1] ELSE faults
  /\ content' = [content EXCEPT ![file[p]] = Overwrite(@, offset[p], done)]
  /\ offset' = [offset EXCEPT ![p] = @ + n]
  /\ sent' = [sent EXCEPT ![p] = @ \o done]

write_header(p) ==
  /\ Goto(p, "header", "write")
  /\ \E n \in Taken(Header) : Write(p, Header, n)
  /\ UNCHANGED <<entry, file, next, reports, printed, last, clash, torn>>

(* The functions of the unit, one write for each. *)
write_function(p) ==
  /\ Goto(p, "write", "write")
  /\ next[p] <= Len(Records[p])
  /\ next' = [next EXCEPT ![p] = @ + 1]
  /\ LET text == Records[p][next[p]] IN
     \E n \in Taken(text) :
       /\ Write(p, text, n)
       /\ torn' = IF n > 0 /\ n < Len(text) THEN torn \cup {p} ELSE torn
       /\ printed' = IF n = Len(text)
                     THEN [printed EXCEPT ![p] =
                             Append(@, [fn |-> next[p], at |-> Len(sent[p]) + 1])]
                     ELSE printed
  /\ UNCHANGED <<entry, file, reports, last, clash>>

(***************************************************************************)
(* report: the prefix, the message if that was written, the newline if     *)
(* some of the message was.  Its descriptor is here that of the log.       *)
(***************************************************************************)
report_prefix(p) ==
  /\ pc[p] = "write" /\ reports[p] < ReportBound[p]
  /\ reports' = [reports EXCEPT ![p] = @ + 1]
  /\ \E n \in Taken(Prefix) :
       /\ Goto(p, "write", IF n > 0 THEN "message" ELSE "write")
       /\ Write(p, Prefix, n)
  /\ UNCHANGED <<entry, file, next, printed, last, clash, torn>>

report_message(p) ==
  /\ \E n \in Taken(Message) :
       /\ Goto(p, "message", IF n > 0 THEN "newline" ELSE "write")
       /\ Write(p, Message, n)
  /\ UNCHANGED <<entry, file, next, reports, printed, last, clash, torn>>

report_newline(p) ==
  /\ Goto(p, "newline", "write")
  /\ \E n \in Taken(Newline) : Write(p, Newline, n)
  /\ UNCHANGED <<entry, file, next, reports, printed, last, clash, torn>>

(* Behind the last function; a unit with errors just stops before. *)
close_log(p) ==
  /\ next[p] > Len(Records[p])
  /\ Goto(p, "write", "closed")
  /\ UNCHANGED <<entry, content, file, offset, next, reports, faults, history>>

Step(p) ==
  \/ open_log_lstat(p) \/ open_log_unlink(p) \/ open_log_unlink_refused(p)
  \/ open_log_open(p) \/ open_log_fails(p)
  \/ write_header(p) \/ write_function(p)
  \/ report_prefix(p) \/ report_message(p) \/ report_newline(p)
  \/ close_log(p)

Next == \E p \in Procs : Step(p)

Spec == Init /\ [][Next]_vars

(***************************************************************************)
(* Correctness.                                                            *)
(***************************************************************************)
States == {"begin", "unlink", "open", "failed", "header", "write", "message",
           "newline", "closed"}

(* Names refer to files, and a compilation has a file once it opened one.  *)
TypeOK ==
  /\ entry \in [Names -> Files \cup {NoFile, Link}]
  /\ pc \in [Procs -> States]
  /\ file \in [Procs -> Files \cup {NoFile}]
  /\ \A p \in Procs :
       file[p] = NoFile <=> pc[p] \in {"begin", "unlink", "open", "failed"}
  /\ offset \in [Procs -> Nat]
  /\ last \in [Names -> Procs \cup {NoFile}]
  /\ clash \subseteq Procs /\ torn \subseteq Procs

(* open_log takes a new file for every compilation: a log has exactly what *)
(* its own compilation wrote, also while an older one goes on writing to   *)
(* the log it had under this name.  Only when two compilations are inside  *)
(* open_log at one time, or may not remove the log of another one, do they *)
(* ever share a file.                                                      *)
LogIsOwn ==
  \A p \in Procs \ clash :
    file[p] # NoFile => content[file[p]] = sent[p] /\ offset[p] = Len(sent[p])

(* The log of the last compilation that opened one stays under its name.   *)
NameHoldsLog ==
  \A p \in Procs \ clash :
    last[LogName(p)] = p /\ file[p] # NoFile => entry[LogName(p)] = file[p]
=============================================================================
