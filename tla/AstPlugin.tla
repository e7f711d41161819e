------------------------------ MODULE AstPlugin ------------------------------
(***************************************************************************)
(* ahaggar-ast.c as a GCC plugin: the callbacks the compiler invokes in    *)
(* one run, from plugin_init to PLUGIN_FINISH, and the log they produce.   *)
(*                                                                         *)
(* The compiler is single-threaded, so a callback is one step.  What can   *)
(* go wrong outside is chosen freely: unknown arguments, no log name, a    *)
(* log that cannot be opened, writes that fail or stop early, errors of    *)
(* the compiled program, and the compiler giving up at any moment.         *)
(*                                                                         *)
(* The log is what is written to the descriptor of the unit.  What the     *)
(* plugin and the compiler say on stderr is left out; where stderr and the *)
(* log are one, it comes in between.                                       *)
(*                                                                         *)
(* The text of a function is a sequence of pieces; what TreeWalker prints  *)
(* for its body is the one piece "body".                                   *)
(***************************************************************************)
EXTENDS Integers, Sequences, Selecting

CONSTANTS
  Functions,    \* the FUNCTION_DECLs of the unit
  InMain,       \* those for which is_node_in_main_input holds
  WithBody,     \* those whose DECL_SAVED_TREE is a BIND_EXPR
  Arguments,    \* the plugin argument lists a command line can carry
  CallbackBound \* how many functions a unit has at most

ASSUME FunctionsAssumption ==
  /\ InMain \subseteq Functions /\ WithBody \subseteq Functions
  /\ CallbackBound \in Nat

VARIABLES
  phase,        \* where the compiler is in the plugin's life
  plugin,       \* the fields of struct plugin_data that change
  held,         \* what is allocated: "plugin", "buffer", "pmap", "logname"
  inherited,    \* which of 0, 1 and 2 are open when the plugin is loaded
  fds,          \* the open file descriptors of the process
  opened,       \* what start_unit got from open_log, -1 if nothing
  errors,       \* errorcount is not 0
  out,          \* the writes, in order, as Emit records them
  asked,        \* the functions PRE_GENERICIZE was invoked for
  faults        \* a write failed or stopped early

vars == <<phase, plugin, held, inherited, fds, opened, errors, out, asked, faults>>

STDERR == 2
Header == <<"AHAGGAR_HEADER">>

Cleared == [to_files |-> FALSE, only_main |-> FALSE, fd |-> 0, buffer |-> <<>>,
            pm_nodes |-> {}]

(***************************************************************************)
(* plugin_init.                                                            *)
(***************************************************************************)
Known(arg) == arg.key \in {"output", "unit"}

ArgsOk(argv) == \A i \in DOMAIN argv : Known(argv[i])

Given(argv, key, value) ==
  \E i \in DOMAIN argv : argv[i] = [key |-> key, value |-> value]

Init ==
  /\ phase = "loaded"
  /\ plugin = Cleared
  /\ held = {} /\ opened = -1
  /\ inherited \in SUBSET {0, 1, 2} /\ fds = inherited
  /\ errors = FALSE /\ faults = FALSE
  /\ out = <<>> /\ asked = <<>>

(* An unknown argument or an incompatible compiler: whatever ast_init      *)
(* allocated is released, and the compiler stops.                          *)
RejectPlugin ==
  /\ phase = "loaded"
  /\ errors' = TRUE
  /\ phase' = "rejected"
  /\ UNCHANGED <<plugin, held, inherited, fds, opened, out, asked, faults>>

plugin_init ==
  /\ phase = "loaded"
  /\ \E argv \in Arguments :
       /\ ArgsOk(argv)
       /\ plugin' = [Cleared EXCEPT
                       !.to_files = Given(argv, "output", "files"),
                       !.only_main = Given(argv, "unit", "main")]
  /\ held' = {"plugin", "buffer"}
  /\ phase' = "ready"
  /\ UNCHANGED <<inherited, fds, opened, errors, out, asked, faults>>

(***************************************************************************)
(* PLUGIN_START_UNIT.                                                      *)
(***************************************************************************)
LowestFree == CHOOSE d \in 0..3 : d \notin fds /\ \A e \in 0..(d - 1) : e \in fds

(* Mutant of Emit: the count of write(2) is handed on. *)
EmitCount(fd, text) ==
  \E n \in -1..Len(text) :
    LET done == SubSeq(text, 1, n) IN
    /\ fd \notin fds' => n = -1
    /\ out' = Append(out, [fd |-> fd, want |-> text, text |-> done, ret |-> n])
    /\ faults' = (faults \/ done # text)

(* write(2) takes the whole text, or the front of it; or it fails, as it   *)
(* does on a descriptor that is closed.  Only a failure makes              *)
(* ahg_ast_output_dump and write_log report one.                           *)
Emit(fd, text) ==
  \E n \in -1..Len(text) :
    LET done == SubSeq(text, 1, n) IN
    /\ fd \notin fds' => n = -1
    /\ out' = Append(out, [fd |-> fd, want |-> text, text |-> done,
                           ret |-> IF n >= 0 THEN 0 ELSE -1])
    /\ faults' = (faults \/ done # text)

StartUnit(fd) ==
  /\ phase' = "unit"
  /\ plugin' = [plugin EXCEPT !.pm_nodes = {}, !.fd = fd]
  /\ Emit(fd, Header)
  /\ UNCHANGED <<errors, asked>>

start_unit_stderr ==
  /\ phase = "ready" /\ ~plugin.to_files
  /\ held' = held \cup {"pmap"}
  /\ UNCHANGED <<inherited, fds, opened>>
  /\ StartUnit(STDERR)

(* The log gets the lowest free descriptor, which is a standard stream if  *)
(* one was closed.                                                         *)
start_unit_file ==
  /\ phase = "ready" /\ plugin.to_files
  /\ held' = held \cup {"pmap"}
  /\ fds' = fds \cup {LowestFree} /\ opened' = LowestFree
  /\ UNCHANGED inherited
  /\ StartUnit(LowestFree)

(* No log name, or no log: error() is called and the descriptor keeps the  *)
(* 0 of the memset in ast_init.  The name of a log that could not be       *)
(* opened is not freed.                                                    *)
start_unit_fails ==
  /\ phase = "ready" /\ plugin.to_files
  /\ phase' = "unit"
  /\ plugin' = [plugin EXCEPT !.pm_nodes = {}]
  /\ \E lost \in {{}, {"logname"}} : held' = held \cup {"pmap"} \cup lost
  /\ errors' = TRUE
  /\ UNCHANGED <<inherited, fds, opened, out, asked, faults>>

(***************************************************************************)
(* PLUGIN_PRE_GENERICIZE.                                                  *)
(***************************************************************************)
(* What ahg_ast_function and ahg_ast_analyze_body print for a function; a  *)
(* body that is no BIND_EXPR fails unnoticed and leaves the header alone.  *)
Text(f) ==
  <<<<f, "decl">>, <<f, "args">>>>
  \o (IF f \in WithBody THEN <<<<f, "body">>>> ELSE <<>>)
  \o <<<<f, "newline">>>>

(* Mutant of Skips: the option is not asked. *)
SkipsIncluded(f) == errors \/ f \notin InMain

(* Mutant of Skips: errorcount is not asked. *)
SkipsNoError(f) == plugin.only_main /\ f \notin InMain

Skips(f) == errors \/ (plugin.only_main /\ f \notin InMain)

(* Mutant of Flushed: the buffer is used as it was left. *)
Unflushed == plugin.buffer

Flushed == <<>>

CallbackLeft == Len(asked) < CallbackBound

(* ahg_ast_function refuses the function: the buffer stays flushed.        *)
ahaggar_ast_skip(f) ==
  /\ phase = "unit" /\ CallbackLeft
  /\ Skips(f)
  /\ plugin' = [plugin EXCEPT !.buffer = Flushed]
  /\ asked' = Append(asked, f)
  /\ UNCHANGED <<phase, inherited, held, fds, opened, errors, out, faults>>

(* It prints the function, and ahg_ast_output_dump writes the buffer once. *)
ahaggar_ast_main(f) ==
  /\ phase = "unit" /\ CallbackLeft
  /\ ~Skips(f)
  /\ plugin' = [plugin EXCEPT !.buffer = Flushed \o Text(f), !.pm_nodes = @ \cup {f}]
  /\ asked' = Append(asked, f)
  /\ UNCHANGED <<phase, held, inherited, fds, opened, errors>>
  /\ Emit(plugin.fd, plugin'.buffer)

(* The program being compiled has an error. *)
SourceError ==
  /\ phase = "unit" /\ ~errors
  /\ errors' = TRUE
  /\ UNCHANGED <<phase, inherited, plugin, held, fds, opened, out, asked, faults>>

(***************************************************************************)
(* PLUGIN_FINISH_UNIT and PLUGIN_FINISH.                                   *)
(***************************************************************************)
(* Mutant of finish_unit: a log on any standard stream stays open. *)
FinishStandard ==
  /\ phase = "unit"
  /\ phase' = "finished"
  /\ fds' = IF plugin.fd > STDERR THEN fds \ {plugin.fd} ELSE fds
  /\ held' = held \ {"pmap"}
  /\ UNCHANGED <<inherited, plugin, opened, errors, out, asked, faults>>

(* A log that got descriptor 2 is taken for stderr: it is neither synced   *)
(* nor closed.                                                             *)
finish_unit ==
  /\ phase = "unit"
  /\ phase' = "finished"
  /\ fds' = IF plugin.fd # STDERR THEN fds \ {plugin.fd} ELSE fds
  /\ held' = held \ {"pmap"}
  /\ UNCHANGED <<inherited, plugin, opened, errors, out, asked, faults>>

(* A unit with errors may end without PLUGIN_FINISH_UNIT. *)
LeaveUnit ==
  /\ phase = "unit" /\ errors
  /\ phase' = "finished"
  /\ UNCHANGED <<plugin, held, inherited, fds, opened, errors, out, asked, faults>>

ast_finish ==
  /\ phase = "finished"
  /\ phase' = "exited"
  /\ held' = held \ {"buffer", "plugin"}
  /\ UNCHANGED <<inherited, plugin, fds, opened, errors, out, asked, faults>>

(* The compiler aborts: no callback runs any more. *)
Abort ==
  /\ phase \in {"ready", "unit", "finished"}
  /\ phase' = "aborted"
  /\ UNCHANGED <<plugin, held, inherited, fds, opened, errors, out, asked, faults>>

Next ==
  \/ RejectPlugin \/ plugin_init
  \/ start_unit_stderr \/ start_unit_file \/ start_unit_fails
  \/ \E f \in Functions : ahaggar_ast_skip(f) \/ ahaggar_ast_main(f)
  \/ SourceError
  \/ finish_unit \/ LeaveUnit \/ ast_finish \/ Abort

Spec == Init /\ [][Next]_vars

(***************************************************************************)
(* Correctness.                                                            *)
(***************************************************************************)
Phases == {"loaded", "rejected", "ready", "unit", "finished", "exited", "aborted"}

(* The plugin's fields keep their C types, and a write is recorded whole.  *)
TypeOK ==
  /\ phase \in Phases
  /\ plugin.to_files \in BOOLEAN /\ plugin.only_main \in BOOLEAN
  /\ plugin.fd \in 0..3 /\ plugin.pm_nodes \subseteq Functions
  /\ held \subseteq {"plugin", "buffer", "pmap", "logname"}
  /\ inherited \subseteq 0..2 /\ fds \subseteq 0..3 /\ opened \in -1..3
  /\ errors \in BOOLEAN /\ faults \in BOOLEAN
  /\ asked \in Seq(Functions)
  /\ \A i \in DOMAIN out : out[i].fd \in 0..3 /\ out[i].ret \in {0, -1}

(* The buffer outlives every callback, yet what a callback writes is the   *)
(* front of the text of its own function: nothing of an earlier function,  *)
(* written or refused, comes along.                                        *)
RecordsAreFresh ==
  [][out' # out /\ phase = "unit" =>
       \E f \in Functions :
         /\ asked' = Append(asked, f)
         /\ \E n \in 0..Len(Text(f)) : out'[Len(out')].text = SubSeq(Text(f), 1, n)]_vars

(* As long as the compiler found no error and every write was complete,    *)
(* the log is the header and then each function of the unit that the       *)
(* options ask for, complete and in the order it was compiled.             *)
Wanted(f) == plugin.only_main => f \in InMain

LogIsComplete ==
  ~errors /\ ~faults /\ phase \in {"unit", "finished", "exited"} =>
    LET asc == Kept(asked, {f \in Functions : Wanted(f)}) IN
    /\ Len(out) = Len(asc) + 1
    /\ out[1].text = Header
    /\ \A i \in DOMAIN asc : out[i + 1].text = Text(asc[i])

(* Nothing is ever written to a descriptor the plugin did not open: after  *)
(* a failed start_unit its descriptor is 0, somebody else's file, and only *)
(* errorcount stands between it and the next function.                     *)
OwnDescriptors ==
  \A i \in DOMAIN out : out[i].fd \in {STDERR, opened}

(* A run without errors frees all that was allocated and leaves the        *)
(* process the descriptors it was started with, whichever of the standard  *)
(* streams were closed and wherever the log went: the log is closed, on    *)
(* descriptor 0 or 1, too.  Only a log that got the 2 of a closed stderr   *)
(* stays open (ahaggar-ast.c:939).                                         *)
NothingLeftBehind ==
  phase = "exited" /\ ~errors =>
    held = {} /\ fds = inherited \cup ({opened} \cap {STDERR})
=============================================================================
