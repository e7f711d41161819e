--------------------------- MODULE AstPluginProofs ---------------------------
(***************************************************************************)
(* The AST plugin writes only to descriptors of its own, leaves nothing    *)
(* behind in a run without errors but a log on descriptor 2, and never     *)
(* writes what is left of one function for another: for every unit, every  *)
(* command line, every set of open standard streams, every failure and     *)
(* every moment the compiler may give up.                                  *)
(*                                                                         *)
(* The properties are about the end of a run or about all of the log; the  *)
(* invariant says what each phase has to leave to the next for them.       *)
(***************************************************************************)
EXTENDS AstPlugin, SequenceLemmas

(* The pieces of a text, and a write as Emit records it. *)
Piece == {"AHAGGAR_HEADER"} \cup (Functions \X {"decl", "args", "body", "newline"})

Record == [fd : 0..3, want : Seq(Piece), text : Seq(Piece), ret : {0, -1}]

Plugin == [to_files : BOOLEAN, only_main : BOOLEAN, fd : 0..3, buffer : Seq(Piece),
           pm_nodes : SUBSET Functions]

Types ==
  /\ phase \in Phases /\ plugin \in Plugin
  /\ held \subseteq {"plugin", "buffer", "pmap", "logname"}
  /\ inherited \subseteq 0..2 /\ fds \subseteq 0..3 /\ opened \in -1..3
  /\ errors \in BOOLEAN /\ faults \in BOOLEAN
  /\ asked \in Seq(Functions) /\ out \in Seq(Record)

(* Before a unit starts nothing is written, and the descriptors are those  *)
(* the compiler was started with.                                          *)
Before ==
  phase \in {"loaded", "ready"} =>
    /\ out = <<>> /\ asked = <<>> /\ opened = -1 /\ ~errors
    /\ fds = inherited
    /\ held = IF phase = "ready" THEN {"plugin", "buffer"} ELSE {}

(* Without an error the unit has the descriptor it opened, or stderr. *)
During ==
  phase = "unit" /\ ~errors =>
    /\ held = {"plugin", "buffer", "pmap"}
    /\ \/ plugin.fd = STDERR /\ opened = -1 /\ fds = inherited
       \/ /\ plugin.fd = opened /\ opened \in (0..3) \ inherited
          /\ fds = inherited \cup {opened}

(* After it, that is closed, unless it is the 2 of a closed stderr. *)
After ==
  phase \in {"finished", "exited"} /\ ~errors =>
    /\ fds = inherited \cup ({opened} \cap {STDERR})
    /\ held = IF phase = "finished" THEN {"plugin", "buffer"} ELSE {}

IInv == Types /\ Before /\ During /\ After /\ OwnDescriptors

(* The inductive invariant says what is promised.                          *)
LEMMA IInvImplies == IInv => TypeOK /\ OwnDescriptors /\ NothingLeftBehind
<1> SUFFICES ASSUME IInv PROVE TypeOK /\ NothingLeftBehind BY DEF IInv
<1>1. \A i \in DOMAIN out : out[i] \in Record
  BY ElementOfSeq, LenProperties DEF IInv, Types
<1>2. TypeOK BY <1>1 DEF IInv, Types, TypeOK, Plugin, Record
<1>3. NothingLeftBehind BY DEF IInv, After, NothingLeftBehind
<1> QED BY <1>2, <1>3

(* What is printed for a function is a sequence of pieces.                 *)
LEMMA TextType == ASSUME NEW f \in Functions PROVE Text(f) \in Seq(Piece)
<1>. DEFINE piece(name) == <<f, name>>
<1>2. /\ piece("decl") \in Piece /\ piece("args") \in Piece
      /\ piece("body") \in Piece /\ piece("newline") \in Piece
  BY DEF Piece
<1> HIDE DEF piece
<1>3. <<piece("decl"), piece("args")>> \in Seq(Piece) BY <1>2
<1>4. (IF f \in WithBody THEN <<piece("body")>> ELSE <<>>) \in Seq(Piece) BY <1>2
<1>5. <<piece("newline")>> \in Seq(Piece) BY <1>2
<1> QED BY <1>3, <1>4, <1>5, ConcatProperties DEF Text, piece

(* A write is recorded at the end, with its descriptor and a front of the  *)
(* text, and is a fault if it is not all of it.                            *)
LEMMA EmitAppends ==
  ASSUME NEW fd \in 0..3, NEW text \in Seq(Piece), out \in Seq(Record), faults \in BOOLEAN,
         Emit(fd, text)
  PROVE  /\ faults' \in BOOLEAN
         /\ \E r \in Record : out' = Append(out, r) /\ r.fd = fd
         /\ out' \in Seq(Record)
<1>1. PICK n \in -1..Len(text) :
        /\ out' = Append(out, [fd |-> fd, want |-> text, text |-> SubSeq(text, 1, n),
                               ret |-> IF n >= 0 THEN 0 ELSE -1])
        /\ faults' = (faults \/ SubSeq(text, 1, n) # text)
  BY DEF Emit
<1>2. SubSeq(text, 1, n) \in Seq(Piece)
  <2>1. \A i \in 1..n : text[i] \in Piece BY ElementOfSeq, LenProperties
  <2> QED BY <2>1, SubSeqProperties
<1>. DEFINE r == [fd |-> fd, want |-> text, text |-> SubSeq(text, 1, n),
                  ret |-> IF n >= 0 THEN 0 ELSE -1]
<1>3. r \in Record BY <1>2 DEF Record
<1>4. out' = Append(out, r) BY <1>1
<1> QED BY <1>1, <1>3, <1>4

(* A write to a descriptor of its own keeps OwnDescriptors. *)
LEMMA AppendOwn ==
  ASSUME out \in Seq(Record), OwnDescriptors, UNCHANGED opened \/ out = <<>>,
         NEW r \in Record, out' = Append(out, r), r.fd \in {STDERR, opened'}
  PROVE  OwnDescriptors'
<1>1. DOMAIN out' = 1..(Len(out) + 1) /\ DOMAIN out = 1..Len(out)
      /\ out'[Len(out) + 1] = r /\ \A i \in 1..Len(out) : out'[i] = out[i]
  OBVIOUS
<1>2. ASSUME NEW i \in DOMAIN out' PROVE out'[i].fd \in {STDERR, opened'}
  <2>1. CASE i = Len(out) + 1 BY <1>1, <2>1
  <2>2. CASE i # Len(out) + 1
    <3>1. i \in 1..Len(out) BY <1>1, <2>2
    <3>2. out # <<>> BY <3>1
    <3> QED BY <1>1, <3>1, <3>2 DEF OwnDescriptors
  <2> QED BY <2>1, <2>2
<1> QED BY <1>2 DEF OwnDescriptors

(* open(2) finds a descriptor, as the compiler has at most those three. *)
LEMMA LowestIsFree ==
  ASSUME fds \subseteq 0..2
  PROVE  LowestFree \in 0..3 /\ LowestFree \notin fds
<1>1. \E d \in 0..3 : d \notin fds /\ \A e \in 0..(d - 1) : e \in fds
  <2>1. CASE 0 \notin fds BY <2>1
  <2>2. CASE 0 \in fds /\ 1 \notin fds
    <3>1. \A e \in 0..(1 - 1) : e \in fds BY <2>2
    <3> QED BY <2>2, <3>1
  <2>3. CASE 0 \in fds /\ 1 \in fds /\ 2 \notin fds
    <3>1. \A e \in 0..(2 - 1) : e \in fds BY <2>3
    <3> QED BY <2>3, <3>1
  <2>4. CASE 0 \in fds /\ 1 \in fds /\ 2 \in fds
    <3>1. 3 \notin fds /\ \A e \in 0..(3 - 1) : e \in fds BY <2>4
    <3> QED BY <3>1
  <2> QED BY <2>1, <2>2, <2>3, <2>4
<1>2. LowestFree \in 0..3 /\ LowestFree \notin fds BY <1>1 DEF LowestFree
<1> QED BY <1>2

(* It holds when the plugin is loaded.                                     *)
LEMMA InitIInv == Init => IInv
<1> SUFFICES ASSUME Init PROVE IInv OBVIOUS
<1>1. plugin \in Plugin
  <2>1. <<>> \in Seq(Piece) OBVIOUS
  <2> QED BY <2>1 DEF Init, Cleared, Plugin
<1>2. Types
  <2>1. <<>> \in Seq(Record) /\ <<>> \in Seq(Functions) OBVIOUS
  <2>2. inherited \subseteq 0..2 /\ fds = inherited /\ fds \subseteq 0..3 BY DEF Init
  <2>3. phase \in Phases /\ held = {} /\ opened = -1 BY DEF Init, Phases
  <2>4. errors \in BOOLEAN /\ faults \in BOOLEAN BY DEF Init
  <2>5. asked = <<>> /\ out = <<>> BY DEF Init
  <2> QED BY <1>1, <2>1, <2>2, <2>3, <2>4, <2>5 DEF Types
<1>3. Before /\ During /\ After /\ OwnDescriptors
  BY DEF Init, Before, During, After, OwnDescriptors
<1> QED BY <1>2, <1>3 DEF IInv

(* The callbacks that start a unit. *)
LEMMA StartIInv ==
  ASSUME IInv, start_unit_stderr \/ start_unit_file \/ start_unit_fails
  PROVE  IInv'
<1>1. /\ phase = "ready" /\ out = <<>> /\ opened = -1 /\ ~errors
      /\ fds = inherited /\ fds \subseteq 0..2 /\ held = {"plugin", "buffer"}
      /\ Types
  BY DEF IInv, Types, Before, start_unit_stderr, start_unit_file, start_unit_fails
<1>2. Header \in Seq(Piece)
  <2>1. "AHAGGAR_HEADER" \in Piece BY DEF Piece
  <2> QED BY <2>1 DEF Header
<1>3. ASSUME NEW fd \in 0..3, StartUnit(fd) PROVE /\ plugin' \in Plugin /\ plugin'.fd = fd
        /\ phase' = "unit" /\ UNCHANGED <<errors, asked>>
        /\ out' \in Seq(Record) /\ faults' \in BOOLEAN
        /\ \E r \in Record : out' = Append(out, r) /\ r.fd = fd
  <2>1. plugin' = [plugin EXCEPT !.pm_nodes = {}, !.fd = fd] BY <1>3 DEF StartUnit
  <2>2. plugin' \in Plugin /\ plugin'.fd = fd BY <1>1, <2>1 DEF Types, Plugin
  <2>3. out \in Seq(Record) /\ faults \in BOOLEAN /\ Emit(fd, Header)
    BY <1>1, <1>3 DEF Types, StartUnit
  <2> QED BY <1>2, <1>3, <2>2, <2>3, EmitAppends DEF StartUnit
<1>4. CASE start_unit_stderr
  <2>1. StartUnit(STDERR) /\ STDERR \in 0..3 /\ held' = held \cup {"pmap"}
        /\ UNCHANGED <<inherited, fds, opened>>
    BY <1>4 DEF start_unit_stderr, STDERR
  <2>2. OwnDescriptors' BY <1>1, <1>3, <2>1, AppendOwn DEF IInv, Types
  <2> QED BY <1>1, <1>3, <2>1, <2>2 DEF IInv, Types, Before, During, After, Phases
<1>5. CASE start_unit_file
  <2>1. LowestFree \in 0..3 /\ LowestFree \notin fds BY <1>1, LowestIsFree
  <2>2. StartUnit(LowestFree) /\ LowestFree \in 0..3 /\ held' = held \cup {"pmap"}
        /\ fds' = fds \cup {LowestFree} /\ opened' = LowestFree /\ UNCHANGED inherited
    BY <1>5, <2>1 DEF start_unit_file
  <2>3. OwnDescriptors' BY <1>1, <1>3, <2>2, AppendOwn DEF IInv, Types
  <2>4. Types' BY <1>1, <1>3, <2>1, <2>2 DEF Types, Phases
  <2>5. Before' /\ During' /\ After' BY <1>1, <1>3, <2>1, <2>2 DEF Before, During, After
  <2> QED BY <2>3, <2>4, <2>5 DEF IInv
<1>6. CASE start_unit_fails
  <2>1. plugin' \in Plugin BY <1>1, <1>6 DEF start_unit_fails, Types, Plugin
  <2>2. held' \subseteq {"plugin", "buffer", "pmap", "logname"} /\ errors' /\ phase' = "unit"
        /\ errors' \in BOOLEAN /\ UNCHANGED <<inherited, fds, opened, out, asked, faults>>
    BY <1>1, <1>6 DEF start_unit_fails
  <2> QED BY <1>1, <2>1, <2>2
    DEF IInv, Types, Before, During, After, Phases, OwnDescriptors
<1> QED BY <1>4, <1>5, <1>6

(* The callback for a function. *)
LEMMA FunctionIInv ==
  ASSUME IInv, NEW f \in Functions, ahaggar_ast_skip(f) \/ ahaggar_ast_main(f)
  PROVE  IInv'
<1>1. phase = "unit" /\ UNCHANGED <<phase, held, inherited, fds, opened, errors>>
      /\ asked' = Append(asked, f) /\ Types
  BY DEF ahaggar_ast_skip, ahaggar_ast_main, IInv
<1>2. asked' \in Seq(Functions) BY <1>1 DEF Types
<1>3. CASE ahaggar_ast_skip(f)
  <2>0. Flushed \in Seq(Piece) BY DEF Flushed
  <2>1. plugin' \in Plugin /\ plugin'.fd = plugin.fd /\ UNCHANGED <<out, faults>>
    BY <1>1, <1>3, <2>0 DEF ahaggar_ast_skip, Types, Plugin
  <2> QED BY <1>1, <1>2, <2>1
    DEF IInv, Types, Before, During, After, Phases, OwnDescriptors
<1>4. CASE ahaggar_ast_main(f)
  <2>1. Flushed \o Text(f) \in Seq(Piece) BY TextType DEF Flushed
  <2>2. plugin' = [plugin EXCEPT !.buffer = Flushed \o Text(f), !.pm_nodes = @ \cup {f}]
        /\ Emit(plugin.fd, plugin'.buffer) /\ ~errors
    BY <1>4 DEF ahaggar_ast_main, Skips
  <2>3. plugin' \in Plugin /\ plugin'.fd = plugin.fd /\ plugin.fd \in 0..3
        /\ plugin'.buffer \in Seq(Piece)
    BY <1>1, <2>1, <2>2 DEF Types, Plugin
  <2>4. faults' \in BOOLEAN /\ out' \in Seq(Record)
        /\ \E r \in Record : out' = Append(out, r) /\ r.fd = plugin.fd
    BY <1>1, <2>2, <2>3, EmitAppends DEF Types
  <2>5. plugin.fd \in {STDERR, opened} BY <1>1, <2>2 DEF IInv, During
  <2>6. OwnDescriptors' BY <1>1, <2>4, <2>5, AppendOwn DEF IInv, Types
  <2> QED BY <1>1, <1>2, <2>3, <2>4, <2>6 DEF IInv, Types, Before, During, After, Phases
<1> QED BY <1>3, <1>4

(* Every callback keeps it, whatever fails.                                *)
LEMMA NextIInv == IInv /\ [Next]_vars => IInv'
<1> SUFFICES ASSUME IInv, [Next]_vars PROVE IInv' OBVIOUS
<1>. USE DEF IInv, Types, Before, During, After, OwnDescriptors, Phases
<1>0. \A argv, key, value : Given(argv, key, value) \in BOOLEAN BY DEF Given
<1>1. CASE RejectPlugin BY <1>1 DEF RejectPlugin
<1>2. CASE plugin_init
  <2>0. <<>> \in Seq(Piece) OBVIOUS
  <2>1. PICK argv \in Arguments :
          plugin' = [Cleared EXCEPT !.to_files = Given(argv, "output", "files"),
                                    !.only_main = Given(argv, "unit", "main")]
    BY <1>2 DEF plugin_init
  <2>. DEFINE files == Given(argv, "output", "files")
              main == Given(argv, "unit", "main")
  <2>2. files \in BOOLEAN /\ main \in BOOLEAN BY <1>0
  <2>3. plugin' = [Cleared EXCEPT !.to_files = files, !.only_main = main] BY <2>1
  <2> HIDE DEF files, main
  <2>4. plugin' = [to_files |-> files, only_main |-> main, fd |-> 0, buffer |-> <<>>,
                   pm_nodes |-> {}]
    BY <2>3 DEF Cleared
  <2>5. plugin' \in Plugin BY <2>0, <2>2, <2>4 DEF Plugin
  <2> QED BY <1>2, <2>5 DEF plugin_init
<1>3. CASE start_unit_stderr \/ start_unit_file \/ start_unit_fails BY <1>3, StartIInv
<1>4. ASSUME NEW f \in Functions, ahaggar_ast_skip(f) \/ ahaggar_ast_main(f) PROVE IInv'
  BY <1>4, FunctionIInv
<1>5. CASE SourceError BY <1>5 DEF SourceError
<1>6. CASE finish_unit
  <2>1. /\ phase = "unit" /\ phase' = "finished" /\ held' = held \ {"pmap"}
        /\ fds' = IF plugin.fd # STDERR THEN fds \ {plugin.fd} ELSE fds
        /\ UNCHANGED <<inherited, plugin, opened, errors, out, asked, faults>>
    BY <1>6 DEF finish_unit
  <2>2. Types' /\ Before' /\ During' /\ OwnDescriptors' BY <2>1
  <2>3. After'
    <3> SUFFICES ASSUME ~errors PROVE fds' = inherited \cup ({opened} \cap {STDERR})
                                      /\ held' = {"plugin", "buffer"}
      BY <2>1
    <3>1. CASE plugin.fd = STDERR /\ opened = -1 /\ fds = inherited BY <2>1, <3>1 DEF STDERR
    <3>2. CASE plugin.fd = opened /\ opened = STDERR /\ fds = inherited \cup {opened}
      BY <2>1, <3>2
    <3>3. CASE /\ plugin.fd = opened /\ opened # STDERR /\ opened \notin inherited
               /\ fds = inherited \cup {opened}
      BY <2>1, <3>3
    <3> QED BY <2>1, <3>1, <3>2, <3>3
  <2> QED BY <2>2, <2>3
<1>7. CASE LeaveUnit BY <1>7 DEF LeaveUnit
<1>8. CASE ast_finish BY <1>8 DEF ast_finish
<1>9. CASE Abort BY <1>9 DEF Abort
<1>10. CASE UNCHANGED vars BY <1>10 DEF vars
<1> QED BY <1>1, <1>2, <1>3, <1>4, <1>5, <1>6, <1>7, <1>8, <1>9, <1>10 DEF Next

------------------------------------------------------------------------------
(* The functions the options ask for, as a set. *)
Asked == {f \in Functions : Wanted(f)}

(* The text of a complete write is all of the text. *)
LEMMA EmitWhole ==
  ASSUME NEW fd, NEW text, Emit(fd, text), ~faults', out \in Seq(Record), out' \in Seq(Record)
  PROVE  /\ Len(out') = Len(out) + 1 /\ out'[Len(out) + 1].text = text
         /\ \A i \in 1..Len(out) : out'[i] = out[i]
<1>1. PICK n \in -1..Len(text) :
        /\ out' = Append(out, [fd |-> fd, want |-> text, text |-> SubSeq(text, 1, n),
                               ret |-> IF n >= 0 THEN 0 ELSE -1])
        /\ faults' = (faults \/ SubSeq(text, 1, n) # text)
  BY DEF Emit
<1>2. SubSeq(text, 1, n) = text BY <1>1
<1>. DEFINE r == [fd |-> fd, want |-> text, text |-> SubSeq(text, 1, n),
                  ret |-> IF n >= 0 THEN 0 ELSE -1]
<1>3. out' = Append(out, r) /\ r.text = text BY <1>1, <1>2
<1> HIDE DEF r
<1> QED BY <1>3

(* Each callback adds to the log what it adds to what was asked for.       *)
LEMMA CompleteNext ==
  ASSUME IInv, LogIsComplete, [Next]_vars
  PROVE  LogIsComplete'
<1> SUFFICES ASSUME ~errors', ~faults', phase' \in {"unit", "finished", "exited"}
             PROVE  /\ Len(out') = Len(Kept(asked', Asked')) + 1
                    /\ out'[1].text = Header
                    /\ \A i \in DOMAIN Kept(asked', Asked') :
                         out'[i + 1].text = Text(Kept(asked', Asked')[i])
  BY DEF LogIsComplete, Asked
<1>1. IInv' BY NextIInv
<1>2. out \in Seq(Record) /\ out' \in Seq(Record) /\ asked \in Seq(Functions)
  BY <1>1 DEF IInv, Types
<1>3. CASE \E fd : phase = "ready" /\ asked' = asked /\ Emit(fd, Header)
  <2>1. out = <<>> /\ asked' = <<>> BY <1>3 DEF IInv, Before
  <2>2. Len(out') = 1 /\ out'[1].text = Header BY <1>2, <1>3, <2>1, EmitWhole
  <2> QED BY <2>1, <2>2, KeptEmpty
<1>4. CASE phase \in {"unit", "finished", "exited"} /\ ~errors /\ ~faults
           /\ plugin'.only_main = plugin.only_main
  <2>1. /\ Len(out) = Len(Kept(asked, Asked)) + 1 /\ out[1].text = Header
        /\ \A i \in DOMAIN Kept(asked, Asked) : out[i + 1].text = Text(Kept(asked, Asked)[i])
    BY <1>4 DEF LogIsComplete, Asked
  <2>2. Asked' = Asked BY <1>4 DEF Asked, Wanted
  <2>3. CASE UNCHANGED <<out, asked>> BY <2>1, <2>2, <2>3
  <2>4. ASSUME NEW f \in Functions, ahaggar_ast_skip(f) PROVE UNCHANGED out /\ Kept(asked', Asked) = Kept(asked, Asked)
    <3>1. f \notin Asked /\ asked' = Append(asked, f) /\ UNCHANGED out
      BY <1>4, <2>4 DEF ahaggar_ast_skip, Skips, Asked, Wanted
    <3> QED BY <1>2, <3>1, KeptAppend
  <2>5. ASSUME NEW f \in Functions, ahaggar_ast_main(f)
        PROVE  /\ Len(out') = Len(Kept(asked', Asked)) + 1
               /\ out'[1].text = Header
               /\ \A i \in DOMAIN Kept(asked', Asked) :
                    out'[i + 1].text = Text(Kept(asked', Asked)[i])
    <3>. DEFINE kept == Kept(asked, Asked)
    <3>1. /\ f \in Asked /\ asked' = Append(asked, f)
          /\ plugin' = [plugin EXCEPT !.buffer = Flushed \o Text(f), !.pm_nodes = @ \cup {f}]
          /\ Emit(plugin.fd, plugin'.buffer)
      BY <1>4, <2>5 DEF ahaggar_ast_main, Skips, Asked, Wanted
    <3>2. Text(f) \in Seq(Piece) /\ Flushed \o Text(f) = Text(f)
      BY TextType, ConcatEmptySeq DEF Flushed
    <3>3. plugin'.buffer = Text(f) BY <3>1, <3>2 DEF IInv, Types, Plugin
    <3>4. kept \in Seq(Functions) /\ Kept(asked', Asked) = Append(kept, f)
      BY <1>2, <3>1, KeptAppend
    <3>5. /\ Len(out') = Len(out) + 1 /\ out'[Len(out) + 1].text = Text(f)
          /\ \A i \in 1..Len(out) : out'[i] = out[i]
      BY <1>2, <3>1, <3>3, EmitWhole
    <3> HIDE DEF kept
    <3>6. /\ DOMAIN Append(kept, f) = 1..(Len(kept) + 1) /\ DOMAIN kept = 1..Len(kept)
          /\ Append(kept, f)[Len(kept) + 1] = f /\ Len(kept) \in Nat
          /\ \A i \in 1..Len(kept) : Append(kept, f)[i] = kept[i]
      BY <3>4
    <3>7. Len(out) = Len(kept) + 1 /\ out[1].text = Header
          /\ \A i \in 1..Len(kept) : out[i + 1].text = Text(kept[i])
      BY <2>1, <3>6 DEF kept
    <3>8. ASSUME NEW i \in 1..(Len(kept) + 1)
          PROVE  out'[i + 1].text = Text(Append(kept, f)[i])
      <4>1. CASE i = Len(kept) + 1 BY <3>5, <3>6, <3>7, <4>1
      <4>2. CASE i # Len(kept) + 1
        <5>1. i \in 1..Len(kept) /\ i + 1 \in 1..Len(out) BY <3>6, <3>7, <4>2
        <5> QED BY <3>5, <3>6, <3>7, <5>1
      <4> QED BY <4>1, <4>2
    <3>9. Len(Append(kept, f)) = Len(kept) + 1 /\ 1 \in 1..Len(out) BY <3>4, <3>6, <3>7
    <3> QED BY <3>4, <3>5, <3>6, <3>7, <3>8, <3>9
  <2>6. CASE \E f \in Functions : ahaggar_ast_skip(f) BY <2>1, <2>2, <2>4, <2>6
  <2>7. CASE \E f \in Functions : ahaggar_ast_main(f) BY <2>2, <2>5, <2>7
  <2>8. \/ UNCHANGED <<out, asked>>
        \/ \E f \in Functions : ahaggar_ast_skip(f) \/ ahaggar_ast_main(f)
    BY <1>4 DEF Next, vars, RejectPlugin, plugin_init, start_unit_stderr, start_unit_file,
           start_unit_fails, StartUnit, SourceError, finish_unit, LeaveUnit, ast_finish, Abort
  <2> QED BY <2>3, <2>6, <2>7, <2>8
<1>5. plugin \in Plugin /\ phase \in Phases /\ errors \in BOOLEAN /\ faults \in BOOLEAN
  BY DEF IInv, Types
<1>6. \/ \E fd : phase = "ready" /\ asked' = asked /\ Emit(fd, Header)
      \/ phase \in {"unit", "finished", "exited"} /\ ~errors /\ ~faults
         /\ plugin'.only_main = plugin.only_main
  <2>1. CASE start_unit_stderr \/ start_unit_file
    BY <2>1 DEF start_unit_stderr, start_unit_file, StartUnit
  <2>2. ASSUME NEW f \in Functions, ahaggar_ast_skip(f)
        PROVE  phase = "unit" /\ ~errors /\ ~faults /\ plugin'.only_main = plugin.only_main
    BY <1>5, <2>2 DEF ahaggar_ast_skip, Plugin
  <2>3. ASSUME NEW f \in Functions, ahaggar_ast_main(f)
        PROVE  phase = "unit" /\ ~errors /\ ~faults /\ plugin'.only_main = plugin.only_main
    <3>1. faults' = TRUE \/ ~faults BY <2>3 DEF ahaggar_ast_main, Emit
    <3> QED BY <1>5, <2>3, <3>1 DEF ahaggar_ast_main, Plugin
  <2>4. CASE RejectPlugin \/ plugin_init \/ start_unit_fails \/ SourceError \/ finish_unit
             \/ LeaveUnit \/ ast_finish \/ Abort \/ UNCHANGED vars
    BY <2>4 DEF RejectPlugin, plugin_init, start_unit_fails, SourceError, finish_unit,
           LeaveUnit, ast_finish, Abort, vars
  <2> QED BY <2>1, <2>2, <2>3, <2>4 DEF Next
<1> QED BY <1>3, <1>4, <1>6

(* As long as nothing fails the log has the header and every function the  *)
(* options ask for, complete and in order, however many the unit has.      *)
THEOREM LogComplete == Spec => []LogIsComplete
<1>1. Init => LogIsComplete BY DEF Init, LogIsComplete
<1> QED BY <1>1, InitIInv, NextIInv, CompleteNext, PTL DEF Spec

(* No write ever goes to somebody else's descriptor, and a run without     *)
(* errors closes and frees all it took but a log on descriptor 2,          *)
(* whichever standard streams were closed when it started.                 *)
THEOREM PluginSafe == Spec => [](TypeOK /\ OwnDescriptors /\ NothingLeftBehind)
BY InitIInv, NextIInv, IInvImplies, PTL DEF Spec

(* What a callback writes is a front of the text of its own function.      *)
THEOREM RecordsFresh == Spec => RecordsAreFresh
<1>1. IInv /\ [Next]_vars =>
        [out' # out /\ phase = "unit" =>
           \E f \in Functions :
             /\ asked' = Append(asked, f)
             /\ \E n \in 0..Len(Text(f)) : out'[Len(out')].text = SubSeq(Text(f), 1, n)]_vars
  <2> SUFFICES ASSUME IInv, Next, out' # out, phase = "unit"
               PROVE  \E f \in Functions :
                        /\ asked' = Append(asked, f)
                        /\ \E n \in 0..Len(Text(f)) :
                             out'[Len(out')].text = SubSeq(Text(f), 1, n)
    BY DEF vars
  <2>1. PICK f \in Functions : ahaggar_ast_main(f)
    BY DEF Next, RejectPlugin, plugin_init, start_unit_stderr, start_unit_file,
           start_unit_fails, StartUnit, ahaggar_ast_skip, SourceError, finish_unit,
           LeaveUnit, ast_finish, Abort
  <2>2. Text(f) \in Seq(Piece) /\ Flushed \o Text(f) = Text(f)
    BY TextType, ConcatEmptySeq DEF Flushed
  <2>3. plugin'.buffer = Text(f) BY <2>1, <2>2 DEF ahaggar_ast_main, IInv, Types, Plugin
  <2>4. PICK n \in -1..Len(Text(f)) :
          out' = Append(out, [fd |-> plugin.fd, want |-> Text(f),
                              text |-> SubSeq(Text(f), 1, n),
                              ret |-> IF n >= 0 THEN 0 ELSE -1])
    BY <2>1, <2>3 DEF ahaggar_ast_main, Emit
  <2>5. out'[Len(out')].text = SubSeq(Text(f), 1, n) BY <2>4 DEF IInv, Types
  <2>6. n = -1 => SubSeq(Text(f), 1, n) = SubSeq(Text(f), 1, 0) BY SubSeqEmpty
  <2>7. Len(Text(f)) \in Nat /\ (n \in 0..Len(Text(f)) \/ n = -1) BY <2>2
  <2>8. \E m \in 0..Len(Text(f)) : out'[Len(out')].text = SubSeq(Text(f), 1, m)
    <3>1. CASE n = -1 BY <2>5, <2>6, <2>7, <3>1
    <3>2. CASE n \in 0..Len(Text(f)) BY <2>5, <3>2
    <3> QED BY <2>7, <3>1, <3>2
  <2> QED BY <2>1, <2>8 DEF ahaggar_ast_main
<1> QED BY <1>1, InitIInv, NextIInv, PTL DEF Spec, RecordsAreFresh
=============================================================================
