----------------------------- MODULE XInstrument -----------------------------
(***************************************************************************)
(* ahaggar-xinstrument.c and xinstrument_calls/: the GIMPLE pass that adds *)
(* calls to run-time checks after the calls in tcalls[].                   *)
(*                                                                         *)
(* The pass walks the statements of a function while it inserts into them: *)
(* the iterator of ahg_bb_gimple_stmt comes to what gxinstrument_target    *)
(* put behind it, and a function can be one of the checks' own.  A step is *)
(* the visit of a statement, or one entry of its target's builtins.        *)
(*                                                                         *)
(* A statement of the source has an id and for = 0; an inserted check has  *)
(* the id of its target in `for'.  What gxbuild builds is not in the       *)
(* repository: it returns a call or NULL, and its declaration may be       *)
(* artificial or not.                                                      *)
(***************************************************************************)
EXTENDS Naturals, Selecting, SequencesExt

CONSTANTS
  Sources,      \* the functions to compile: a name and basic blocks
  tcalls,       \* name of a target -> names of its builtins, in order
  NoDecl        \* gimple_call_fndecl of a call through a pointer

Statement ==
  [code : {"GIMPLE_CALL", "GIMPLE_ASSIGN"}, callee : STRING \cup {NoDecl},
   artificial : BOOLEAN, id : Nat, for : Nat]

Builtins == UNION {{tcalls[t][i] : i \in DOMAIN tcalls[t]} : t \in DOMAIN tcalls}

(* The table names a check once for a target, and no check as a target. *)
ASSUME TableAssumption ==
  /\ \A t \in DOMAIN tcalls : tcalls[t] \in Seq(STRING)
  /\ \A t \in DOMAIN tcalls : \A i, j \in DOMAIN tcalls[t] :
       tcalls[t][i] = tcalls[t][j] => i = j
  /\ Builtins \cap DOMAIN tcalls = {}

(* An id is a statement's own. *)
ASSUME SourceAssumption ==
  \A f \in Sources :
    /\ f.blocks \in Seq(Seq(Statement))
    /\ \A b \in DOMAIN f.blocks : \A i \in DOMAIN f.blocks[b] :
         f.blocks[b][i].id > 0 /\ f.blocks[b][i].for = 0
    /\ \A b, c \in DOMAIN f.blocks :
         \A i \in DOMAIN f.blocks[b], j \in DOMAIN f.blocks[c] :
           f.blocks[b][i].id = f.blocks[c][j].id => b = c /\ i = j

VARIABLES
  fn,       \* current_function_decl as the source has it, Idle between passes
  blocks,   \* its basic blocks as they are now
  bb, gsi,  \* where the iterators of the pass stand
  ib,       \* the entry of the builtins table to try, 0 while none is
  failed    \* the checks gxbuild gave no call for: target and builtin

vars == <<fn, blocks, bb, gsi, ib, failed>>

Idle == [name |-> "", blocks |-> <<>>]

is_builtin(name) == name \in Builtins

is_target(name) == name \in DOMAIN tcalls

IsCall(s) == s.code = "GIMPLE_CALL" /\ s.callee # NoDecl /\ ~s.artificial

ahg_check_gimple_stmt(s) ==
  IsCall(s) /\ ~is_builtin(fn.name) /\ is_target(s.callee)

(***************************************************************************)
(* The pass.                                                               *)
(***************************************************************************)
Running == fn # Idle

AtStmt == Running /\ bb <= Len(blocks) /\ gsi <= Len(blocks[bb])

Stmt == blocks[bb][gsi]

Init ==
  /\ fn = Idle /\ blocks = <<>>
  /\ bb = 1 /\ gsi = 1 /\ ib = 0
  /\ failed = {}

ahaggar_xinstrument_main(f) ==
  /\ ~Running
  /\ fn' = f /\ blocks' = f.blocks
  /\ bb' = 1 /\ gsi' = 1 /\ ib' = 0
  /\ failed' = {}

(* The statement needs no check: gsi_next. *)
SkipStmt ==
  /\ AtStmt /\ ib = 0
  /\ ~ahg_check_gimple_stmt(Stmt)
  /\ gsi' = gsi + 1
  /\ UNCHANGED <<fn, blocks, bb, ib, failed>>

ahg_instrument_gimple_call ==
  /\ AtStmt /\ ib = 0
  /\ ahg_check_gimple_stmt(Stmt)
  /\ ib' = 1
  /\ UNCHANGED <<fn, blocks, bb, gsi, failed>>

Entry == tcalls[Stmt.callee][ib]

HasEntry == ib \in DOMAIN tcalls[Stmt.callee]

(* Mutant of InsertPosition: the check goes to the end of the block. *)
AtBlockEnd == Len(blocks[bb]) + 1

(* gsi_for_stmt and gsi_insert_after: right behind the target, in front of *)
(* the checks inserted for it before.                                      *)
InsertPosition == gsi + 1

Check(artificial) ==
  [code |-> "GIMPLE_CALL", callee |-> Entry, artificial |-> artificial,
   id |-> 0, for |-> Stmt.id]

gxinsert_call ==
  /\ AtStmt /\ ib > 0 /\ HasEntry
  /\ \E artificial \in BOOLEAN :
       blocks' = [blocks EXCEPT ![bb] = InsertAt(@, InsertPosition, Check(artificial))]
  /\ ib' = ib + 1
  /\ UNCHANGED <<fn, bb, gsi, failed>>

(* Mutant of BuildFails: the failure ends the loop over the builtins. *)
BuildGivesUp ==
  /\ AtStmt /\ ib > 0 /\ HasEntry
  /\ failed' = failed \cup {<<Stmt.id, Entry>>}
  /\ ib' = Len(tcalls[Stmt.callee]) + 1
  /\ UNCHANGED <<fn, blocks, bb, gsi>>

(* gxbuild returns NULL: nothing is inserted, the other entries still are. *)
BuildFails ==
  /\ AtStmt /\ ib > 0 /\ HasEntry
  /\ failed' = failed \cup {<<Stmt.id, Entry>>}
  /\ ib' = ib + 1
  /\ UNCHANGED <<fn, blocks, bb, gsi>>

(* Mutant of InstrumentEnd: the iterator is left on the statement. *)
InstrumentStays ==
  /\ AtStmt /\ ib > 0 /\ ~HasEntry
  /\ ib' = 0
  /\ UNCHANGED <<fn, blocks, bb, gsi, failed>>

(* The last entry was tried: gsi_next. *)
InstrumentEnd ==
  /\ AtStmt /\ ib > 0 /\ ~HasEntry
  /\ ib' = 0 /\ gsi' = gsi + 1
  /\ UNCHANGED <<fn, blocks, bb, failed>>

(* Mutant of NextBlock: the iterator is not set to the next block's start. *)
NextBlockKeeps ==
  /\ Running /\ bb <= Len(blocks) /\ gsi > Len(blocks[bb])
  /\ bb' = bb + 1
  /\ UNCHANGED <<fn, blocks, gsi, ib, failed>>

NextBlock ==
  /\ Running /\ bb <= Len(blocks) /\ gsi > Len(blocks[bb])
  /\ bb' = bb + 1 /\ gsi' = 1
  /\ UNCHANGED <<fn, blocks, ib, failed>>

(* The pass returns; the function is left to the rest of the compiler. *)
PassReturns ==
  /\ Running /\ bb > Len(blocks)
  /\ fn' = Idle /\ blocks' = <<>>
  /\ bb' = 1 /\ gsi' = 1 /\ failed' = {}
  /\ UNCHANGED ib

Pass ==
  \/ SkipStmt \/ ahg_instrument_gimple_call
  \/ gxinsert_call \/ BuildFails \/ InstrumentEnd
  \/ NextBlock \/ PassReturns

Next == Pass \/ \E f \in Sources : ahaggar_xinstrument_main(f)

Spec == Init /\ [][Next]_vars

(* The pass is a loop of the compiler's only thread. *)
FairSpec == Spec /\ WF_vars(Pass)

(***************************************************************************)
(* Correctness.                                                            *)
(***************************************************************************)
(* The iterators stay inside the function or one past an end, and only     *)
(* statements are in its blocks.                                           *)
TypeOK ==
  /\ fn \in Sources \cup {Idle}
  /\ blocks \in Seq(Seq(Statement))
  /\ bb \in 1..(Len(blocks) + 1)
  /\ gsi \in 1..(IF bb <= Len(blocks) THEN Len(blocks[bb]) + 1 ELSE 1)
  /\ ib \in Nat

IsSource(s) == s.for = 0

(* Where a builtin stands in the table of the target t. *)
Rank(t, name) == CHOOSE i \in DOMAIN tcalls[t] : tcalls[t][i] = name

(* A check is behind its target, or behind one of the same target that     *)
(* comes later in the table.                                               *)
Follows(block, i) ==
  LET s == block[i]
      before == block[i - 1]
  IN
  /\ i > 1
  /\ \/ IsSource(before) /\ before.id = s.for /\ is_target(before.callee)
     \/ /\ before.for = s.for
        /\ \E k \in 1..(i - 1) :
             /\ block[k].id = s.for /\ is_target(block[k].callee)
             /\ Rank(block[k].callee, before.callee) > Rank(block[k].callee, s.callee)

(* Between a target and its checks nothing runs, and no check is there     *)
(* twice or checks a check.  No function the checks call has any.          *)
ChecksFollowTarget ==
  \A b \in DOMAIN blocks : \A i \in DOMAIN blocks[b] :
    ~IsSource(blocks[b][i]) => ~is_builtin(fn.name) /\ Follows(blocks[b], i)

(* The block a source block should become: each statement, and behind it    *)
(* the checks of a target that could be built, the last of the table first. *)
Unfailed(s) == {name \in Builtins : <<s.id, name>> \notin failed}

Built(s) == Kept(tcalls[s.callee], Unfailed(s))

Call(s) == [callee |-> s.callee, id |-> s.id, for |-> s.for]

Checked(s) ==
  LET checks == IF IsCall(s) /\ is_target(s.callee) /\ ~is_builtin(fn.name)
                THEN Reverse(Built(s)) ELSE <<>>
  IN  <<Call(s)>> \o [i \in DOMAIN checks |-> [callee |-> checks[i], id |-> 0, for |-> s.id]]

Woven(block) == FlattenSeq([i \in DOMAIN block |-> Checked(block[i])])

(* When the pass is over the function is the source with its checks woven  *)
(* in.  Inserting into the block it walks makes the pass neither lose,     *)
(* repeat, reorder nor skip a statement, and a check that cannot be built  *)
(* costs no other.                                                         *)
ResultIsWoven ==
  Running /\ bb > Len(blocks) =>
    \A b \in DOMAIN blocks :
      [i \in DOMAIN blocks[b] |-> Call(blocks[b][i])] = Woven(fn.blocks[b])

(* The pass returns although it walks over what it inserts. *)
PassEnds == []<>~Running
=============================================================================
