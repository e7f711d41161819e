-------------------------- MODULE XInstrumentProofs --------------------------
(***************************************************************************)
(* ChecksSafe: the checks follow their targets, for every table and every  *)
(* function.  Inserting into the block it walks, the pass never puts a     *)
(* check behind a check, in the wrong order, or into a function the checks *)
(* call.  The property is not inductive: it says nothing of what is ahead  *)
(* of the pass, where there are no checks yet (Ahead, Fresh) but those of  *)
(* the target just visited (ChecksFirst), nor which of these were inserted *)
(* already (AtTarget).                                                     *)
(*                                                                         *)
(* ResultWoven: what the pass leaves is the source with its checks woven   *)
(* in.  The invariant says of every block how far it is woven (BlockInv).  *)
(***************************************************************************)
EXTENDS XInstrument, SequenceLemmas, SequenceTheorems, TLAPS

(* Whatever is inserted is a call of a check. *)
OnlyChecks ==
  \A b \in DOMAIN blocks : \A i \in DOMAIN blocks[b] :
    /\ IsSource(blocks[b][i]) => blocks[b][i].id > 0
    /\ ~IsSource(blocks[b][i]) => blocks[b][i].callee \in Builtins

(* Blocks the pass has not come to have no checks. *)
Ahead ==
  \A b \in DOMAIN blocks : b > bb =>
    \A i \in DOMAIN blocks[b] : IsSource(blocks[b][i])

(* In the block it is in, checks still to be passed come first. *)
ChecksFirst ==
  bb \in DOMAIN blocks =>
    \A i, j \in DOMAIN blocks[bb] :
      gsi < j /\ j < i /\ IsSource(blocks[bb][j]) => IsSource(blocks[bb][i])

(* Behind a statement of the source that was not looked at there are none. *)
Fresh ==
  AtStmt /\ ib = 0 /\ IsSource(Stmt) =>
    \A i \in DOMAIN blocks[bb] : i > gsi => IsSource(blocks[bb][i])

(* The pass is at a target, and the check behind it, if there is one, is   *)
(* an entry of the table it has tried.                                     *)
AtTarget ==
  ib > 0 =>
    /\ AtStmt /\ IsSource(Stmt) /\ is_target(Stmt.callee) /\ ~is_builtin(fn.name)
    /\ gsi + 1 \in DOMAIN blocks[bb] /\ ~IsSource(blocks[bb][gsi + 1]) =>
         \E j \in DOMAIN tcalls[Stmt.callee] :
           j < ib /\ blocks[bb][gsi + 1].callee = tcalls[Stmt.callee][j]

IInv ==
  /\ TypeOK /\ OnlyChecks /\ Ahead /\ ChecksFirst /\ Fresh /\ AtTarget
  /\ ChecksFollowTarget
  /\ Running \/ (blocks = <<>> /\ ib = 0 /\ bb = 1 /\ gsi = 1)

(***************************************************************************)
(* The table and insertion.                                                *)
(***************************************************************************)

(* The rank of an entry is its place: the table has it once.               *)
LEMMA RankOfEntry ==
  ASSUME NEW t \in DOMAIN tcalls, NEW j \in DOMAIN tcalls[t]
  PROVE  Rank(t, tcalls[t][j]) = j
  BY TableAssumption DEF Rank

(* Every entry of the table is a check, and none is a target.              *)
LEMMA EntryIsCheck ==
  ASSUME NEW t \in DOMAIN tcalls, NEW j \in DOMAIN tcalls[t]
  PROVE  /\ tcalls[t][j] \in Builtins /\ tcalls[t][j] \in STRING
         /\ ~is_target(tcalls[t][j]) /\ j \in Nat \ {0}
  BY TableAssumption DEF Builtins, is_target

(* Inserting shifts what is behind the place, and nothing else.            *)
LEMMA Inserting ==
  ASSUME NEW S, NEW s \in Seq(S), NEW e \in S, NEW i \in 1..(Len(s) + 1)
  PROVE  /\ InsertAt(s, i, e) \in Seq(S)
         /\ Len(InsertAt(s, i, e)) = Len(s) + 1
         /\ \A k \in 1..(Len(s) + 1) :
              InsertAt(s, i, e)[k] = IF k < i THEN s[k] ELSE IF k = i THEN e ELSE s[k - 1]
<1>. DEFINE f == SubSeq(s, 1, i - 1)  r == SubSeq(s, i, Len(s))
<1>0. Len(s) \in Nat /\ i \in Nat
  OBVIOUS
<1>1. f \in Seq(S) /\ Len(f) = i - 1 /\ \A k \in 1..(i - 1) : f[k] = s[k]
  OBVIOUS
<1>2. r \in Seq(S) /\ Len(r) = Len(s) - i + 1 /\ \A k \in 1..Len(r) : r[k] = s[k + i - 1]
  OBVIOUS
<1>3. InsertAt(s, i, e) = f \o <<e>> \o r
  BY DEF InsertAt
<1>. DEFINE g == f \o <<e>>
<1>. HIDE DEF f, r
<1>4. g \in Seq(S) /\ Len(g) = i /\ \A k \in 1..i : g[k] = IF k < i THEN s[k] ELSE e
  BY <1>1
<1>. HIDE DEF g
<1>5. Len(g \o r) = Len(s) + 1 /\ g \o r \in Seq(S)
  <2>1. g \in Seq(S) /\ r \in Seq(S) /\ Len(g) + Len(r) = Len(s) + 1
    BY <1>0, <1>2, <1>4
  <2>. QED
    BY <2>1
<1>6. ASSUME NEW k \in 1..(Len(s) + 1)
      PROVE  (g \o r)[k] = IF k < i THEN s[k] ELSE IF k = i THEN e ELSE s[k - 1]
  <2>1. CASE k <= i
    BY <1>2, <1>4, <2>1
  <2>2. CASE k > i
    <3>1. (g \o r)[k] = r[k - i] /\ k - i \in 1..Len(r)
      BY <1>0, <1>2, <1>4, <2>2
    <3>. QED
      BY <1>2, <2>2, <3>1
  <2>3. k <= i \/ k > i
    BY <1>0
  <2>. QED
    BY <2>1, <2>2, <2>3, Zenon
<1>7. InsertAt(s, i, e) = g \o r
  BY <1>3 DEF g
<1>. QED
  BY <1>5, <1>6, <1>7

(***************************************************************************)
(* The invariant.                                                          *)
(***************************************************************************)

(* There is no function and no block.                                      *)
LEMMA InitInv == Init => IInv
<1>. SUFFICES ASSUME Init PROVE IInv
  OBVIOUS
<1>1. DOMAIN blocks = {} /\ Len(blocks) = 0
  BY DEF Init
<1>2. TypeOK
  BY <1>1 DEF Init, TypeOK
<1>. QED
  BY <1>1, <1>2 DEF Init, IInv, OnlyChecks, Ahead, ChecksFirst, Fresh, AtTarget,
     ChecksFollowTarget, AtStmt, Running

(* A function comes without checks.                                        *)
LEMMA StartInv ==
  ASSUME NEW f \in Sources, IInv, ahaggar_xinstrument_main(f)
  PROVE  IInv'
<1>. USE DEF ahaggar_xinstrument_main
<1>1. /\ f.blocks \in Seq(Seq(Statement))
      /\ \A b \in DOMAIN f.blocks : \A i \in DOMAIN f.blocks[b] :
           f.blocks[b][i].id > 0 /\ f.blocks[b][i].for = 0
  BY SourceAssumption
<1>2. \A b \in DOMAIN f.blocks : f.blocks[b] \in Seq(Statement) /\ Len(f.blocks[b]) \in Nat
  BY <1>1
<1>3. TypeOK'
  BY <1>1, <1>2 DEF TypeOK
<1>4. \A b \in DOMAIN blocks' : \A i \in DOMAIN blocks'[b] :
        IsSource(blocks'[b][i]) /\ blocks'[b][i].id > 0
  BY <1>1 DEF IsSource
<1>5. OnlyChecks' /\ Ahead' /\ ChecksFirst' /\ ChecksFollowTarget'
  BY <1>4 DEF OnlyChecks, Ahead, ChecksFirst, ChecksFollowTarget
<1>6. Fresh' /\ AtTarget'
  BY <1>4 DEF Fresh, AtTarget, AtStmt, Stmt
<1>7. ASSUME fn' = Idle PROVE blocks' = <<>> /\ ib' = 0 /\ bb' = 1 /\ gsi' = 1
  <2>1. f = Idle
    BY <1>7
  <2>. QED
    BY <2>1 DEF Idle
<1>8. (Running \/ (blocks = <<>> /\ ib = 0 /\ bb = 1 /\ gsi = 1))'
  BY <1>7 DEF Running
<1>. HIDE DEF ahaggar_xinstrument_main
<1>. QED
  BY <1>3, <1>5, <1>6, <1>8 DEF IInv

(* A statement that is not instrumented: no check can follow it.           *)
LEMMA SkipInv ==
  ASSUME IInv, SkipStmt
  PROVE  IInv'
<1>. USE DEF SkipStmt
<1>1. TypeOK'
  BY DEF IInv, TypeOK, AtStmt
<1>2. OnlyChecks' /\ Ahead' /\ ChecksFollowTarget'
  BY DEF IInv, OnlyChecks, Ahead, ChecksFollowTarget, Follows
<1>3. gsi \in Nat
  BY DEF IInv, TypeOK
<1>4. ChecksFirst' /\ AtTarget'
  BY <1>3 DEF IInv, ChecksFirst, AtTarget
<1>5. Fresh'
  <2>. SUFFICES ASSUME AtStmt', IsSource(Stmt')
                PROVE  \A i \in DOMAIN blocks[bb] : i > gsi + 1 => IsSource(blocks[bb][i])
    BY DEF Fresh
  <2>1. bb \in DOMAIN blocks /\ gsi + 1 \in DOMAIN blocks[bb] /\ IsSource(blocks[bb][gsi + 1])
    BY <1>1, <1>3 DEF AtStmt, Stmt, TypeOK
  <2>. QED
    BY <1>3, <2>1 DEF IInv, ChecksFirst
<1>. QED
  BY <1>1, <1>2, <1>4, <1>5 DEF IInv, AtStmt, Running

(* A target is found: no entry of its table has been tried.                *)
LEMMA InstrumentInv ==
  ASSUME IInv, ahg_instrument_gimple_call
  PROVE  IInv'
<1>. USE DEF ahg_instrument_gimple_call
<1>1. TypeOK'
  BY DEF IInv, TypeOK
<1>2. OnlyChecks' /\ Ahead' /\ ChecksFirst' /\ Fresh' /\ ChecksFollowTarget'
  BY DEF IInv, OnlyChecks, Ahead, ChecksFirst, Fresh, ChecksFollowTarget, Follows
<1>3. bb \in DOMAIN blocks /\ gsi \in DOMAIN blocks[bb] /\ gsi \in Nat
  BY DEF IInv, TypeOK, AtStmt
<1>4. is_target(Stmt.callee) /\ ~is_builtin(fn.name)
  BY DEF ahg_check_gimple_stmt
<1>5. IsSource(Stmt)
  BY <1>3, <1>4, TableAssumption DEF IInv, OnlyChecks, Stmt, is_target
<1>6. gsi + 1 \in DOMAIN blocks[bb] => IsSource(blocks[bb][gsi + 1])
  BY <1>3, <1>5 DEF IInv, Fresh
<1>7. AtTarget'
  BY <1>4, <1>5, <1>6 DEF AtTarget, AtStmt, Stmt, Running
<1>. QED
  BY <1>1, <1>2, <1>7 DEF IInv, AtStmt, Running

(* A check that cannot be built leaves a gap in the order, no more.        *)
LEMMA FailInv ==
  ASSUME IInv, BuildFails
  PROVE  IInv'
<1>. USE DEF BuildFails
<1>1. TypeOK'
  BY DEF IInv, TypeOK
<1>2. OnlyChecks' /\ Ahead' /\ ChecksFirst' /\ ChecksFollowTarget'
  BY DEF IInv, OnlyChecks, Ahead, ChecksFirst, ChecksFollowTarget, Follows
<1>3. ib \in Nat
  BY DEF IInv, TypeOK
<1>4. Fresh'
  BY <1>3 DEF Fresh
<1>5. AtTarget'
  <2>1. AtStmt' /\ Stmt' = Stmt
    BY DEF AtStmt, Running, Stmt
  <2>2. AtTarget
    BY DEF IInv
  <2>3. ASSUME NEW j \in DOMAIN tcalls[Stmt.callee], j < ib, is_target(Stmt.callee)
        PROVE  j < ib + 1
    BY <1>3, <2>3, EntryIsCheck DEF is_target
  <2>. QED
    BY <2>1, <2>2, <2>3 DEF AtTarget
<1>. QED
  BY <1>1, <1>2, <1>4, <1>5 DEF IInv, AtStmt, Running

(* Behind the last entry the pass goes on to the next statement.           *)
LEMMA EndInv ==
  ASSUME IInv, InstrumentEnd
  PROVE  IInv'
<1>. USE DEF InstrumentEnd
<1>1. TypeOK'
  BY DEF IInv, TypeOK, AtStmt
<1>2. OnlyChecks' /\ Ahead' /\ ChecksFollowTarget'
  BY DEF IInv, OnlyChecks, Ahead, ChecksFollowTarget, Follows
<1>3. gsi \in Nat
  BY DEF IInv, TypeOK
<1>4. ChecksFirst' /\ AtTarget'
  <2>1. ChecksFirst'
    BY <1>3 DEF IInv, ChecksFirst
  <2>2. AtTarget'
    BY DEF AtTarget
  <2>. QED
    BY <2>1, <2>2
<1>5. Fresh'
  <2>. SUFFICES ASSUME AtStmt', IsSource(Stmt')
                PROVE  \A i \in DOMAIN blocks[bb] : i > gsi + 1 => IsSource(blocks[bb][i])
    BY DEF Fresh
  <2>1. bb \in DOMAIN blocks /\ gsi + 1 \in DOMAIN blocks[bb] /\ IsSource(blocks[bb][gsi + 1])
    BY <1>1, <1>3 DEF AtStmt, Stmt, TypeOK
  <2>. QED
    BY <1>3, <2>1 DEF IInv, ChecksFirst
<1>. QED
  BY <1>1, <1>2, <1>4, <1>5 DEF IInv, AtStmt, Running

(* The next block has no checks yet.                                       *)
LEMMA NextBlockInv ==
  ASSUME IInv, NextBlock
  PROVE  IInv'
<1>. USE DEF NextBlock
<1>1. ib = 0
  BY DEF IInv, TypeOK, AtTarget, AtStmt
<1>2. /\ blocks \in Seq(Seq(Statement)) /\ bb \in Nat /\ Len(blocks) \in Nat
      /\ \A b \in DOMAIN blocks : blocks[b] \in Seq(Statement) /\ Len(blocks[b]) \in Nat
  BY DEF IInv, TypeOK
<1>3. TypeOK'
  BY <1>2 DEF IInv, TypeOK
<1>4. OnlyChecks' /\ Ahead' /\ ChecksFollowTarget'
  <2>1. OnlyChecks' /\ ChecksFollowTarget'
    BY DEF IInv, OnlyChecks, ChecksFollowTarget, Follows
  <2>2. Ahead'
    BY <1>2 DEF IInv, Ahead
  <2>. QED
    BY <2>1, <2>2
<1>5. bb + 1 \in DOMAIN blocks =>
        \A i \in DOMAIN blocks[bb + 1] : IsSource(blocks[bb + 1][i])
  BY <1>2 DEF IInv, Ahead
<1>6. ChecksFirst' /\ Fresh' /\ AtTarget'
  BY <1>1, <1>2, <1>5 DEF ChecksFirst, Fresh, AtTarget, AtStmt
<1>. QED
  BY <1>3, <1>4, <1>6 DEF IInv, Running

(* Behind the last block the pass lets go of the function.                 *)
LEMMA ReturnInv ==
  ASSUME IInv, PassReturns
  PROVE  IInv'
<1>. USE DEF PassReturns
<1>1. ib = 0
  BY DEF IInv, TypeOK, AtTarget, AtStmt
<1>2. DOMAIN blocks' = {} /\ Len(blocks') = 0
  OBVIOUS
<1>3. TypeOK'
  BY <1>1, <1>2 DEF TypeOK
<1>. QED
  BY <1>1, <1>2, <1>3 DEF IInv, OnlyChecks, Ahead, ChecksFirst, Fresh, AtTarget,
     ChecksFollowTarget, AtStmt

(***************************************************************************)
(* A check is inserted: in front of those of its target already there,     *)
(* which are earlier in the table.                                         *)
(***************************************************************************)
LEMMA InsertInv ==
  ASSUME IInv, gxinsert_call
  PROVE  IInv'
<1>. DEFINE blk == blocks[bb]
<1>1. PICK artificial \in BOOLEAN :
        blocks' = [blocks EXCEPT ![bb] = InsertAt(blk, InsertPosition, Check(artificial))]
  BY DEF gxinsert_call
<1>. DEFINE c == Check(artificial)
            new == InsertAt(blk, gsi + 1, c)
            at == gsi + 1
<1>2. /\ blocks \in Seq(Seq(Statement)) /\ bb \in DOMAIN blocks
      /\ blk \in Seq(Statement) /\ gsi \in DOMAIN blk /\ gsi \in Nat /\ bb \in Nat
      /\ Len(blk) \in Nat /\ ib \in Nat /\ ib > 0
  BY DEF IInv, TypeOK, gxinsert_call, AtStmt
<1>3. /\ Stmt = blk[gsi] /\ Stmt \in Statement /\ IsSource(Stmt) /\ Stmt.id > 0
      /\ is_target(Stmt.callee) /\ ~is_builtin(fn.name) /\ Running
  BY <1>2 DEF IInv, AtTarget, OnlyChecks, Stmt, AtStmt
<1>4. /\ Stmt.callee \in DOMAIN tcalls /\ ib \in DOMAIN tcalls[Stmt.callee]
      /\ Entry = tcalls[Stmt.callee][ib] /\ Entry \in Builtins /\ Entry \in STRING
  BY <1>3, EntryIsCheck DEF gxinsert_call, HasEntry, Entry, is_target
<1>5. /\ c \in Statement /\ c.for = Stmt.id /\ c.callee = Entry /\ ~IsSource(c)
  BY <1>3, <1>4 DEF Check, Statement, IsSource
<1>. HIDE DEF c
<1>6. /\ new \in Seq(Statement) /\ Len(new) = Len(blk) + 1
      /\ \A k \in 1..(Len(blk) + 1) :
           new[k] = IF k < at THEN blk[k] ELSE IF k = at THEN c ELSE blk[k - 1]
  <2>1. at \in 1..(Len(blk) + 1)
    BY <1>2
  <2>. HIDE DEF blk, at, new
  <2>2. /\ InsertAt(blk, at, c) \in Seq(Statement) /\ Len(InsertAt(blk, at, c)) = Len(blk) + 1
        /\ \A k \in 1..(Len(blk) + 1) :
             InsertAt(blk, at, c)[k] = IF k < at THEN blk[k] ELSE IF k = at THEN c ELSE blk[k - 1]
    BY <1>2, <1>5, <2>1, Inserting
  <2>. QED
    BY <2>2 DEF new, at
<1>7. blocks' = [blocks EXCEPT ![bb] = new]
  BY <1>1 DEF InsertPosition, c
<1>. HIDE DEF new
<1>8. /\ DOMAIN blocks' = DOMAIN blocks /\ Len(blocks') = Len(blocks)
      /\ blocks' \in Seq(Seq(Statement)) /\ blocks'[bb] = new
      /\ \A b \in DOMAIN blocks : b # bb => blocks'[b] = blocks[b]
  BY <1>2, <1>6, <1>7
<1>9. /\ fn' = fn /\ bb' = bb /\ gsi' = gsi /\ ib' = ib + 1
  BY DEF gxinsert_call
<1>10. /\ DOMAIN new = 1..(Len(blk) + 1) /\ DOMAIN blk = 1..Len(blk)
       /\ at \in 2..(Len(blk) + 1) /\ new[at] = c
       /\ \A k \in 1..gsi : new[k] = blk[k]
       /\ \A k \in at..Len(blk) : new[k + 1] = blk[k]
       /\ \A k \in (at + 1)..(Len(blk) + 1) : new[k] = blk[k - 1] /\ k - 1 \in DOMAIN blk
  BY <1>2, <1>6
<1>. HIDE DEF blk, at
<1>0. gsi \in 1..Len(blk) /\ Len(blk) \in Nat /\ at = gsi + 1
  BY <1>2 DEF at
<1>11. TypeOK'
  BY <1>2, <1>8, <1>9, <1>10 DEF IInv, TypeOK, at, blk
<1>12. OnlyChecks'
  <2>1. ASSUME NEW k \in DOMAIN new
        PROVE  /\ IsSource(new[k]) => new[k].id > 0
               /\ ~IsSource(new[k]) => new[k].callee \in Builtins
    <3>1. CASE k = at
      BY <1>4, <1>5, <1>10, <3>1
    <3>2. CASE k # at
      <4>1. PICK l \in DOMAIN blk : new[k] = blk[l]
        <5>1. CASE k < at
          BY <1>0, <1>10, <5>1
        <5>2. CASE k > at
          BY <1>0, <1>10, <5>2
        <5>. QED
          BY <1>0, <1>10, <3>2, <5>1, <5>2
      <4>. QED
        BY <1>2, <4>1 DEF IInv, OnlyChecks, blk
    <3>. QED
      BY <3>1, <3>2
  <2>. QED
    BY <1>8, <2>1 DEF IInv, OnlyChecks
<1>13. Ahead'
  <2>. SUFFICES ASSUME NEW b \in DOMAIN blocks, b > bb
                PROVE  \A i \in DOMAIN blocks'[b] : IsSource(blocks'[b][i])
    BY <1>8, <1>9 DEF Ahead
  <2>1. b # bb
    BY <1>2
  <2>. QED
    BY <1>8, <2>1 DEF IInv, Ahead
<1>14. ChecksFirst'
  <2>. SUFFICES ASSUME NEW i \in DOMAIN new, NEW j \in DOMAIN new,
                       gsi < j, j < i, IsSource(new[j])
                PROVE  IsSource(new[i])
    BY <1>8, <1>9 DEF ChecksFirst
  <2>1. j # at
    BY <1>5, <1>10
  <2>2. /\ j - 1 \in DOMAIN blk /\ new[j] = blk[j - 1] /\ gsi < j - 1
        /\ i - 1 \in DOMAIN blk /\ new[i] = blk[i - 1] /\ j - 1 < i - 1
    BY <1>0, <1>10, <2>1
  <2>. QED
    BY <1>2, <2>2 DEF IInv, ChecksFirst, blk
<1>15. Fresh'
  BY <1>2, <1>9 DEF Fresh
<1>16. AtTarget'
  <2>1. Stmt' = Stmt /\ AtStmt'
    <3>1. blocks'[bb'][gsi'] = blk[gsi] /\ gsi <= Len(new)
      BY <1>0, <1>6, <1>8, <1>9, <1>10
    <3>2. Stmt' = Stmt
      BY <3>1 DEF Stmt, blk
    <3>3. fn' # Idle /\ bb' <= Len(blocks') /\ gsi' <= Len(blocks'[bb'])
      BY <1>2, <1>3, <1>8, <1>9, <3>1 DEF Running
    <3>. QED
      BY <3>2, <3>3 DEF AtStmt, Running
  <2>2. (gsi + 1 \in DOMAIN blocks[bb] /\ ~IsSource(blocks[bb][gsi + 1]) =>
           \E j \in DOMAIN tcalls[Stmt.callee] :
             j < ib /\ blocks[bb][gsi + 1].callee = tcalls[Stmt.callee][j])'
    <3>1. blocks'[bb][gsi + 1] = c
      BY <1>8, <1>10 DEF at
    <3>2. ib < ib + 1
      BY <1>2
    <3>. QED
      BY <1>4, <1>5, <1>9, <2>1, <3>1, <3>2
  <2>. QED
    BY <1>3, <1>9, <2>1, <2>2 DEF AtTarget
<1>17. ASSUME NEW i \in DOMAIN blk, ~IsSource(blk[i])
       PROVE  Follows(blk, i)
  BY <1>2, <1>17 DEF IInv, ChecksFollowTarget, blk
<1>18. ASSUME NEW i \in DOMAIN new, ~IsSource(new[i])
       PROVE  Follows(new, i)
  <2>1. CASE i < at
    <3>0. i \in 1..gsi /\ i \in DOMAIN blk
      BY <1>0, <1>10, <2>1
    <3>1. new[i] = blk[i] /\ Follows(blk, i)
      BY <1>10, <1>17, <1>18, <3>0
    <3>2. i > 1 /\ i \in Nat
      BY <3>0, <3>1 DEF Follows
    <3>3. \A k \in 1..(i - 1) : new[k] = blk[k]
      BY <1>0, <1>10, <3>0
    <3>4. new[i - 1] = blk[i - 1]
      BY <3>2, <3>3
    <3>. QED
      BY <3>1, <3>3, <3>4 DEF Follows
  <2>2. CASE i = at
    <3>1. new[i] = c /\ new[i - 1] = Stmt /\ i > 1
      BY <1>2, <1>3, <1>10, <2>2, SMTT(30) DEF at
    <3>. QED
      BY <1>3, <1>5, <3>1 DEF Follows
  <2>3. CASE i = at + 1
    <3>1. /\ new[i] = blk[at] /\ new[i - 1] = c /\ i > 1
          /\ at \in DOMAIN blk /\ blk[at - 1] = Stmt /\ new[gsi] = Stmt /\ gsi \in 1..(i - 1)
      <4>1. i - 1 = at /\ i \in (at + 1)..(Len(blk) + 1) /\ gsi \in 1..(i - 1) /\ gsi \in 1..gsi
        BY <1>0, <1>10, <2>3
      <4>2. new[i] = blk[at] /\ at \in DOMAIN blk
        BY <1>10, <4>1
      <4>3. at - 1 = gsi /\ new[gsi] = Stmt /\ blk[gsi] = Stmt
        BY <1>0, <1>3, <1>10, <4>1 DEF blk
      <4>. QED
        BY <1>0, <1>10, <4>1, <4>2, <4>3
    <3>2. Follows(blk, at) /\ ~IsSource(blk[at])
      BY <1>17, <1>18, <3>1
    <3>3. Stmt.id = blk[at].for
      BY <1>3, <3>1, <3>2 DEF Follows, IsSource
    <3>4. PICK j \in DOMAIN tcalls[Stmt.callee] :
            j < ib /\ blk[at].callee = tcalls[Stmt.callee][j]
      BY <1>2, <3>1, <3>2 DEF IInv, AtTarget, blk, at
    <3>5. Rank(Stmt.callee, c.callee) = ib /\ Rank(Stmt.callee, blk[at].callee) = j
      BY <1>4, <1>5, <3>4, RankOfEntry
    <3>6. Rank(Stmt.callee, c.callee) > Rank(Stmt.callee, blk[at].callee)
      BY <1>2, <1>4, <3>4, <3>5, EntryIsCheck
    <3>. QED
      BY <1>3, <1>5, <3>1, <3>3, <3>6 DEF Follows
  <2>4. CASE i > at + 1
    <3>1. /\ new[i] = blk[i - 1] /\ i - 1 \in DOMAIN blk
          /\ new[i - 1] = blk[(i - 1) - 1] /\ i > 1 /\ i \in Nat
      <4>1. i \in (at + 1)..(Len(blk) + 1) /\ i - 1 \in (at + 1)..(Len(blk) + 1)
        BY <1>0, <1>10, <2>4
      <4>. QED
        BY <1>0, <1>10, <4>1
    <3>2. Follows(blk, i - 1)
      BY <1>17, <1>18, <3>1
    <3>3. ASSUME NEW k \in 1..((i - 1) - 1)
          PROVE  \E l \in 1..(i - 1) : new[l] = blk[k]
      <4>1. CASE k < at
        <5>1. k \in 1..gsi /\ k \in 1..(i - 1)
          BY <1>0, <3>1, <4>1
        <5>. QED
          BY <1>10, <5>1
      <4>2. CASE k >= at
        <5>1. k + 1 \in 1..(i - 1) /\ k \in at..Len(blk)
          BY <1>0, <1>10, <3>1, <4>2
        <5>. QED
          BY <1>10, <5>1
      <4>. QED
        BY <1>0, <4>1, <4>2
    <3>. QED
      BY <3>1, <3>2, <3>3 DEF Follows
  <2>. QED
    BY <1>0, <1>10, <2>1, <2>2, <2>3, <2>4
<1>19. ChecksFollowTarget'
  BY <1>3, <1>8, <1>9, <1>18 DEF IInv, ChecksFollowTarget
<1>. QED
  BY <1>3, <1>9, <1>11, <1>12, <1>13, <1>14, <1>15, <1>16, <1>19 DEF IInv, Running

(***************************************************************************)
(* The theorem.                                                            *)
(***************************************************************************)
LEMMA NextInv == IInv /\ [Next]_vars => IInv'
<1>. SUFFICES ASSUME IInv, [Next]_vars PROVE IInv'
  OBVIOUS
<1>1. ASSUME NEW f \in Sources, ahaggar_xinstrument_main(f) PROVE IInv'
  BY <1>1, StartInv
<1>2. ASSUME Pass PROVE IInv'
  BY <1>2, SkipInv, InstrumentInv, InsertInv, FailInv, EndInv, NextBlockInv, ReturnInv DEF Pass
<1>3. ASSUME UNCHANGED vars PROVE IInv'
  BY <1>3 DEF vars, IInv, TypeOK, OnlyChecks, Ahead, ChecksFirst, Fresh, AtTarget,
     ChecksFollowTarget, AtStmt, Stmt, Running
<1>. QED
  BY <1>1, <1>2, <1>3 DEF Next

(* For every table that names no check twice for a target and none as a    *)
(* target, and every function, each check stays behind its target.         *)
THEOREM ChecksSafe == Spec => [](TypeOK /\ ChecksFollowTarget)
<1>1. IInv => TypeOK /\ ChecksFollowTarget
  BY DEF IInv
<1>. QED
  BY <1>1, InitInv, NextInv, PTL DEF Spec
(***************************************************************************)
(* The result: what the pass leaves behind it.                             *)
(*                                                                         *)
(* Up to the iterator, a block is the source with its checks woven in;     *)
(* from there it is the source still.  While the pass is at a target, what *)
(* is between are the checks of the entries it has tried.                  *)
(***************************************************************************)
CallRecords == [callee : STRING \cup {NoDecl}, id : Nat, for : Nat]

CallSeq(block) == [i \in DOMAIN block |-> Call(block[i])]

(* The block begins with w, and goes on with the source from behind p.     *)
Begins(block, w, source, p) ==
  /\ Len(block) = Len(w) + (Len(source) - p)
  /\ \A i \in 1..Len(w) : Call(block[i]) = w[i]
  /\ \A i \in 1..(Len(source) - p) : block[Len(w) + i] = source[p + i]

(* The calls of the checks of s.                                           *)
CheckCalls(s, names) ==
  [i \in DOMAIN names |-> [callee |-> names[i], id |-> 0, for |-> s.id]]

(* What the target s is once the first k entries were tried, of which the  *)
(* builtins in B could be built.                                           *)
Tried(s, k, B) ==
  <<Call(s)>> \o CheckCalls(s, Reverse(Kept(SubSeq(tcalls[s.callee], 1, k), B)))

(* What a source is with its checks, statement by statement, and the first *)
(* p statements of it.                                                     *)
Threads(source) == [i \in DOMAIN source |-> Checked(source[i])]

WovenTo(source, p) == FlattenSeq(SubSeq(Threads(source), 1, p))

NotTried(s) == \A name \in Builtins : name \in Unfailed(s)

Behind(source, p) == \A i \in (p + 1)..Len(source) : NotTried(source[i])

(* The pass is behind the first p statements and at none of their checks'  *)
(* targets.                                                                *)
Between(source, p) ==
  /\ Begins(blocks[bb], WovenTo(source, p), source, p)
  /\ gsi <= Len(WovenTo(source, p)) + 1
  /\ \A i \in gsi..Len(WovenTo(source, p)) : ~IsSource(blocks[bb][i])
  /\ Behind(source, p)

(* The pass is at the p-th statement, a target.                            *)
At(source, p) ==
  LET s == source[p]
      w == WovenTo(source, p - 1)
  IN
  /\ gsi = Len(w) + 1
  /\ ahg_check_gimple_stmt(s)
  /\ ib \in 1..(Len(tcalls[s.callee]) + 1)
  /\ Begins(blocks[bb], w \o Tried(s, ib - 1, Unfailed(s)), source, p)
  /\ \A j \in ib..Len(tcalls[s.callee]) : tcalls[s.callee][j] \in Unfailed(s)
  /\ Behind(source, p)

Here(source) ==
  IF ib = 0 THEN \E p \in 0..Len(source) : Between(source, p)
  ELSE \E p \in 1..Len(source) : At(source, p)

BlockInv(b, source) ==
  /\ b < bb => CallSeq(blocks[b]) = Woven(source)
  /\ b > bb => blocks[b] = source /\ Behind(source, 0)
  /\ b = bb => Here(source)

WovenInv ==
  Running =>
    /\ Len(blocks) = Len(fn.blocks)
    /\ \A b \in DOMAIN blocks : \A source \in {fn.blocks[b]} : BlockInv(b, source)

(***************************************************************************)
(* The calls of a block.                                                   *)
(***************************************************************************)
LEMMA CallType ==
  ASSUME NEW s \in Statement
  PROVE  Call(s) \in CallRecords
BY DEF Statement, Call, CallRecords

LEMMA CheckCallsType ==
  ASSUME NEW s \in Statement, NEW names \in Seq(STRING)
  PROVE  /\ CheckCalls(s, names) \in Seq(CallRecords)
         /\ Len(CheckCalls(s, names)) = Len(names)
         /\ \A i \in 1..Len(names) :
              CheckCalls(s, names)[i] = [callee |-> names[i], id |-> 0, for |-> s.id]
<1>. DEFINE n == Len(names)
            f == [i \in 1..n |-> [callee |-> names[i], id |-> 0, for |-> s.id]]
<1>1. \A i \in 1..n : names[i] \in STRING BY ElementOfSeq
<1>2. s.id \in Nat /\ n \in Nat /\ DOMAIN names = 1..n BY DEF Statement
<1>3. CheckCalls(s, names) = f BY <1>2 DEF CheckCalls
<1> HIDE DEF n
<1>4. \A i \in 1..n :
        [callee |-> names[i], id |-> 0, for |-> s.id] \in CallRecords
  BY <1>1, <1>2 DEF CallRecords
<1>5. f \in Seq(CallRecords) /\ Len(f) = n BY <1>2, <1>4
<1>6. \A i \in 1..n : f[i] = [callee |-> names[i], id |-> 0, for |-> s.id] OBVIOUS
<1> HIDE DEF f
<1> QED BY <1>3, <1>5, <1>6 DEF n

LEMMA ReverseType ==
  ASSUME NEW V, NEW s \in Seq(V)
  PROVE  /\ Reverse(s) \in Seq(V) /\ Len(Reverse(s)) = Len(s)
         /\ \A i \in 1..Len(s) : Reverse(s)[i] = s[(Len(s) - i) + 1]
<1>1. \A i \in 1..Len(s) : (Len(s) - i) + 1 \in 1..Len(s) OBVIOUS
<1> QED BY <1>1, ElementOfSeq DEF Reverse

(* The element put last comes first. *)
LEMMA ReverseAppend ==
  ASSUME NEW V, NEW s \in Seq(V), NEW x \in V
  PROVE  Reverse(Append(s, x)) = <<x>> \o Reverse(s)
<1>. DEFINE t == Append(s, x)  n == Len(s)
<1>1. t \in Seq(V) /\ Len(t) = n + 1 /\ n \in Nat /\ t[n + 1] = x
      /\ \A i \in 1..n : t[i] = s[i]
  OBVIOUS
<1>2. /\ Reverse(s) \in Seq(V) /\ Len(Reverse(s)) = n
      /\ \A i \in 1..n : Reverse(s)[i] = s[(n - i) + 1]
  BY ReverseType
<1> HIDE DEF t, n
<1>3. /\ Reverse(t) \in Seq(V) /\ Len(Reverse(t)) = n + 1
      /\ \A i \in 1..(n + 1) : Reverse(t)[i] = t[((n + 1) - i) + 1]
  BY <1>1, ReverseType
<1>. DEFINE r == Reverse(s)
<1> HIDE DEF r
<1>4. <<x>> \in Seq(V) /\ Len(<<x>>) = 1 /\ <<x>>[1] = x OBVIOUS
<1>5. /\ <<x>> \o r \in Seq(V) /\ Len(<<x>> \o r) = 1 + n
      /\ \A i \in 1..(1 + n) : (<<x>> \o r)[i] = IF i <= 1 THEN <<x>>[i] ELSE r[i - 1]
  BY <1>2, <1>4, ConcatProperties DEF r
<1>6. ASSUME NEW i \in 1..(n + 1) PROVE Reverse(t)[i] = (<<x>> \o r)[i]
  <2>1. CASE i = 1
    <3>1. Reverse(t)[i] = t[n + 1] BY <1>1, <1>3, <2>1
    <3> QED BY <1>1, <1>4, <1>5, <2>1, <3>1
  <2>2. CASE i # 1
    <3>1. i - 1 \in 1..n /\ ((n + 1) - i) + 1 \in 1..n /\ (n - (i - 1)) + 1 = ((n + 1) - i) + 1
          /\ ~(i <= 1) /\ i \in 1..(1 + n)
      BY <1>1, <2>2
    <3>2. Reverse(t)[i] = s[((n + 1) - i) + 1] BY <1>1, <1>3, <3>1
    <3>3. (<<x>> \o r)[i] = r[i - 1] BY <1>5, <3>1
    <3>4. r[i - 1] = s[(n - (i - 1)) + 1] BY <1>2, <3>1 DEF r
    <3> QED BY <3>1, <3>2, <3>3, <3>4
  <2> QED BY <2>1, <2>2
<1>7. Len(Reverse(t)) = Len(<<x>> \o r) BY <1>1, <1>3, <1>5
<1>8. Reverse(t) = <<x>> \o r BY <1>3, <1>5, <1>6, <1>7, SeqEqual
<1> QED BY <1>8 DEF r, t

(***************************************************************************)
(* A target and its checks.                                                *)
(***************************************************************************)
Names(s, k, B) == Reverse(Kept(SubSeq(tcalls[s.callee], 1, k), B))

LEMMA NamesType ==
  ASSUME NEW s \in Statement, is_target(s.callee),
         NEW k \in 0..Len(tcalls[s.callee]), NEW B
  PROVE  /\ SubSeq(tcalls[s.callee], 1, k) \in Seq(STRING)
         /\ Kept(SubSeq(tcalls[s.callee], 1, k), B) \in Seq(STRING)
         /\ Names(s, k, B) \in Seq(STRING)
<1>. DEFINE tab == tcalls[s.callee]  r == SubSeq(tab, 1, k)
<1>1. tab \in Seq(STRING) BY TableAssumption DEF is_target
<1>2. r \in Seq(STRING)
  <2>1. \A i \in 1..k : tab[i] \in STRING
    <3>1. \A i \in 1..k : i \in 1..Len(tab) BY <1>1
    <3> QED BY <1>1, <3>1, ElementOfSeq
  <2> HIDE DEF tab
  <2>2. 1 \in Int /\ k \in Int BY <1>1
  <2> QED BY <2>1, <2>2, SubSeqProperties
<1> HIDE DEF r
<1>3. Kept(r, B) \in Seq(STRING) BY <1>2, KeptType
<1>4. Reverse(Kept(r, B)) \in Seq(STRING) BY <1>3, ReverseType
<1> QED BY <1>2, <1>3, <1>4 DEF r, Names

(* Of no entry there are no checks.                                        *)
LEMMA TriedZero ==
  ASSUME NEW s \in Statement, NEW B
  PROVE  Tried(s, 0, B) = <<Call(s)>>
<1>. DEFINE e == <<>>
<1>1. SubSeq(tcalls[s.callee], 1, 0) = <<>> BY SubSeqEmpty
<1>2. Names(s, 0, B) = Reverse(<<>>) BY <1>1, KeptEmpty DEF Names
<1>3. <<>> \in Seq(STRING) /\ Len(<<>>) = 0 OBVIOUS
<1>4. Reverse(<<>>) \in Seq(STRING) /\ Len(Reverse(<<>>)) = 0 BY <1>3, ReverseType
<1>5. Reverse(<<>>) = <<>> BY <1>4, EmptySeq
<1>6. CheckCalls(s, <<>>) \in Seq(CallRecords) /\ Len(CheckCalls(s, <<>>)) = 0
  BY <1>3, CheckCallsType
<1>7. CheckCalls(s, <<>>) = <<>> BY <1>6, EmptySeq
<1>8. <<Call(s)>> \in Seq(CallRecords) BY CallType
<1>9. <<Call(s)>> \o <<>> = <<Call(s)>> BY <1>8, ConcatEmptySeq
<1> QED BY <1>2, <1>5, <1>7, <1>9 DEF Tried, Names

LEMMA TriedType ==
  ASSUME NEW s \in Statement, is_target(s.callee),
         NEW k \in 0..Len(tcalls[s.callee]), NEW B
  PROVE  /\ Tried(s, k, B) \in Seq(CallRecords)
         /\ Tried(s, k, B) = <<Call(s)>> \o CheckCalls(s, Names(s, k, B))
         /\ CheckCalls(s, Names(s, k, B)) \in Seq(CallRecords)
         /\ \A i \in 1..Len(CheckCalls(s, Names(s, k, B))) :
              CheckCalls(s, Names(s, k, B))[i].for = s.id
<1>. DEFINE c == CheckCalls(s, Names(s, k, B))
<1>1. Names(s, k, B) \in Seq(STRING) BY NamesType
<1>2. /\ c \in Seq(CallRecords) /\ Len(c) = Len(Names(s, k, B))
      /\ \A i \in 1..Len(Names(s, k, B)) :
           c[i] = [callee |-> Names(s, k, B)[i], id |-> 0, for |-> s.id]
  <2>. DEFINE names == Names(s, k, B)
  <2> HIDE DEF names
  <2>1. names \in Seq(STRING) BY <1>1 DEF names
  <2>2. /\ CheckCalls(s, names) \in Seq(CallRecords)
        /\ Len(CheckCalls(s, names)) = Len(names)
        /\ \A i \in 1..Len(names) :
             CheckCalls(s, names)[i] = [callee |-> names[i], id |-> 0, for |-> s.id]
    BY <2>1, CheckCallsType
  <2> QED BY <2>2 DEF names
<1>3. \A i \in 1..Len(c) : c[i].for = s.id
  <2> SUFFICES ASSUME NEW i \in 1..Len(c) PROVE c[i].for = s.id OBVIOUS
  <2> HIDE DEF c
  <2>1. c[i] = [callee |-> Names(s, k, B)[i], id |-> 0, for |-> s.id] BY <1>2
  <2> QED BY <2>1
<1>4. Tried(s, k, B) = <<Call(s)>> \o c BY DEF Tried, Names
<1> HIDE DEF c
<1>5. <<Call(s)>> \in Seq(CallRecords) BY CallType
<1>6. <<Call(s)>> \o c \in Seq(CallRecords) BY <1>2, <1>5, ConcatProperties
<1> QED BY <1>2, <1>3, <1>4, <1>6 DEF c

(* An entry that could be built comes in front of those before.            *)
LEMMA TriedBuilt ==
  ASSUME NEW s \in Statement, is_target(s.callee),
         NEW k \in 1..Len(tcalls[s.callee]), NEW B, tcalls[s.callee][k] \in B
  PROVE  CheckCalls(s, Names(s, k, B)) =
           <<[callee |-> tcalls[s.callee][k], id |-> 0, for |-> s.id]>>
             \o CheckCalls(s, Names(s, k - 1, B))
<1>. DEFINE tab == tcalls[s.callee]  x == tab[k]
            r == SubSeq(tab, 1, k - 1)  q == Kept(r, B)
            c == [callee |-> x, id |-> 0, for |-> s.id]
<1>1. tab \in Seq(STRING) /\ x \in STRING /\ k \in Nat
  BY TableAssumption, ElementOfSeq DEF is_target
<1>2. k - 1 \in 0..Len(tab) BY <1>1
<1>3. r \in Seq(STRING) /\ q \in Seq(STRING) BY <1>2, NamesType
<1>4. SubSeq(tab, 1, k) = Append(r, x)
  <2>1. 1 \in 1..Len(tab) /\ k \in 1..Len(tab) BY <1>1
  <2> HIDE DEF tab
  <2>2. SubSeq(tab, 1, k) = r \o <<x>> BY <1>1, <2>1, SubSeqRecursiveSecond
  <2>3. r \o <<x>> = Append(r, x)
    <3> HIDE DEF r, x
    <3> QED BY <1>1, <1>3, AppendIsConcat
  <2> QED BY <2>2, <2>3
<1>5. Names(s, k, B) = <<x>> \o Reverse(q)
  <2>1. Names(s, k, B) = Reverse(Kept(Append(r, x), B)) BY <1>4 DEF Names
  <2>2. x \in B OBVIOUS
  <2> HIDE DEF r, x, q
  <2>3. Kept(Append(r, x), B) = Append(q, x) BY <1>1, <1>3, <2>2, KeptAppend DEF q
  <2>4. Reverse(Append(q, x)) = <<x>> \o Reverse(q) BY <1>1, <1>3, ReverseAppend
  <2> QED BY <2>1, <2>3, <2>4
<1>6. Names(s, k - 1, B) = Reverse(q) BY DEF Names
<1>. DEFINE m == Reverse(q)  n == <<x>> \o m
<1>7. m \in Seq(STRING) BY <1>3, ReverseType
<1> HIDE DEF x, q, m
<1>8. <<x>> \in Seq(STRING) /\ Len(<<x>>) = 1 /\ <<x>>[1] = x BY <1>1
<1>9. /\ n \in Seq(STRING) /\ Len(n) = 1 + Len(m)
      /\ \A i \in 1..(1 + Len(m)) : n[i] = IF i <= 1 THEN <<x>>[i] ELSE m[i - 1]
  BY <1>7, <1>8, ConcatProperties
<1> HIDE DEF n
<1>10. /\ CheckCalls(s, n) \in Seq(CallRecords) /\ Len(CheckCalls(s, n)) = Len(n)
       /\ \A i \in 1..Len(n) :
            CheckCalls(s, n)[i] = [callee |-> n[i], id |-> 0, for |-> s.id]
  BY <1>9, CheckCallsType
<1>11. /\ CheckCalls(s, m) \in Seq(CallRecords) /\ Len(CheckCalls(s, m)) = Len(m)
       /\ \A i \in 1..Len(m) :
            CheckCalls(s, m)[i] = [callee |-> m[i], id |-> 0, for |-> s.id]
  BY <1>7, CheckCallsType
<1>12. c \in CallRecords BY <1>1 DEF CallRecords, Statement
<1>. DEFINE u == CheckCalls(s, m)  v == CheckCalls(s, n)
<1>13. \A i \in 1..Len(n) : v[i] = [callee |-> n[i], id |-> 0, for |-> s.id] BY <1>10
<1>14. \A i \in 1..Len(m) : u[i] = [callee |-> m[i], id |-> 0, for |-> s.id] BY <1>11
<1>15. v[1] = c
  <2>1. 1 \in 1..Len(n) /\ n[1] = x /\ Len(m) \in Nat BY <1>7, <1>8, <1>9
  <2> QED BY <1>13, <2>1
<1>16. ASSUME NEW i \in 1..Len(n), i # 1 PROVE v[i] = u[i - 1]
  <2>1. i - 1 \in 1..Len(m) /\ n[i] = m[i - 1] BY <1>7, <1>9, <1>16
  <2> QED BY <1>13, <1>14, <2>1
<1>17. u \in Seq(CallRecords) /\ v \in Seq(CallRecords) /\ Len(u) = Len(m) /\ Len(v) = Len(n)
  BY <1>10, <1>11
<1> HIDE DEF u, v, c
<1>18. <<c>> \in Seq(CallRecords) /\ Len(<<c>>) = 1 /\ <<c>>[1] = c BY <1>12
<1>19. /\ <<c>> \o u \in Seq(CallRecords) /\ Len(<<c>> \o u) = 1 + Len(u)
       /\ \A i \in 1..(1 + Len(u)) : (<<c>> \o u)[i] = IF i <= 1 THEN <<c>>[i] ELSE u[i - 1]
  BY <1>17, <1>18, ConcatProperties
<1>20. ASSUME NEW i \in 1..Len(v) PROVE v[i] = (<<c>> \o u)[i]
  <2>1. i \in 1..(1 + Len(u)) /\ i \in 1..Len(n) BY <1>9, <1>17
  <2>2. CASE i = 1 BY <1>15, <1>18, <1>19, <2>1, <2>2
  <2>3. CASE i # 1
    <3>1. ~(i <= 1) BY <2>3
    <3> QED BY <1>16, <1>19, <2>1, <2>3, <3>1
  <2> QED BY <2>2, <2>3
<1>21. Len(v) = Len(<<c>> \o u) BY <1>9, <1>17, <1>19
<1>22. v = <<c>> \o u BY <1>17, <1>19, <1>20, <1>21, SeqEqual
<1> QED BY <1>5, <1>6, <1>22 DEF u, v, c, n, m, x

(* One that could not be built leaves them as they are.                    *)
LEMMA TriedFailed ==
  ASSUME NEW s \in Statement, is_target(s.callee),
         NEW k \in 1..Len(tcalls[s.callee]), NEW B, NEW C,
         tcalls[s.callee][k] \notin C,
         \A i \in 1..(k - 1) : tcalls[s.callee][i] \in B <=> tcalls[s.callee][i] \in C
  PROVE  Tried(s, k, C) = Tried(s, k - 1, B)
<1>. DEFINE tab == tcalls[s.callee]  x == tab[k]  r == SubSeq(tab, 1, k - 1)
<1>1. tab \in Seq(STRING) /\ x \in STRING /\ k \in Nat
  BY TableAssumption, ElementOfSeq DEF is_target
<1>2. k - 1 \in 0..Len(tab) BY <1>1
<1>3. r \in Seq(STRING) BY <1>2, NamesType
<1>4. SubSeq(tab, 1, k) = Append(r, x)
  <2>1. 1 \in 1..Len(tab) /\ k \in 1..Len(tab) BY <1>1
  <2> HIDE DEF tab
  <2>2. SubSeq(tab, 1, k) = r \o <<x>> BY <1>1, <2>1, SubSeqRecursiveSecond
  <2>3. r \o <<x>> = Append(r, x)
    <3> HIDE DEF r, x
    <3> QED BY <1>1, <1>3, AppendIsConcat
  <2> QED BY <2>2, <2>3
<1>5. Len(r) = k - 1 /\ \A i \in 1..(k - 1) : r[i] = tab[i] BY <1>1
<1>6. \A i \in 1..Len(r) : r[i] \in B <=> r[i] \in C BY <1>5
<1>7. x \notin C OBVIOUS
<1> HIDE DEF r, x
<1>8. Kept(Append(r, x), C) = Kept(r, C) BY <1>1, <1>3, <1>7, KeptAppend
<1>9. Kept(r, B) = Kept(r, C) BY <1>3, <1>6, KeptSame
<1> QED BY <1>4, <1>8, <1>9 DEF Tried, r

(* A statement that is no target stays alone; a target has, in the end, the *)
(* checks of its whole table.                                              *)
LEMMA CheckedIs ==
  ASSUME NEW s \in Statement
  PROVE  /\ Checked(s) \in Seq(CallRecords)
         /\ ~ahg_check_gimple_stmt(s) => Checked(s) = <<Call(s)>>
         /\ ahg_check_gimple_stmt(s) =>
              is_target(s.callee) /\ Checked(s) = Tried(s, Len(tcalls[s.callee]), Unfailed(s))
<1>1. CASE ~ahg_check_gimple_stmt(s)
  <2>1. Checked(s) = <<Call(s)>> \o CheckCalls(s, <<>>)
    BY <1>1 DEF Checked, ahg_check_gimple_stmt, CheckCalls
  <2>2. <<>> \in Seq(STRING) /\ Len(<<>>) = 0 OBVIOUS
  <2>3. CheckCalls(s, <<>>) \in Seq(CallRecords) /\ Len(CheckCalls(s, <<>>)) = 0
    BY <2>2, CheckCallsType
  <2>4. CheckCalls(s, <<>>) = <<>> BY <2>3, EmptySeq
  <2>5. <<Call(s)>> \in Seq(CallRecords) BY CallType
  <2>6. <<Call(s)>> \o <<>> = <<Call(s)>> BY <2>5, ConcatEmptySeq
  <2> QED BY <1>1, <2>1, <2>4, <2>5, <2>6
<1>2. CASE ahg_check_gimple_stmt(s)
  <2>. DEFINE tab == tcalls[s.callee]
  <2>1. is_target(s.callee) BY <1>2 DEF ahg_check_gimple_stmt
  <2>2. tab \in Seq(STRING) BY <2>1, TableAssumption DEF is_target
  <2>3. Len(tab) \in 0..Len(tab) BY <2>2
  <2>4. SubSeq(tab, 1, Len(tab)) = tab BY <2>2, SubSeqFull
  <2>5. Checked(s) = <<Call(s)>> \o CheckCalls(s, Reverse(Built(s)))
    BY <1>2 DEF Checked, ahg_check_gimple_stmt, CheckCalls
  <2>6. Checked(s) = Tried(s, Len(tab), Unfailed(s)) BY <2>4, <2>5 DEF Tried, Built
  <2>7. Tried(s, Len(tab), Unfailed(s)) \in Seq(CallRecords) BY <2>1, <2>3, TriedType
  <2> QED BY <1>2, <2>1, <2>6, <2>7
<1> QED BY <1>1, <1>2

(* Of a source: nothing, one statement more, all of it.                    *)
LEMMA WovenNone == \A source : WovenTo(source, 0) = <<>>
<1> SUFFICES ASSUME NEW source PROVE WovenTo(source, 0) = <<>> OBVIOUS
<1>1. SubSeq(Threads(source), 1, 0) = <<>> BY SubSeqEmpty
<1> QED BY <1>1, FlattenEmpty DEF WovenTo

LEMMA ThreadsType ==
  ASSUME NEW source \in Seq(Statement)
  PROVE  /\ Threads(source) \in Seq(Seq(CallRecords))
         /\ Len(Threads(source)) = Len(source)
         /\ \A i \in 1..Len(source) : Threads(source)[i] = Checked(source[i])
<1>. DEFINE n == Len(source)  f == [i \in 1..n |-> Checked(source[i])]
<1>1. \A i \in 1..n : Checked(source[i]) \in Seq(CallRecords)
  <2>1. \A i \in 1..n : source[i] \in Statement BY ElementOfSeq
  <2> QED BY <2>1, CheckedIs
<1>2. n \in Nat /\ DOMAIN source = 1..n OBVIOUS
<1>3. Threads(source) = f BY <1>2 DEF Threads
<1> HIDE DEF n
<1>4. f \in Seq(Seq(CallRecords)) /\ Len(f) = n BY <1>1, <1>2
<1>5. \A i \in 1..n : f[i] = Checked(source[i]) OBVIOUS
<1> HIDE DEF f
<1> QED BY <1>3, <1>4, <1>5 DEF n

LEMMA WovenNext ==
  ASSUME NEW source \in Seq(Statement), NEW p \in 1..Len(source)
  PROVE  /\ WovenTo(source, p - 1) \in Seq(CallRecords)
         /\ WovenTo(source, p) \in Seq(CallRecords)
         /\ WovenTo(source, p) = WovenTo(source, p - 1) \o Checked(source[p])
<1>. DEFINE xs == Threads(source)
<1>1. xs \in Seq(Seq(CallRecords)) /\ Len(xs) = Len(source) /\ xs[p] = Checked(source[p])
  BY ThreadsType
<1>2. p \in 1..Len(xs) BY <1>1
<1> HIDE DEF xs
<1>3. /\ FlattenSeq(SubSeq(xs, 1, p - 1)) \in Seq(CallRecords)
      /\ FlattenSeq(SubSeq(xs, 1, p)) \in Seq(CallRecords)
      /\ FlattenSeq(SubSeq(xs, 1, p)) = FlattenSeq(SubSeq(xs, 1, p - 1)) \o xs[p]
  BY <1>1, <1>2, FlattenFront
<1> QED BY <1>1, <1>3 DEF WovenTo, xs

LEMMA WovenType ==
  ASSUME NEW source \in Seq(Statement), NEW p \in 0..Len(source)
  PROVE  WovenTo(source, p) \in Seq(CallRecords)
<1>1. CASE p = 0
  <2>1. WovenTo(source, 0) = <<>> BY WovenNone
  <2>2. <<>> \in Seq(CallRecords) OBVIOUS
  <2> QED BY <1>1, <2>1, <2>2
<1>2. CASE p # 0
  <2>1. p \in 1..Len(source) BY <1>2
  <2> QED BY <2>1, WovenNext
<1> QED BY <1>1, <1>2

LEMMA WovenAll ==
  ASSUME NEW source \in Seq(Statement)
  PROVE  WovenTo(source, Len(source)) = Woven(source)
<1>. DEFINE xs == Threads(source)
<1>1. xs \in Seq(Seq(CallRecords)) /\ Len(xs) = Len(source) BY ThreadsType
<1>2. Woven(source) = FlattenSeq(xs) BY DEF Woven, Threads
<1> HIDE DEF xs
<1>3. SubSeq(xs, 1, Len(xs)) = xs BY <1>1, SubSeqFull
<1> QED BY <1>1, <1>2, <1>3 DEF WovenTo, xs

(***************************************************************************)
(* What a block begins with.                                               *)
(***************************************************************************)
(* The source begins with nothing.                                         *)
LEMMA BeginsNone ==
  ASSUME NEW source \in Seq(Statement)
  PROVE  Begins(source, <<>>, source, 0)
<1>1. Len(<<>>) = 0 /\ Len(source) \in Nat OBVIOUS
<1> QED BY <1>1 DEF Begins

(* The block goes on with the next statement of the source.                *)
LEMMA BeginsNext ==
  ASSUME NEW source \in Seq(Statement), NEW block \in Seq(Statement),
         NEW w \in Seq(CallRecords), NEW p \in 0..Len(source),
         Begins(block, w, source, p), Len(w) < Len(block)
  PROVE  /\ p + 1 \in 1..Len(source)
         /\ block[Len(w) + 1] = source[p + 1]
         /\ Begins(block, w \o <<Call(source[p + 1])>>, source, p + 1)
<1>. DEFINE n == Len(source)  l == Len(w)  b == Len(block)
            c == Call(source[p + 1])  v == w \o <<c>>
<1>0. n \in Nat /\ l \in Nat /\ p \in Nat /\ b \in Nat OBVIOUS
<1>1. /\ b = l + (n - p) /\ \A i \in 1..l : Call(block[i]) = w[i]
      /\ \A i \in 1..(n - p) : block[l + i] = source[p + i]
  BY DEF Begins
<1>2. p + 1 \in 1..n /\ 1 \in 1..(n - p) BY <1>0, <1>1
<1>3. block[l + 1] = source[p + 1] BY <1>1, <1>2
<1>4. source[p + 1] \in Statement BY <1>2, ElementOfSeq
<1>5. c \in CallRecords BY <1>4, CallType
<1> HIDE DEF c
<1>6. <<c>> \in Seq(CallRecords) /\ Len(<<c>>) = 1 /\ <<c>>[1] = c BY <1>5
<1>7. /\ v \in Seq(CallRecords) /\ Len(v) = l + 1
      /\ \A i \in 1..(l + 1) : v[i] = IF i <= l THEN w[i] ELSE <<c>>[i - l]
  BY <1>6, ConcatProperties
<1> HIDE DEF v, l, n, b
<1>8. ASSUME NEW i \in 1..Len(v) PROVE Call(block[i]) = v[i]
  <2>0. i \in 1..(l + 1) BY <1>7
  <2>1. CASE i <= l
    <3>1. i \in 1..l BY <1>0, <2>0, <2>1
    <3> QED BY <1>1, <1>7, <2>0, <2>1, <3>1
  <2>2. CASE ~(i <= l)
    <3>1. i = l + 1 /\ i - l = 1 BY <1>0, <2>0, <2>2
    <3>2. v[i] = c BY <1>6, <1>7, <2>0, <2>2, <3>1
    <3> QED BY <1>3, <3>1, <3>2 DEF c
  <2> QED BY <2>1, <2>2
<1>9. ASSUME NEW i \in 1..(n - (p + 1)) PROVE block[Len(v) + i] = source[(p + 1) + i]
  <2>1. i + 1 \in 1..(n - p) /\ l + (i + 1) = Len(v) + i /\ p + (i + 1) = (p + 1) + i
    BY <1>0, <1>7
  <2>2. block[l + (i + 1)] = source[p + (i + 1)] BY <1>1, <2>1
  <2> QED BY <2>1, <2>2
<1>10. b = Len(v) + (n - (p + 1))
  <2>1. b = l + (n - p) /\ Len(v) = l + 1 BY <1>1, <1>7
  <2> QED BY <1>0, <2>1
<1>11. Begins(block, v, source, p + 1) BY <1>8, <1>9, <1>10 DEF Begins, n, b
<1> QED BY <1>2, <1>3, <1>11 DEF v, c, l, n

(* A block that begins with all of the source is no more than that.        *)
LEMMA BeginsAll ==
  ASSUME NEW source \in Seq(Statement), NEW block \in Seq(Statement),
         NEW w \in Seq(CallRecords), Begins(block, w, source, Len(source))
  PROVE  CallSeq(block) = w
<1>. DEFINE b == Len(block)  f == [i \in 1..b |-> Call(block[i])]
<1>1. b \in Nat /\ Len(source) \in Nat /\ Len(w) \in Nat /\ DOMAIN block = 1..b OBVIOUS
<1>2. b = Len(w) /\ \A i \in 1..Len(w) : Call(block[i]) = w[i] BY <1>1 DEF Begins
<1>3. CallSeq(block) = f BY <1>1 DEF CallSeq
<1>4. \A i \in 1..b : Call(block[i]) \in CallRecords BY ElementOfSeq, CallType
<1> HIDE DEF b
<1>5. f \in Seq(CallRecords) /\ Len(f) = b BY <1>1, <1>4
<1>6. \A i \in 1..b : f[i] = Call(block[i]) OBVIOUS
<1> HIDE DEF f
<1>7. \A i \in 1..Len(f) : f[i] = w[i] BY <1>2, <1>5, <1>6
<1>8. Len(f) = Len(w) BY <1>2, <1>5
<1>9. f = w BY <1>5, <1>7, <1>8, SeqEqual
<1> QED BY <1>3, <1>9

(* What is inserted behind u comes between u and r.                        *)
LEMMA BeginsInsert ==
  ASSUME NEW source \in Seq(Statement), NEW block \in Seq(Statement),
         NEW u \in Seq(CallRecords), NEW r \in Seq(CallRecords),
         NEW p \in 0..Len(source), Begins(block, u \o r, source, p),
         NEW c \in Statement, NEW new, Len(new) = Len(block) + 1,
         \A k \in 1..(Len(block) + 1) :
           new[k] = IF k < Len(u) + 1 THEN block[k]
                    ELSE IF k = Len(u) + 1 THEN c ELSE block[k - 1]
  PROVE  Begins(new, u \o (<<Call(c)>> \o r), source, p)
<1>. DEFINE n == Len(source)  a == Len(u)  l == Len(r)  b == Len(block)
            w == u \o r  e == Call(c)  m == <<e>> \o r  v == u \o m
<1>0. n \in Nat /\ a \in Nat /\ l \in Nat /\ p \in Nat /\ b \in Nat /\ p <= n OBVIOUS
<1>1. /\ w \in Seq(CallRecords) /\ Len(w) = a + l
      /\ \A i \in 1..(a + l) : w[i] = IF i <= a THEN u[i] ELSE r[i - a]
  BY ConcatProperties
<1>2. e \in CallRecords BY CallType
<1> HIDE DEF e
<1>3. <<e>> \in Seq(CallRecords) /\ Len(<<e>>) = 1 /\ <<e>>[1] = e BY <1>2
<1>4. /\ m \in Seq(CallRecords) /\ Len(m) = 1 + l
      /\ \A i \in 1..(1 + l) : m[i] = IF i <= 1 THEN <<e>>[i] ELSE r[i - 1]
  BY <1>3, ConcatProperties
<1> HIDE DEF m
<1>5. /\ v \in Seq(CallRecords) /\ Len(v) = a + Len(m)
      /\ \A i \in 1..(a + Len(m)) : v[i] = IF i <= a THEN u[i] ELSE m[i - a]
  BY <1>4, ConcatProperties
<1>6. /\ b = Len(w) + (n - p) /\ \A i \in 1..Len(w) : Call(block[i]) = w[i]
      /\ \A i \in 1..(n - p) : block[Len(w) + i] = source[p + i]
  BY DEF Begins
<1> HIDE DEF v, w
<1>8. /\ Len(new) = b + 1
      /\ \A k \in 1..(b + 1) :
           new[k] = IF k < a + 1 THEN block[k] ELSE IF k = a + 1 THEN c ELSE block[k - 1]
  OBVIOUS
<1> HIDE DEF n, a, l, b
<1>9. ASSUME NEW i \in 1..Len(v) PROVE Call(new[i]) = v[i]
  <2>0. i \in Nat /\ i \in 1..(a + Len(m)) /\ i \in 1..(b + 1) /\ Len(w) = a + l
        /\ Len(m) = 1 + l
    BY <1>0, <1>1, <1>4, <1>5, <1>6
  <2>1. CASE i <= a
    <3>1. i \in 1..Len(w) /\ i < a + 1 /\ i \in 1..(a + l) BY <1>0, <2>0, <2>1
    <3>2. new[i] = block[i] BY <1>8, <2>0, <3>1
    <3>3. v[i] = u[i] /\ w[i] = u[i] BY <1>1, <1>5, <2>0, <2>1, <3>1
    <3> QED BY <1>6, <3>1, <3>2, <3>3
  <2>2. CASE i = a + 1
    <3>1. ~(i <= a) /\ ~(i < a + 1) /\ i - a = 1 /\ 1 \in 1..(1 + l) BY <1>0, <2>2
    <3>2. new[i] = c BY <1>8, <2>0, <2>2, <3>1
    <3>3. v[i] = m[1] BY <1>5, <2>0, <3>1
    <3>4. m[1] = e BY <1>3, <1>4, <3>1
    <3> QED BY <3>2, <3>3, <3>4 DEF e
  <2>3. CASE i > a + 1
    <3>1. /\ ~(i <= a) /\ ~(i < a + 1) /\ i # a + 1 /\ i - a \in 1..(1 + l) /\ ~(i - a <= 1)
          /\ i - 1 \in 1..Len(w) /\ i - 1 \in 1..(a + l) /\ ~(i - 1 <= a)
          /\ (i - a) - 1 = (i - 1) - a
      BY <1>0, <2>0, <2>3
    <3>2. new[i] = block[i - 1] BY <1>8, <2>0, <3>1
    <3>3. v[i] = m[i - a] BY <1>5, <2>0, <3>1
    <3>4. m[i - a] = r[(i - a) - 1] BY <1>4, <3>1
    <3>5. w[i - 1] = r[(i - 1) - a] BY <1>1, <3>1
    <3>6. Call(block[i - 1]) = w[i - 1] BY <1>6, <3>1
    <3> QED BY <3>1, <3>2, <3>3, <3>4, <3>5, <3>6
  <2> QED BY <1>0, <2>0, <2>1, <2>2, <2>3
<1>10. ASSUME NEW i \in 1..(n - p) PROVE new[Len(v) + i] = source[p + i]
  <2>0. Len(w) = a + l /\ Len(m) = 1 + l /\ Len(v) = a + Len(m) BY <1>1, <1>4, <1>5
  <2>1. /\ Len(v) + i \in 1..(b + 1) /\ ~(Len(v) + i < a + 1) /\ Len(v) + i # a + 1
        /\ (Len(v) + i) - 1 = Len(w) + i
    BY <1>0, <1>6, <2>0
  <2>2. new[Len(v) + i] = block[(Len(v) + i) - 1] BY <1>8, <2>1
  <2> QED BY <1>6, <2>1, <2>2
<1>11. Len(new) = Len(v) + (n - p) BY <1>0, <1>1, <1>4, <1>5, <1>6, <1>8
<1>12. Begins(new, v, source, p) BY <1>9, <1>10, <1>11 DEF Begins, n
<1> QED BY <1>12 DEF v, m, e

(***************************************************************************)
(* The steps.                                                              *)
(***************************************************************************)
(* The function compiled has blocks of statements with ids of their own.   *)
LEMMA SourceFacts ==
  ASSUME IInv, WovenInv, Running
  PROVE  /\ fn \in Sources /\ Len(fn.blocks) = Len(blocks) /\ DOMAIN blocks = 1..Len(blocks)
         /\ \A b \in DOMAIN blocks :
              /\ fn.blocks[b] \in Seq(Statement) /\ blocks[b] \in Seq(Statement)
              /\ \A i \in DOMAIN fn.blocks[b] : fn.blocks[b][i].id > 0
         /\ \A b, c \in DOMAIN blocks :
              \A i \in DOMAIN fn.blocks[b], j \in DOMAIN fn.blocks[c] :
                fn.blocks[b][i].id = fn.blocks[c][j].id => b = c /\ i = j
<1>1. fn \in Sources BY DEF IInv, TypeOK, Running
<1>2. fn.blocks \in Seq(Seq(Statement)) /\ blocks \in Seq(Seq(Statement))
  BY <1>1, SourceAssumption DEF IInv, TypeOK
<1>3. Len(fn.blocks) = Len(blocks) BY DEF WovenInv
<1>4. DOMAIN fn.blocks = 1..Len(fn.blocks) /\ DOMAIN blocks = 1..Len(blocks) BY <1>2
<1>5. \A b \in DOMAIN blocks : fn.blocks[b] \in Seq(Statement) /\ blocks[b] \in Seq(Statement)
  BY <1>2, <1>3, <1>4, ElementOfSeq
<1>6. DOMAIN fn.blocks = DOMAIN blocks BY <1>3, <1>4
<1>7. \A b \in DOMAIN blocks : \A i \in DOMAIN fn.blocks[b] : fn.blocks[b][i].id > 0
  BY <1>1, <1>6, SourceAssumption
<1>8. \A b, c \in DOMAIN blocks :
        \A i \in DOMAIN fn.blocks[b], j \in DOMAIN fn.blocks[c] :
          fn.blocks[b][i].id = fn.blocks[c][j].id => b = c /\ i = j
  BY <1>1, <1>6, SourceAssumption
<1> QED BY <1>1, <1>3, <1>4, <1>5, <1>7, <1>8

(* The block the pass is in, its source, and where it stands.              *)
LEMMA HereFacts ==
  ASSUME IInv, WovenInv, AtStmt
  PROVE  /\ Running /\ bb \in DOMAIN blocks /\ gsi \in 1..Len(blocks[bb])
         /\ blocks[bb] \in Seq(Statement) /\ fn.blocks[bb] \in Seq(Statement)
         /\ Stmt = blocks[bb][gsi] /\ Stmt \in Statement
         /\ gsi \in Nat /\ bb \in Nat /\ ib \in Nat
         /\ \A source \in {fn.blocks[bb]} : Here(source)
<1>1. Running /\ bb \in Nat /\ gsi \in Nat /\ ib \in Nat BY DEF AtStmt, IInv, TypeOK
<1>2. blocks \in Seq(Seq(Statement)) BY DEF IInv, TypeOK
<1>3. bb \in DOMAIN blocks BY <1>1, <1>2 DEF AtStmt, IInv, TypeOK
<1>4. blocks[bb] \in Seq(Statement) /\ fn.blocks[bb] \in Seq(Statement)
  BY <1>1, <1>3, SourceFacts
<1>5. gsi \in 1..Len(blocks[bb]) BY <1>1, <1>3 DEF AtStmt, IInv, TypeOK
<1>6. Stmt = blocks[bb][gsi] BY DEF Stmt
<1>7. Stmt \in Statement BY <1>4, <1>5, <1>6, ElementOfSeq
<1>8. \A source \in {fn.blocks[bb]} : Here(source)
  BY <1>1, <1>3 DEF WovenInv, BlockInv
<1> QED BY <1>1, <1>3, <1>4, <1>5, <1>6, <1>7, <1>8

(* What a step inside a block leaves alone.                                *)
LEMMA InBlock ==
  ASSUME IInv, WovenInv, AtStmt, NEW src, src = fn.blocks[bb], Here(src)',
         fn' = fn, bb' = bb, DOMAIN blocks' = DOMAIN blocks, Len(blocks') = Len(blocks),
         \A b \in DOMAIN blocks : b # bb => blocks'[b] = blocks[b],
         \A t \in Statement : (\A i \in DOMAIN src : src[i].id # t.id) =>
           Checked(t)' = Checked(t) /\ (NotTried(t) => NotTried(t)')
  PROVE  WovenInv'
<1>1. Running /\ bb \in DOMAIN blocks /\ bb \in Nat BY HereFacts
<1>2. /\ Len(fn.blocks) = Len(blocks) /\ DOMAIN blocks = 1..Len(blocks)
      /\ \A b \in DOMAIN blocks : fn.blocks[b] \in Seq(Statement)
      /\ \A b, c \in DOMAIN blocks :
           \A i \in DOMAIN fn.blocks[b], j \in DOMAIN fn.blocks[c] :
             fn.blocks[b][i].id = fn.blocks[c][j].id => b = c /\ i = j
  BY <1>1, SourceFacts
<1>3. ASSUME NEW b \in DOMAIN blocks, b # bb, NEW s, s = fn.blocks[b]
      PROVE  BlockInv(b, s)'
  <2>1. s \in Seq(Statement) /\ b \in Nat BY <1>2, <1>3
  <2>2. ASSUME NEW i \in DOMAIN s
        PROVE  /\ Checked(s[i])' = Checked(s[i])
               /\ NotTried(s[i]) => NotTried(s[i])'
    <3>1. s[i] \in Statement BY <2>1, ElementOfSeq
    <3>2. \A j \in DOMAIN src : src[j].id # s[i].id BY <1>1, <1>2, <1>3
    <3> QED BY <3>1, <3>2
  <2>3. BlockInv(b, s) BY <1>1, <1>3 DEF WovenInv
  <2>4. CASE b < bb
    <3>1. CallSeq(blocks[b]) = Woven(s) BY <2>3, <2>4 DEF BlockInv
    <3>2. Woven(s)' = Woven(s) BY <2>2 DEF Woven
    <3>3. CallSeq(blocks[b])' = CallSeq(blocks[b]) BY <1>3 DEF CallSeq
    <3>4. ~(b > bb) BY <1>1, <2>1, <2>4
    <3> QED BY <1>3, <3>1, <3>2, <3>3, <3>4 DEF BlockInv
  <2>5. CASE b > bb
    <3>1. blocks[b] = s /\ Behind(s, 0) BY <2>3, <2>5 DEF BlockInv
    <3>2. \A i \in (0 + 1)..Len(s) : i \in DOMAIN s BY <2>1
    <3>3. Behind(s, 0)' BY <2>2, <3>1, <3>2 DEF Behind
    <3>4. ~(b < bb) BY <1>1, <2>1, <2>5
    <3> QED BY <1>3, <3>1, <3>3, <3>4 DEF BlockInv
  <2> QED BY <1>1, <1>3, <2>1, <2>4, <2>5
<1>4. BlockInv(bb, src)' BY <1>1 DEF BlockInv
<1>5. \A b \in DOMAIN blocks' : \A s \in {fn'.blocks[b]} : BlockInv(b, s)'
  <2> SUFFICES ASSUME NEW b \in DOMAIN blocks, NEW s, s = fn.blocks[b] PROVE BlockInv(b, s)'
    OBVIOUS
  <2>1. CASE b # bb BY <1>3, <2>1
  <2>2. CASE b = bb
    <3>1. s = src BY <2>2
    <3>2. BlockInv(b, src)' <=> Here(src)' BY <1>1, <2>2 DEF BlockInv
    <3> QED BY <3>1, <3>2
  <2> QED BY <2>1, <2>2
<1>6. Len(blocks') = Len(fn'.blocks) BY <1>2
<1> QED BY <1>5, <1>6 DEF WovenInv

(* Nothing failed: what is to be woven is what it was.                     *)
LEMMA SameChecks ==
  ASSUME fn' = fn, failed' = failed
  PROVE  /\ \A t : /\ Checked(t)' = Checked(t) /\ NotTried(t)' = NotTried(t)
                   /\ Unfailed(t)' = Unfailed(t)
                   /\ ahg_check_gimple_stmt(t)' = ahg_check_gimple_stmt(t)
         /\ \A source, p : /\ WovenTo(source, p)' = WovenTo(source, p)
                           /\ Behind(source, p)' = Behind(source, p)
<1>1. \A t : Unfailed(t)' = Unfailed(t) BY DEF Unfailed
<1>2. \A t : NotTried(t)' = NotTried(t) BY <1>1 DEF NotTried
<1>3. \A t : Checked(t)' = Checked(t) BY <1>1 DEF Checked, Built
<1>4. \A t : ahg_check_gimple_stmt(t)' = ahg_check_gimple_stmt(t) BY DEF ahg_check_gimple_stmt
<1>5. \A source, p : WovenTo(source, p)' = WovenTo(source, p) BY <1>3 DEF WovenTo, Threads
<1>6. \A source, p : Behind(source, p)' = Behind(source, p) BY <1>2 DEF Behind
<1> QED BY <1>1, <1>2, <1>3, <1>4, <1>5, <1>6

(* Behind a block that begins with w, the next statement is the source's.  *)
LEMMA BetweenNext ==
  ASSUME IInv, WovenInv, AtStmt, NEW src, src = fn.blocks[bb],
         NEW p \in 0..Len(src), Between(src, p), gsi = Len(WovenTo(src, p)) + 1
  PROVE  /\ p + 1 \in 1..Len(src) /\ Stmt = src[p + 1]
         /\ WovenTo(src, p) \in Seq(CallRecords)
         /\ Begins(blocks[bb], WovenTo(src, p) \o <<Call(Stmt)>>, src, p + 1)
         /\ WovenTo(src, p + 1) = WovenTo(src, p) \o Checked(Stmt)
         /\ Behind(src, p + 1) /\ NotTried(Stmt)
<1>. DEFINE w == WovenTo(src, p)  block == blocks[bb]
<1>1. /\ block \in Seq(Statement) /\ src \in Seq(Statement)
      /\ gsi \in 1..Len(block) /\ Stmt = block[gsi]
  BY HereFacts
<1>2. w \in Seq(CallRecords) BY <1>1, WovenType
<1>3. Begins(block, w, src, p) BY DEF Between
<1>4. gsi = Len(w) + 1 OBVIOUS
<1> HIDE DEF w, block
<1>5. Len(w) < Len(block) BY <1>1, <1>2, <1>4
<1>6. /\ p + 1 \in 1..Len(src) /\ block[Len(w) + 1] = src[p + 1]
      /\ Begins(block, w \o <<Call(src[p + 1])>>, src, p + 1)
  BY <1>1, <1>2, <1>3, <1>5, BeginsNext
<1>7. Stmt = src[p + 1] BY <1>1, <1>4, <1>6
<1>8. WovenTo(src, p + 1) = w \o Checked(Stmt)
  <2>1. (p + 1) - 1 = p BY <1>1
  <2>2. WovenTo(src, p + 1) = WovenTo(src, (p + 1) - 1) \o Checked(src[p + 1])
    BY <1>1, <1>6, WovenNext
  <2> QED BY <1>7, <2>1, <2>2 DEF w
<1>9. Behind(src, p + 1) /\ NotTried(Stmt)
  <2>1. Behind(src, p) BY DEF Between
  <2>2. p + 1 \in (p + 1)..Len(src) BY <1>6
  <2>3. \A i \in ((p + 1) + 1)..Len(src) : i \in (p + 1)..Len(src) BY <1>6
  <2> QED BY <1>7, <2>1, <2>2, <2>3 DEF Behind
<1> QED BY <1>2, <1>6, <1>7, <1>8, <1>9 DEF w, block

LEMMA SkipWoven ==
  ASSUME IInv, WovenInv, SkipStmt
  PROVE  WovenInv'
<1>1. AtStmt /\ ib = 0 /\ ~ahg_check_gimple_stmt(Stmt) /\ gsi' = gsi + 1
      /\ fn' = fn /\ blocks' = blocks /\ bb' = bb /\ ib' = ib /\ failed' = failed
  BY DEF SkipStmt
<1>2. PICK src : src = fn.blocks[bb] OBVIOUS
<1>3. /\ src \in Seq(Statement) /\ Here(src) /\ gsi \in Nat
      /\ blocks[bb] \in Seq(Statement) /\ Stmt \in Statement
  BY <1>1, <1>2, HereFacts
<1>4. PICK p \in 0..Len(src) : Between(src, p) BY <1>1, <1>3 DEF Here
<1>. DEFINE w == WovenTo(src, p)
<1>5. w \in Seq(CallRecords) BY <1>3, WovenType
<1>6. Here(src)'
  <2>1. CASE gsi # Len(w) + 1
    <3>1. gsi + 1 <= Len(w) + 1 BY <1>3, <1>4, <1>5, <2>1 DEF Between
    <3>2. \A i \in (gsi + 1)..Len(w) : i \in gsi..Len(w) BY <1>3, <1>5
    <3>3. w' = w /\ Behind(src, p)' = Behind(src, p) BY <1>1, SameChecks
    <3>4. Begins(blocks[bb], w, src, p) /\ (\A i \in gsi..Len(w) : ~IsSource(blocks[bb][i]))
          /\ Behind(src, p)
      BY <1>4 DEF Between
    <3> HIDE DEF w
    <3>5. Between(src, p)' BY <1>1, <3>1, <3>2, <3>3, <3>4 DEF Between, w
    <3> QED BY <1>1, <1>4, <3>5 DEF Here
  <2>2. CASE gsi = Len(w) + 1
    <3>1. /\ p + 1 \in 1..Len(src)
          /\ Begins(blocks[bb], w \o <<Call(Stmt)>>, src, p + 1)
          /\ WovenTo(src, p + 1) = w \o Checked(Stmt)
          /\ Behind(src, p + 1)
      BY <1>1, <1>2, <1>4, <2>2, BetweenNext
    <3>2. Checked(Stmt) = <<Call(Stmt)>> BY <1>1, <1>3, CheckedIs
    <3>. DEFINE v == WovenTo(src, p + 1)
    <3>3. v = w \o <<Call(Stmt)>> BY <3>1, <3>2
    <3>4. v' = v /\ Behind(src, p + 1)' = Behind(src, p + 1) BY <1>1, SameChecks
    <3>5. Len(v) = Len(w) + 1
      <4>. DEFINE e == Call(Stmt)
      <4>1. e \in CallRecords BY <1>3, CallType
      <4> HIDE DEF e, w, v
      <4>2. <<e>> \in Seq(CallRecords) /\ Len(<<e>>) = 1 BY <4>1
      <4>3. Len(w \o <<e>>) = Len(w) + 1 BY <1>5, <4>2
      <4> QED BY <3>3, <4>3 DEF e
    <3>6. Begins(blocks[bb], v, src, p + 1) BY <3>1, <3>3
    <3> HIDE DEF v, w
    <3>7. gsi + 1 <= Len(v) + 1 /\ \A i \in (gsi + 1)..Len(v) : FALSE
      <4>1. Len(w) \in Nat BY <1>5
      <4> QED BY <1>3, <2>2, <3>5, <4>1
    <3>8. Between(src, p + 1)' BY <1>1, <3>1, <3>4, <3>6, <3>7 DEF Between, v
    <3>9. p + 1 \in 0..Len(src) BY <3>1
    <3> QED BY <1>1, <3>8, <3>9 DEF Here
  <2> QED BY <2>1, <2>2
<1>7. \A t : Checked(t)' = Checked(t) /\ NotTried(t)' = NotTried(t) BY <1>1, SameChecks
<1> QED BY <1>1, <1>2, <1>6, <1>7, InBlock

LEMMA InstrumentWoven ==
  ASSUME IInv, WovenInv, ahg_instrument_gimple_call
  PROVE  WovenInv'
<1>1. AtStmt /\ ib = 0 /\ ahg_check_gimple_stmt(Stmt) /\ ib' = 1
      /\ fn' = fn /\ blocks' = blocks /\ bb' = bb /\ gsi' = gsi /\ failed' = failed
  BY DEF ahg_instrument_gimple_call
<1>2. PICK src : src = fn.blocks[bb] OBVIOUS
<1>3. /\ src \in Seq(Statement) /\ Here(src) /\ gsi \in Nat /\ bb \in DOMAIN blocks
      /\ blocks[bb] \in Seq(Statement) /\ Stmt \in Statement
      /\ gsi \in 1..Len(blocks[bb]) /\ Stmt = blocks[bb][gsi]
  BY <1>1, <1>2, HereFacts
<1>4. PICK p \in 0..Len(src) : Between(src, p) BY <1>1, <1>3 DEF Here
<1>. DEFINE w == WovenTo(src, p)
<1>5. w \in Seq(CallRecords) BY <1>3, WovenType
<1>6. IsSource(Stmt) /\ is_target(Stmt.callee)
  <2>1. is_target(Stmt.callee) BY <1>1 DEF ahg_check_gimple_stmt
  <2>2. DOMAIN blocks[bb] = 1..Len(blocks[bb]) BY <1>3
  <2> QED BY <1>3, <2>1, <2>2, TableAssumption DEF IInv, OnlyChecks, is_target
<1>7. gsi = Len(w) + 1
  <2>1. gsi <= Len(w) + 1 /\ \A i \in gsi..Len(w) : ~IsSource(blocks[bb][i])
    BY <1>4 DEF Between
  <2>2. ASSUME gsi <= Len(w) PROVE FALSE
    <3>1. gsi \in gsi..Len(w) BY <1>3, <1>5, <2>2
    <3> QED BY <1>3, <1>6, <2>1, <3>1
  <2>3. Len(w) \in Nat BY <1>5
  <2> HIDE DEF w
  <2> QED BY <1>3, <2>1, <2>2, <2>3
<1>8. /\ p + 1 \in 1..Len(src) /\ Stmt = src[p + 1]
      /\ Begins(blocks[bb], w \o <<Call(Stmt)>>, src, p + 1)
      /\ Behind(src, p + 1) /\ NotTried(Stmt)
  BY <1>1, <1>2, <1>4, <1>7, BetweenNext
<1>9. PICK s, q : s = Stmt /\ q = p + 1 OBVIOUS
<1>10. s = src[q] /\ q \in 1..Len(src) /\ q - 1 = p BY <1>4, <1>8, <1>9
<1>11. At(src, q)'
  <2>1. WovenTo(src, q - 1)' = w BY <1>1, <1>10, SameChecks
  <2>2. Tried(s, 0, Unfailed(s)) = <<Call(s)>> BY <1>3, <1>9, TriedZero
  <2>3. Begins(blocks[bb], w \o Tried(s, 0, Unfailed(s)), src, q) BY <1>8, <1>9, <2>2
  <2>4. Unfailed(s)' = Unfailed(s) /\ ahg_check_gimple_stmt(s)'
        /\ Behind(src, q)'
    BY <1>1, <1>8, <1>9, SameChecks
  <2>5. \A j \in 1..Len(tcalls[s.callee]) : tcalls[s.callee][j] \in Unfailed(s)
    <3>1. tcalls[s.callee] \in Seq(STRING) /\ s.callee \in DOMAIN tcalls
      BY <1>6, <1>9, TableAssumption DEF is_target
    <3>2. \A j \in 1..Len(tcalls[s.callee]) : tcalls[s.callee][j] \in Builtins
      BY <3>1, EntryIsCheck
    <3> QED BY <1>8, <1>9, <3>2 DEF NotTried
  <2>6. Len(tcalls[s.callee]) \in Nat
    BY <1>6, <1>9, TableAssumption DEF is_target
  <2>7. 1 \in 1..(Len(tcalls[s.callee]) + 1) /\ 1 - 1 = 0 BY <2>6
  <2> HIDE DEF w
  <2>8. Begins(blocks[bb], w \o Tried(s, ib' - 1, Unfailed(s)'), src, q)
    BY <1>1, <2>3, <2>4, <2>7
  <2> QED BY <1>1, <1>7, <1>10, <2>1, <2>4, <2>5, <2>7, <2>8 DEF At
<1>12. Here(src)' BY <1>1, <1>10, <1>11 DEF Here
<1>13. \A t : Checked(t)' = Checked(t) /\ NotTried(t)' = NotTried(t) BY <1>1, SameChecks
<1> QED BY <1>1, <1>2, <1>12, <1>13, InBlock

(* At a target: what comes before it, and the checks there are.            *)
LEMMA AtFacts ==
  ASSUME IInv, WovenInv, AtStmt, NEW src, src = fn.blocks[bb],
         NEW p \in 1..Len(src), At(src, p), NEW s, s = src[p]
  PROVE  LET w == WovenTo(src, p - 1)
             u == w \o <<Call(s)>>
             r == CheckCalls(s, Names(s, ib - 1, Unfailed(s)))
         IN
         /\ s \in Statement /\ s.id > 0 /\ is_target(s.callee)
         /\ tcalls[s.callee] \in Seq(STRING) /\ ib - 1 \in 0..Len(tcalls[s.callee])
         /\ w \in Seq(CallRecords) /\ r \in Seq(CallRecords)
         /\ u \in Seq(CallRecords) /\ Len(u) = Len(w) + 1 /\ Len(u) = gsi
         /\ Begins(blocks[bb], u \o r, src, p)
         /\ Stmt.callee = s.callee /\ Stmt.id = s.id
<1>. DEFINE w == WovenTo(src, p - 1)
            u == w \o <<Call(s)>>
            B == Unfailed(s)
            r == CheckCalls(s, Names(s, ib - 1, B))
            block == blocks[bb]
            tab == tcalls[s.callee]
            e == Call(s)
<1>1. /\ src \in Seq(Statement) /\ bb \in DOMAIN blocks /\ Running /\ ib \in Nat /\ gsi \in Nat
      /\ block \in Seq(Statement) /\ Stmt = block[gsi] /\ gsi \in 1..Len(block)
  BY HereFacts
<1>2. s \in Statement /\ s.id > 0
  <2>1. p \in DOMAIN src BY <1>1
  <2> QED BY <1>1, <2>1, SourceFacts, ElementOfSeq
<1>3. /\ gsi = Len(w) + 1 /\ ahg_check_gimple_stmt(s) /\ ib \in 1..(Len(tab) + 1)
      /\ Begins(block, w \o Tried(s, ib - 1, B), src, p)
  BY DEF At
<1>4. is_target(s.callee) BY <1>3 DEF ahg_check_gimple_stmt
<1>5. tab \in Seq(STRING) BY <1>4, TableAssumption DEF is_target
<1>6. ib - 1 \in 0..Len(tab) BY <1>3, <1>5
<1>7. /\ Tried(s, ib - 1, B) = <<e>> \o r
      /\ r \in Seq(CallRecords)
  BY <1>2, <1>4, <1>6, TriedType
<1>8. w \in Seq(CallRecords) BY <1>1, WovenNext
<1>9. e \in CallRecords BY <1>2, CallType
<1> HIDE DEF w, r, e, block, tab
<1>10. <<e>> \in Seq(CallRecords) /\ Len(<<e>>) = 1 /\ <<e>>[1] = e BY <1>9
<1>11. /\ u \in Seq(CallRecords) /\ Len(u) = Len(w) + 1
       /\ \A i \in 1..(Len(w) + 1) : u[i] = IF i <= Len(w) THEN w[i] ELSE <<e>>[i - Len(w)]
  BY <1>8, <1>10, ConcatProperties DEF e
<1>12. w \o (<<e>> \o r) = u \o r
  <2>1. Associative(CallRecords) BY JoinAssociative
  <2>2. (w \o <<e>>) \o r = w \o (<<e>> \o r)
    BY <1>7, <1>8, <1>10, <2>1, Zenon DEF Associative
  <2> QED BY <2>2 DEF e
<1>13. Begins(block, u \o r, src, p) BY <1>3, <1>7, <1>12
<1>14. Call(Stmt) = e
  <2>. DEFINE v == u \o r
  <2> HIDE DEF u
  <2>1. /\ Len(v) = Len(u) + Len(r)
        /\ \A i \in 1..(Len(u) + Len(r)) : v[i] = IF i <= Len(u) THEN u[i] ELSE r[i - Len(u)]
    <3>1. u \in Seq(CallRecords) /\ r \in Seq(CallRecords) BY <1>7, <1>11
    <3> QED BY <3>1, ConcatProperties
  <2>2. Len(u) = gsi /\ Len(w) \in Nat /\ Len(r) \in Nat BY <1>3, <1>7, <1>8, <1>11
  <2>3. gsi \in 1..(Len(u) + Len(r)) /\ gsi <= Len(u) /\ gsi \in 1..(Len(w) + 1)
        /\ ~(gsi <= Len(w)) /\ gsi - Len(w) = 1
    BY <1>1, <1>3, <2>2
  <2>4. v[gsi] = e BY <1>10, <1>11, <2>1, <2>3
  <2> HIDE DEF v
  <2>5. \A i \in 1..Len(v) : Call(block[i]) = v[i] BY <1>13 DEF Begins, v
  <2> QED BY <1>1, <2>1, <2>3, <2>4, <2>5
<1>15. Stmt.callee = s.callee /\ Stmt.id = s.id BY <1>14 DEF Call, e
<1> QED BY <1>2, <1>3, <1>4, <1>5, <1>6, <1>7, <1>8, <1>11, <1>13, <1>15
     DEF w, r, e, block, tab

LEMMA InsertWoven ==
  ASSUME IInv, WovenInv, gxinsert_call
  PROVE  WovenInv'
<1>1. AtStmt /\ ib > 0 /\ HasEntry /\ ib' = ib + 1
      /\ fn' = fn /\ bb' = bb /\ gsi' = gsi /\ failed' = failed
  BY DEF gxinsert_call
<1>2. PICK src : src = fn.blocks[bb] OBVIOUS
<1>3. /\ src \in Seq(Statement) /\ Here(src) /\ gsi \in Nat /\ bb \in DOMAIN blocks /\ bb \in Nat
      /\ blocks[bb] \in Seq(Statement) /\ Stmt \in Statement /\ ib \in Nat
      /\ gsi \in 1..Len(blocks[bb])
  BY <1>1, <1>2, HereFacts
<1>4. ib # 0 BY <1>1, <1>3
<1>5. PICK p \in 1..Len(src) : At(src, p) BY <1>3, <1>4 DEF Here
<1>6. PICK s : s = src[p] OBVIOUS
<1>. DEFINE w == WovenTo(src, p - 1)
            B == Unfailed(s)
            r == CheckCalls(s, Names(s, ib - 1, B))
            u == w \o <<Call(s)>>
            tab == tcalls[s.callee]
            block == blocks[bb]
<1>7. /\ s \in Statement /\ is_target(s.callee) /\ tab \in Seq(STRING)
      /\ w \in Seq(CallRecords) /\ r \in Seq(CallRecords) /\ u \in Seq(CallRecords)
      /\ Len(u) = gsi
      /\ Begins(block, u \o r, src, p)
      /\ Stmt.callee = s.callee /\ Stmt.id = s.id
  BY <1>1, <1>2, <1>5, <1>6, AtFacts
<1>8. PICK artificial \in BOOLEAN :
        blocks' = [blocks EXCEPT ![bb] = InsertAt(block, InsertPosition, Check(artificial))]
  BY DEF gxinsert_call
<1>. DEFINE c == Check(artificial)
            new == InsertAt(block, gsi + 1, c)
<1>9. ib \in 1..Len(tab) /\ Entry = tab[ib]
  BY <1>1, <1>7 DEF HasEntry, Entry
<1>10. tab[ib] \in STRING BY <1>7, <1>9, ElementOfSeq
<1>11. c \in Statement /\ Call(c) = [callee |-> tab[ib], id |-> 0, for |-> s.id]
  BY <1>7, <1>9, <1>10 DEF Check, Statement, Call
<1>12. tab[ib] \in B BY <1>5, <1>6, <1>9 DEF At
<1> HIDE DEF c
<1>13. gsi + 1 \in 1..(Len(block) + 1) BY <1>3
<1>14. /\ Len(new) = Len(block) + 1
       /\ \A k \in 1..(Len(block) + 1) :
            new[k] = IF k < gsi + 1 THEN block[k] ELSE IF k = gsi + 1 THEN c ELSE block[k - 1]
  <2>. DEFINE at == gsi + 1
  <2>1. at \in 1..(Len(block) + 1) /\ block \in Seq(Statement) BY <1>3, <1>13
  <2> HIDE DEF at, block, u, w, r
  <2>2. /\ InsertAt(block, at, c) \in Seq(Statement)
        /\ Len(InsertAt(block, at, c)) = Len(block) + 1
        /\ \A k \in 1..(Len(block) + 1) :
             InsertAt(block, at, c)[k] = IF k < at THEN block[k] ELSE IF k = at THEN c ELSE block[k - 1]
    BY <1>11, <2>1, Inserting
  <2> QED BY <2>2 DEF at
<1> HIDE DEF new
<1>15. /\ blocks' = [blocks EXCEPT ![bb] = new] /\ blocks'[bb] = new
       /\ DOMAIN blocks' = DOMAIN blocks /\ Len(blocks') = Len(blocks)
       /\ \A b \in DOMAIN blocks : b # bb => blocks'[b] = blocks[b]
  <2>1. blocks' = [blocks EXCEPT ![bb] = new] BY <1>8 DEF InsertPosition, new, c
  <2>2. blocks \in Seq(Seq(Statement)) BY DEF IInv, TypeOK
  <2> HIDE DEF block
  <2>3. DOMAIN blocks' = DOMAIN blocks BY <2>1
  <2>4. Len(blocks') = Len(blocks) BY <2>1, <2>2
  <2>5. \A b \in DOMAIN blocks : b # bb => blocks'[b] = blocks[b] BY <2>1
  <2> QED BY <1>3, <2>1, <2>3, <2>4, <2>5
<1>16. Begins(new, u \o (<<Call(c)>> \o r), src, p)
  <2>1. p \in 0..Len(src) BY <1>5
  <2>2. block \in Seq(Statement) BY <1>3
  <2>3. /\ Len(new) = Len(block) + 1
        /\ \A k \in 1..(Len(block) + 1) :
             new[k] = IF k < Len(u) + 1 THEN block[k]
                      ELSE IF k = Len(u) + 1 THEN c ELSE block[k - 1]
    BY <1>7, <1>14
  <2> HIDE DEF u, r, block, w
  <2> QED BY <1>3, <1>7, <1>11, <2>1, <2>2, <2>3, BeginsInsert
<1>17. Begins(new, w \o Tried(s, ib, B), src, p)
  <2>. DEFINE e == Call(s)  q == <<Call(c)>> \o r
  <2>1. ib \in 0..Len(tab) BY <1>9
  <2>2. /\ Tried(s, ib, B) = <<e>> \o CheckCalls(s, Names(s, ib, B))
        /\ CheckCalls(s, Names(s, ib, B)) \in Seq(CallRecords)
    BY <1>7, <2>1, TriedType
  <2>3. CheckCalls(s, Names(s, ib, B)) = q
    BY <1>7, <1>9, <1>11, <1>12, TriedBuilt
  <2>4. <<e>> \in Seq(CallRecords) BY <1>7, CallType
  <2>5. q \in Seq(CallRecords) BY <2>2, <2>3
  <2>6. u \o q = w \o (<<e>> \o q)
    <3>1. Associative(CallRecords) BY JoinAssociative
    <3>2. (w \o <<e>>) \o q = w \o (<<e>> \o q)
      <4> HIDE DEF w, e, q
      <4> QED BY <1>7, <2>4, <2>5, <3>1, ZenonT(30) DEF Associative
    <3> QED BY <3>2
  <2> HIDE DEF w, q, e, u
  <2>7. w \o Tried(s, ib, B) = u \o q BY <2>2, <2>3, <2>6
  <2> QED BY <1>16, <2>7 DEF q
<1>18. At(src, p)'
  <2>1. WovenTo(src, p - 1)' = w /\ Unfailed(s)' = B
        /\ ahg_check_gimple_stmt(s)' = ahg_check_gimple_stmt(s)
        /\ Behind(src, p)' = Behind(src, p)
    BY <1>1, SameChecks
  <2>2. /\ gsi = Len(w) + 1 /\ ahg_check_gimple_stmt(s) /\ Behind(src, p)
        /\ \A j \in ib..Len(tab) : tab[j] \in B
    BY <1>5, <1>6 DEF At
  <2>3. Len(tab) \in Nat BY <1>7
  <2> HIDE DEF w, B, tab
  <2>4. ib' \in 1..(Len(tab) + 1) /\ ib' - 1 = ib BY <1>1, <1>9, <2>3
  <2>5. \A j \in ib'..Len(tab) : tab[j] \in B
    <3>1. \A j \in ib'..Len(tab) : j \in ib..Len(tab) BY <1>1, <1>3, <2>3
    <3> QED BY <2>2, <3>1
  <2>6. Begins(blocks'[bb'], w \o Tried(s, ib' - 1, Unfailed(s)'), src, p)
    BY <1>1, <1>15, <1>17, <2>1, <2>4
  <2> QED BY <1>1, <1>6, <2>1, <2>2, <2>4, <2>5, <2>6 DEF At, tab
<1>19. Here(src)'
  <2>1. ib' # 0 BY <1>1, <1>3
  <2> QED BY <1>5, <1>18, <2>1 DEF Here
<1>20. \A t : Checked(t)' = Checked(t) /\ NotTried(t)' = NotTried(t) BY <1>1, SameChecks
<1> HIDE DEF block
<1> QED BY <1>1, <1>2, <1>15, <1>19, <1>20, InBlock

(* Fronts with the same elements are the same.                             *)
LEMMA SameFront ==
  ASSUME NEW S, NEW x, NEW y, NEW n \in Nat, \A i \in 1..n : x[i] \in S /\ y[i] = x[i]
  PROVE  SubSeq(x, 1, n) = SubSeq(y, 1, n)
<1>. DEFINE a == SubSeq(x, 1, n)  b == SubSeq(y, 1, n)
<1>1. 1 \in Int /\ n \in Int /\ (IF 1 <= n THEN n - 1 + 1 ELSE 0) = n /\ n - 1 + 1 = n
  OBVIOUS
<1>2. \A i \in 1..n : x[i] \in S OBVIOUS
<1>3. \A i \in 1..n : y[i] \in S OBVIOUS
<1>4. /\ a \in Seq(S) /\ Len(a) = IF 1 <= n THEN n - 1 + 1 ELSE 0
      /\ \A i \in 1..(n - 1 + 1) : a[i] = x[1 + i - 1]
  BY <1>1, <1>2, SubSeqProperties
<1>5. /\ b \in Seq(S) /\ Len(b) = IF 1 <= n THEN n - 1 + 1 ELSE 0
      /\ \A i \in 1..(n - 1 + 1) : b[i] = y[1 + i - 1]
  BY <1>1, <1>3, SubSeqProperties
<1> HIDE DEF a, b
<1>6. Len(a) = n /\ Len(b) = n BY <1>1, <1>4, <1>5
<1>7. ASSUME NEW i \in 1..Len(a) PROVE a[i] = b[i]
  <2>1. i \in 1..n /\ i \in 1..(n - 1 + 1) /\ 1 + i - 1 = i BY <1>6
  <2> QED BY <1>4, <1>5, <2>1
<1>8. a = b BY <1>4, <1>5, <1>6, <1>7, SeqEqual
<1> QED BY <1>8 DEF a, b

(* A check that cannot be built is its target's loss, and no one else's.   *)
LEMMA FailWoven ==
  ASSUME IInv, WovenInv, BuildFails
  PROVE  WovenInv'
<1>1. AtStmt /\ ib > 0 /\ HasEntry /\ ib' = ib + 1
      /\ fn' = fn /\ bb' = bb /\ gsi' = gsi /\ blocks' = blocks
      /\ failed' = failed \cup {<<Stmt.id, Entry>>}
  BY DEF BuildFails
<1>2. PICK src : src = fn.blocks[bb] OBVIOUS
<1>3. /\ src \in Seq(Statement) /\ Here(src) /\ gsi \in Nat /\ bb \in DOMAIN blocks /\ bb \in Nat
      /\ ib \in Nat /\ Running
  BY <1>1, <1>2, HereFacts
<1>4. ib # 0 BY <1>1, <1>3
<1>5. PICK p \in 1..Len(src) : At(src, p) BY <1>3, <1>4 DEF Here
<1>6. PICK s : s = src[p] OBVIOUS
<1>. DEFINE w == WovenTo(src, p - 1)
            B == Unfailed(s)
            tab == tcalls[s.callee]
<1>7. /\ s \in Statement /\ is_target(s.callee) /\ tab \in Seq(STRING)
      /\ Stmt.callee = s.callee /\ Stmt.id = s.id /\ w \in Seq(CallRecords)
  BY <1>1, <1>2, <1>5, <1>6, AtFacts
<1>8. ib \in 1..Len(tab) /\ Entry = tab[ib]
  BY <1>1, <1>7 DEF HasEntry, Entry
<1>9. failed' = failed \cup {<<s.id, tab[ib]>>} BY <1>1, <1>7, <1>8
<1>10. ASSUME NEW t, t.id # s.id
       PROVE  /\ Unfailed(t)' = Unfailed(t) /\ Checked(t)' = Checked(t)
              /\ NotTried(t)' = NotTried(t)
  <2>1. Unfailed(t)' = Unfailed(t) BY <1>9, <1>10 DEF Unfailed
  <2> QED BY <1>1, <2>1 DEF Checked, Built, NotTried
<1>11. \A name : name \in Unfailed(s)' <=> name \in B /\ name # tab[ib]
  BY <1>9 DEF Unfailed
<1>12. ASSUME NEW i \in 1..Len(src), i # p PROVE src[i].id # s.id
  <2>1. i \in DOMAIN src /\ p \in DOMAIN src BY <1>3, <1>5
  <2> QED BY <1>2, <1>3, <1>6, <1>12, <2>1, SourceFacts
<1>13. \A i, j \in 1..Len(tab) : i # j => tab[i] # tab[j]
  <2>1. DOMAIN tab = 1..Len(tab) BY <1>7
  <2> QED BY <1>7, <2>1, TableAssumption DEF is_target
<1>14. w' = w
  <2>1. PICK xs, ys : xs = Threads(src) /\ ys = Threads(src)' OBVIOUS
  <2>2. p - 1 \in Nat BY <1>5
  <2>3. ASSUME NEW i \in 1..(p - 1) PROVE xs[i] \in Seq(CallRecords) /\ ys[i] = xs[i]
    <3>1. i \in 1..Len(src) /\ i # p /\ i \in DOMAIN src BY <1>3, <1>5
    <3>2. xs[i] = Checked(src[i]) BY <2>1, <3>1 DEF Threads
    <3>3. ys[i] = Checked(src[i])' BY <2>1, <3>1 DEF Threads
    <3>4. Checked(src[i])' = Checked(src[i]) BY <1>10, <1>12, <3>1
    <3>5. src[i] \in Statement BY <1>3, <3>1, ElementOfSeq
    <3>6. Checked(src[i]) \in Seq(CallRecords) BY <3>5, CheckedIs
    <3> QED BY <3>2, <3>3, <3>4, <3>6
  <2>4. SubSeq(xs, 1, p - 1) = SubSeq(ys, 1, p - 1)
    <3>. DEFINE n == p - 1
    <3>1. n \in Nat /\ \A i \in 1..n : xs[i] \in Seq(CallRecords) /\ ys[i] = xs[i]
      BY <2>2, <2>3
    <3> HIDE DEF n
    <3>2. SubSeq(xs, 1, n) = SubSeq(ys, 1, n) BY <3>1, SameFront
    <3> QED BY <3>2 DEF n
  <2>5. w = FlattenSeq(SubSeq(xs, 1, p - 1)) BY <2>1 DEF WovenTo
  <2>6. w' = FlattenSeq(SubSeq(ys, 1, p - 1)) BY <2>1 DEF WovenTo
  <2> QED BY <2>4, <2>5, <2>6
<1>15. Tried(s, ib, Unfailed(s)') = Tried(s, ib - 1, B)
  <2>1. PICK C : C = Unfailed(s)' OBVIOUS
  <2>2. tab[ib] \notin C BY <1>11, <2>1
  <2>3. ASSUME NEW i \in 1..(ib - 1) PROVE tab[i] \in B <=> tab[i] \in C
    <3>1. i \in 1..Len(tab) /\ i # ib BY <1>7, <1>8
    <3>2. tab[i] # tab[ib] BY <1>8, <1>13, <3>1
    <3> QED BY <1>11, <2>1, <3>2
  <2>4. Tried(s, ib, C) = Tried(s, ib - 1, B)
    <3> HIDE DEF B
    <3> QED BY <1>7, <1>8, <2>2, <2>3, TriedFailed
  <2> QED BY <2>1, <2>4
<1>16. At(src, p)'
  <2>1. /\ gsi = Len(w) + 1 /\ ahg_check_gimple_stmt(s) /\ Behind(src, p)
        /\ Begins(blocks[bb], w \o Tried(s, ib - 1, B), src, p)
        /\ \A j \in ib..Len(tab) : tab[j] \in B
    BY <1>5, <1>6 DEF At
  <2>2. ahg_check_gimple_stmt(s)' BY <1>1, <2>1 DEF ahg_check_gimple_stmt
  <2>3. Behind(src, p)'
    <3>1. ASSUME NEW i \in (p + 1)..Len(src) PROVE NotTried(src[i])'
      <4>1. i \in 1..Len(src) /\ i # p BY <1>5
      <4>2. NotTried(src[i]) BY <2>1 DEF Behind
      <4> QED BY <1>10, <1>12, <4>1, <4>2
    <3> QED BY <3>1 DEF Behind
  <2>4. Len(tab) \in Nat BY <1>7
  <2>5. \A j \in (ib + 1)..Len(tab) : tab[j] \in Unfailed(s)'
    <3>1. ASSUME NEW j \in (ib + 1)..Len(tab) PROVE tab[j] \in Unfailed(s)'
      <4>1. j \in ib..Len(tab) /\ j \in 1..Len(tab) /\ j # ib BY <1>3, <1>8, <2>4
      <4>2. tab[j] # tab[ib] BY <1>8, <1>13, <4>1
      <4> QED BY <1>11, <2>1, <4>1, <4>2
    <3> QED BY <3>1
  <2> HIDE DEF w, B, tab
  <2>6. ib' \in 1..(Len(tab) + 1) /\ ib' - 1 = ib BY <1>1, <1>8, <2>4
  <2>7. Begins(blocks'[bb'], w' \o Tried(s, ib' - 1, Unfailed(s)'), src, p)
    BY <1>1, <1>14, <1>15, <2>1, <2>6
  <2> QED BY <1>1, <1>6, <1>14, <2>1, <2>2, <2>3, <2>5, <2>6, <2>7 DEF At, tab, w
<1>17. Here(src)'
  <2>1. ib' # 0 BY <1>1, <1>3
  <2> QED BY <1>5, <1>16, <2>1 DEF Here
<1>18. ASSUME NEW t \in Statement, \A i \in DOMAIN src : src[i].id # t.id
       PROVE  Checked(t)' = Checked(t) /\ (NotTried(t) => NotTried(t)')
  <2>1. p \in DOMAIN src BY <1>3, <1>5
  <2>2. t.id # s.id BY <1>6, <1>18, <2>1
  <2> QED BY <1>10, <2>2
<1> QED BY <1>1, <1>2, <1>17, <1>18, InBlock

(* Behind a target with all its checks the statement is as it should be.   *)
LEMMA EndWoven ==
  ASSUME IInv, WovenInv, InstrumentEnd
  PROVE  WovenInv'
<1>1. AtStmt /\ ib > 0 /\ ~HasEntry /\ ib' = 0 /\ gsi' = gsi + 1
      /\ fn' = fn /\ bb' = bb /\ blocks' = blocks /\ failed' = failed
  BY DEF InstrumentEnd
<1>2. PICK src : src = fn.blocks[bb] OBVIOUS
<1>3. /\ src \in Seq(Statement) /\ Here(src) /\ gsi \in Nat /\ bb \in DOMAIN blocks /\ bb \in Nat
      /\ ib \in Nat /\ Running
  BY <1>1, <1>2, HereFacts
<1>4. ib # 0 BY <1>1, <1>3
<1>5. PICK p \in 1..Len(src) : At(src, p) BY <1>3, <1>4 DEF Here
<1>6. PICK s : s = src[p] OBVIOUS
<1>. DEFINE w == WovenTo(src, p - 1)
            u == w \o <<Call(s)>>
            B == Unfailed(s)
            r == CheckCalls(s, Names(s, ib - 1, B))
            tab == tcalls[s.callee]
            v == WovenTo(src, p)
            block == blocks[bb]
<1>7. /\ s \in Statement /\ s.id > 0 /\ is_target(s.callee) /\ tab \in Seq(STRING)
      /\ w \in Seq(CallRecords) /\ r \in Seq(CallRecords)
      /\ u \in Seq(CallRecords) /\ Len(u) = Len(w) + 1 /\ Len(u) = gsi
      /\ Begins(block, u \o r, src, p) /\ Stmt.callee = s.callee
      /\ ib - 1 \in 0..Len(tab)
  BY <1>1, <1>2, <1>5, <1>6, AtFacts, SMTT(30)
<1>8. ahg_check_gimple_stmt(s) /\ ib \in 1..(Len(tab) + 1) /\ Behind(src, p)
  BY <1>5, <1>6 DEF At
<1>9. ib - 1 = Len(tab)
  <2>1. DOMAIN tab = 1..Len(tab) /\ Len(tab) \in Nat BY <1>7
  <2>2. ~(ib \in 1..Len(tab)) BY <1>1, <1>7, <2>1 DEF HasEntry
  <2> HIDE DEF tab
  <2> QED BY <1>3, <1>8, <2>1, <2>2
<1>10. v = u \o r
  <2>1. v = w \o Checked(s) BY <1>3, <1>6, WovenNext
  <2>2. Checked(s) = Tried(s, ib - 1, B) BY <1>7, <1>8, <1>9, CheckedIs
  <2>. DEFINE e == Call(s)
  <2>3. Tried(s, ib - 1, B) = <<e>> \o r BY <1>7, TriedType
  <2>4. <<e>> \in Seq(CallRecords) BY <1>7, CallType
  <2>5. Associative(CallRecords) BY JoinAssociative
  <2>6. (w \o <<e>>) \o r = w \o (<<e>> \o r)
    <3> HIDE DEF w, e, r
    <3> QED BY <1>7, <2>4, <2>5, Zenon DEF Associative
  <2> QED BY <2>1, <2>2, <2>3, <2>6
<1>11. v \in Seq(CallRecords) BY <1>3, WovenNext
<1>12. /\ Len(v) = Len(u) + Len(r)
       /\ \A i \in 1..(Len(u) + Len(r)) : v[i] = IF i <= Len(u) THEN u[i] ELSE r[i - Len(u)]
  <2> HIDE DEF u, r, v, w
  <2> QED BY <1>7, <1>10, ConcatProperties
<1>13. \A i \in 1..Len(r) : r[i].for = s.id BY <1>7, TriedType
<1>14. Begins(block, v, src, p) BY <1>7, <1>10
<1> HIDE DEF u, r, v, w, B
<1>15. Len(r) \in Nat /\ Len(v) \in Nat BY <1>7, <1>11
<1>16. gsi + 1 <= Len(v) + 1 BY <1>3, <1>7, <1>12, <1>15
<1>17. ASSUME NEW i \in (gsi + 1)..Len(v) PROVE ~IsSource(block[i])
  <2>1. /\ i \in 1..(Len(u) + Len(r)) /\ ~(i <= Len(u)) /\ i - Len(u) \in 1..Len(r)
        /\ i \in 1..Len(v)
    BY <1>3, <1>7, <1>12, <1>15
  <2>2. v[i] = r[i - Len(u)] BY <1>12, <2>1
  <2>3. Call(block[i]) = v[i] BY <1>14, <2>1 DEF Begins
  <2>4. Call(block[i]).for = s.id BY <1>13, <2>1, <2>2, <2>3
  <2>5. block[i].for = s.id BY <2>4 DEF Call
  <2>6. s.id # 0 BY <1>7 DEF Statement
  <2> QED BY <2>5, <2>6 DEF IsSource
<1>18. v' = v /\ Behind(src, p)' BY <1>1, <1>8, SameChecks DEF v
<1>19. Between(src, p)'
  BY <1>1, <1>14, <1>16, <1>17, <1>18 DEF Between, v
<1>20. Here(src)' BY <1>1, <1>5, <1>19 DEF Here
<1>21. \A t : Checked(t)' = Checked(t) /\ NotTried(t)' = NotTried(t) BY <1>1, SameChecks
<1> QED BY <1>1, <1>2, <1>20, <1>21, InBlock

(* A block is left when all of its source is woven.                        *)
LEMMA NextBlockWoven ==
  ASSUME IInv, WovenInv, NextBlock
  PROVE  WovenInv'
<1>1. /\ Running /\ bb <= Len(blocks) /\ gsi > Len(blocks[bb])
      /\ bb' = bb + 1 /\ gsi' = 1
      /\ fn' = fn /\ blocks' = blocks /\ ib' = ib /\ failed' = failed
  BY DEF NextBlock
<1>2. blocks \in Seq(Seq(Statement)) /\ bb \in 1..(Len(blocks) + 1) /\ gsi \in Nat
  BY DEF IInv, TypeOK
<1>3. bb \in DOMAIN blocks /\ bb \in Nat BY <1>1, <1>2
<1>4. blocks[bb] \in Seq(Statement) /\ Len(blocks[bb]) \in Nat BY <1>2, <1>3
<1>5. ib = 0
  <2>1. ~AtStmt BY <1>1, <1>4, <1>2 DEF AtStmt
  <2> QED BY <2>1 DEF IInv, AtTarget, TypeOK
<1>6. PICK src : src = fn.blocks[bb] OBVIOUS
<1>7. src \in Seq(Statement) /\ Here(src) BY <1>1, <1>3, <1>6, SourceFacts DEF WovenInv, BlockInv
<1>8. PICK p \in 0..Len(src) : Between(src, p) BY <1>5, <1>7 DEF Here
<1>9. CallSeq(blocks[bb]) = Woven(src)
  <2>. DEFINE w == WovenTo(src, p)
  <2>1. w \in Seq(CallRecords) BY <1>7, WovenType
  <2>2. Begins(blocks[bb], w, src, p) /\ gsi <= Len(w) + 1 BY <1>8 DEF Between
  <2>3. Len(w) \in Nat /\ Len(src) \in Nat BY <1>7, <2>1
  <2>4. Len(blocks[bb]) = Len(w) + (Len(src) - p) BY <2>2 DEF Begins
  <2> HIDE DEF w
  <2>5. p = Len(src) BY <1>1, <1>2, <1>4, <2>2, <2>3, <2>4
  <2>6. CallSeq(blocks[bb]) = w BY <1>4, <1>7, <2>1, <2>2, <2>5, BeginsAll
  <2>7. WovenTo(src, Len(src)) = Woven(src) BY <1>7, WovenAll
  <2> QED BY <2>5, <2>6, <2>7 DEF w
<1>10. ASSUME NEW b \in DOMAIN blocks, NEW s, s = fn.blocks[b]
       PROVE  BlockInv(b, s)'
  <2>1. BlockInv(b, s) BY <1>1, <1>10 DEF WovenInv
  <2>2. Woven(s)' = Woven(s) BY <1>1, SameChecks DEF Woven
  <2>3. b \in Nat /\ s \in Seq(Statement) BY <1>1, <1>2, <1>10, SourceFacts
  <2>4. CASE b < bb
    <3>1. CallSeq(blocks[b]) = Woven(s) BY <2>1, <2>4 DEF BlockInv
    <3>2. b # bb + 1 /\ ~(b > bb + 1) BY <1>3, <2>3, <2>4
    <3> QED BY <1>1, <2>2, <3>1, <3>2 DEF BlockInv
  <2>5. CASE b = bb
    <3>1. CallSeq(blocks[b]) = Woven(s) BY <1>6, <1>9, <1>10, <2>5
    <3>2. b # bb + 1 /\ ~(b > bb + 1) BY <1>3, <2>5
    <3> QED BY <1>1, <2>2, <3>1, <3>2 DEF BlockInv
  <2>6. CASE b > bb
    <3>1. blocks[b] = s /\ Behind(s, 0) BY <2>1, <2>6 DEF BlockInv
    <3>2. Behind(s, 0)' BY <1>1, <3>1, SameChecks
    <3>3. ~(b < bb + 1) BY <1>3, <2>3, <2>6
    <3>4. b = bb + 1 => Here(s)'
      <4> SUFFICES ASSUME b = bb + 1 PROVE Here(s)' OBVIOUS
      <4>. DEFINE w == WovenTo(s, 0)
      <4>1. w' = <<>> BY WovenNone, <1>1, SameChecks
      <4>2. Begins(s, <<>>, s, 0) BY <2>3, BeginsNone
      <4>3. \A i \in 1..0 : FALSE OBVIOUS
      <4> HIDE DEF w
      <4>4. Len(w') = 0 BY <4>1
      <4>5. Between(s, 0)'
        BY <1>1, <3>1, <3>2, <4>1, <4>2, <4>3, <4>4 DEF Between, w
      <4>6. 0 \in 0..Len(s) BY <2>3
      <4> QED BY <1>1, <1>5, <4>5, <4>6 DEF Here
    <3> QED BY <1>1, <3>1, <3>2, <3>3, <3>4 DEF BlockInv
  <2> QED BY <1>3, <2>3, <2>4, <2>5, <2>6
<1>11. Len(blocks') = Len(fn'.blocks) BY <1>1, SourceFacts
<1> QED BY <1>1, <1>10, <1>11 DEF WovenInv

(* No check of a new function has failed, and nothing is woven.            *)
LEMMA StartWoven ==
  ASSUME NEW f \in Sources, ahaggar_xinstrument_main(f)
  PROVE  WovenInv'
<1>1. /\ fn' = f /\ blocks' = f.blocks /\ bb' = 1 /\ gsi' = 1 /\ ib' = 0 /\ failed' = {}
  BY DEF ahaggar_xinstrument_main
<1>2. f.blocks \in Seq(Seq(Statement)) BY SourceAssumption
<1>3. \A t : NotTried(t)' BY <1>1 DEF NotTried, Unfailed
<1>4. ASSUME NEW b \in DOMAIN f.blocks, NEW s, s = f.blocks[b]
      PROVE  BlockInv(b, s)'
  <2>1. s \in Seq(Statement) /\ b \in Nat /\ b >= 1 BY <1>2, <1>4, ElementOfSeq
  <2>2. Behind(s, 0)' BY <1>3 DEF Behind
  <2>3. Here(s)' \/ b # 1
    <3> SUFFICES ASSUME b = 1 PROVE Here(s)' OBVIOUS
    <3>. DEFINE w == WovenTo(s, 0)
    <3>1. w' = <<>>
      <4>1. PICK xs : xs = Threads(s)' OBVIOUS
      <4>2. w' = FlattenSeq(SubSeq(xs, 1, 0)) BY <4>1 DEF WovenTo
      <4>3. SubSeq(xs, 1, 0) = <<>> BY SubSeqEmpty
      <4> QED BY <4>2, <4>3, FlattenEmpty
    <3>2. Begins(s, <<>>, s, 0) BY <2>1, BeginsNone
    <3>3. \A i \in 1..0 : FALSE OBVIOUS
    <3> HIDE DEF w
    <3>4. Len(w') = 0 BY <3>1
    <3>5. blocks'[bb'] = s BY <1>1, <1>4
    <3>6. Between(s, 0)' BY <1>1, <2>2, <3>1, <3>2, <3>3, <3>4, <3>5 DEF Between, w
    <3>7. 0 \in 0..Len(s) BY <2>1
    <3> QED BY <1>1, <3>6, <3>7 DEF Here
  <2>4. ~(b < bb') BY <1>1, <2>1
  <2> QED BY <1>1, <1>4, <2>2, <2>3, <2>4 DEF BlockInv
<1> QED BY <1>1, <1>4 DEF WovenInv

(***************************************************************************)
(* The second theorem.                                                     *)
(***************************************************************************)
LEMMA WovenNextInv == IInv /\ WovenInv /\ [Next]_vars => WovenInv'
<1>. SUFFICES ASSUME IInv, WovenInv, [Next]_vars PROVE WovenInv'
  OBVIOUS
<1>1. ASSUME NEW f \in Sources, ahaggar_xinstrument_main(f) PROVE WovenInv'
  BY <1>1, StartWoven
<1>2. ASSUME PassReturns PROVE WovenInv'
  <2>1. fn' = Idle BY <1>2 DEF PassReturns
  <2> QED BY <2>1 DEF WovenInv, Running
<1>3. ASSUME Pass PROVE WovenInv'
  BY <1>2, <1>3, SkipWoven, InstrumentWoven, InsertWoven, FailWoven, EndWoven, NextBlockWoven
  DEF Pass
<1>4. ASSUME UNCHANGED vars PROVE WovenInv'
  <2>1. /\ fn' = fn /\ blocks' = blocks /\ bb' = bb /\ gsi' = gsi /\ ib' = ib
        /\ failed' = failed
    BY <1>4 DEF vars
  <2>2. ASSUME NEW b, NEW s, BlockInv(b, s) PROVE BlockInv(b, s)'
    <3>1. Woven(s)' = Woven(s) BY <2>1, SameChecks DEF Woven
    <3>2. Behind(s, 0)' = Behind(s, 0) BY <2>1, SameChecks
    <3>3. Here(s)' = Here(s) BY <2>1, SameChecks DEF Here, Between, At
    <3> QED BY <2>1, <2>2, <3>1, <3>2, <3>3 DEF BlockInv
  <2> QED BY <2>1, <2>2 DEF WovenInv, Running
<1>. QED
  BY <1>1, <1>3, <1>4 DEF Next

LEMMA WovenImplies == IInv /\ WovenInv => ResultIsWoven
<1> SUFFICES ASSUME IInv, WovenInv, Running, bb > Len(blocks), NEW b \in DOMAIN blocks
             PROVE  [i \in DOMAIN blocks[b] |-> Call(blocks[b][i])] = Woven(fn.blocks[b])
  BY DEF ResultIsWoven
<1>1. blocks \in Seq(Seq(Statement)) /\ bb \in Nat BY DEF IInv, TypeOK
<1>2. b < bb BY <1>1
<1>3. BlockInv(b, fn.blocks[b]) BY DEF WovenInv
<1> QED BY <1>2, <1>3 DEF BlockInv, CallSeq

(* For every table and every function, whichever checks cannot be built,   *)
(* what the pass leaves is the source with the other checks woven in: it   *)
(* loses, repeats, moves and skips no statement of the blocks it inserts   *)
(* into.                                                                   *)
THEOREM ResultWoven == Spec => []ResultIsWoven
<1>1. Init => WovenInv BY DEF Init, WovenInv, Running
<1>. QED
  BY <1>1, InitInv, NextInv, WovenNextInv, WovenImplies, PTL DEF Spec
=============================================================================
