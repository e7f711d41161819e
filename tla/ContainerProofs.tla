--------------------------- MODULE ContainerProofs ---------------------------
(***************************************************************************)
(* The two containers the plugins keep their data in, the text buffers of  *)
(* buffer.c and the node caches of cache-nodes.c, are correct whatever     *)
(* they hold.                                                              *)
(***************************************************************************)
EXTENDS OutputBuffer, NodeCache, FiniteSetTheorems, SequenceTheorems, TLAPS

(***************************************************************************)
(* Text buffers.  TypeOK and WellFormed hold of buffer.c for every set of  *)
(* handles and characters, every format and every BUF_SIZE.  The two       *)
(* together are inductive: an operation stays inside the allocation only   *)
(* because the buffer it starts from is well formed.                       *)
(***************************************************************************)

(* One struct that satisfies both invariants. *)
Good(s) ==
  /\ Struct(s)
  /\ s.size >= BUF_SIZE
  /\ s.used < s.size
  /\ s.offset = s.used
  /\ s.mem[s.used] = Nul
  /\ \A i \in 0..(s.used - 1) : s.mem[i] \in Char

(* Poke keeps the domain of the memory and stores cells as cells. *)
LEMMA PokeCells ==
  ASSUME NEW n \in Nat, NEW mem \in [0..(n - 1) -> Cells],
         NEW at \in Nat, NEW t \in Seq(Cells)
  PROVE  Poke(mem, at, t) \in [0..(n - 1) -> Cells]
<1>1. \A i \in 0..(n - 1) : i >= at /\ i < at + Len(t) => i - at + 1 \in 1..Len(t)
  OBVIOUS
<1>2. \A i \in 0..(n - 1) : i >= at /\ i < at + Len(t) => t[i - at + 1] \in Cells
  BY <1>1
<1> QED BY <1>2 DEF Poke

(* Terminating a struct at a position inside it, below which there are     *)
(* only characters, makes it good.                                         *)
LEMMA TerminateGood ==
  ASSUME NEW s, Struct(s), s.size >= BUF_SIZE,
         NEW n \in Nat, n < s.size,
         \A i \in 0..(n - 1) : s.mem[i] \in Char
  PROVE  Good(Terminate(s, n)) /\ Terminate(s, n).used = n
<1> DEFINE r == Terminate(s, n)
<1>1. <<Nul>> \in Seq(Cells) BY DEF Cells
<1>2. Poke(s.mem, n, <<Nul>>) \in [0..(s.size - 1) -> Cells]
  BY <1>1, PokeCells DEF Struct
<1>3. r = [size |-> s.size, used |-> n, offset |-> n, mem |-> Poke(s.mem, n, <<Nul>>)]
  BY DEF Terminate, Struct
<1> HIDE DEF r
<1>4. Struct(r)
  <2>1. r.size = s.size /\ r.used = n /\ r.offset = n /\ r.mem = Poke(s.mem, n, <<Nul>>)
    BY <1>3
  <2>2. r = [size |-> r.size, used |-> r.used, offset |-> r.offset, mem |-> r.mem]
    BY <1>3, <2>1
  <2> QED BY <1>2, <2>1, <2>2 DEF Struct
<1>5. r.mem[n] = Nul BY <1>3 DEF Poke, Struct
<1>6. \A i \in 0..(n - 1) : r.mem[i] = s.mem[i] BY <1>3 DEF Poke, Struct
<1>7. Good(r) /\ r.used = n
  BY <1>3, <1>4, <1>5, <1>6 DEF Good
<1> QED BY <1>7 DEF r

(* A fresh buffer is good and empty. *)
LEMMA FreshGood ==
  ASSUME NEW len \in Nat
  PROVE  Good(Fresh(len)) /\ Fresh(len).used = 0
BY SizeAssumption DEF Fresh, Good, Struct, Cells

(* Flushing a good buffer leaves a good, empty one of the same size. *)
LEMMA FlushGood ==
  ASSUME NEW s, Good(s)
  PROVE  Good(Flushed(s))
<1>1. Flushed(s) = [size |-> s.size, used |-> 0, offset |-> 0,
                    mem |-> [i \in 0..(s.size - 1) |-> Nul]]
  BY DEF Flushed, Good, Struct
<1> QED BY <1>1, SizeAssumption DEF Good, Struct, Cells

(* Expanding a good buffer keeps its text and makes room for `need' bytes: *)
(* the terminating Nul is part of the need.                                *)
LEMMA ExpandGood ==
  ASSUME NEW s, Good(s), NEW need \in Nat
  PROVE  LET e == Expand(s, need) IN
         /\ Good(e)
         /\ e.used = s.used
         /\ need <= e.size - e.used
         /\ \A i \in 0..(s.used - 1) : e.mem[i] = s.mem[i]
<1> DEFINE e == Expand(s, need)
<1>1. CASE need < s.size - s.used
  BY <1>1 DEF Expand, Good, Struct
<1>2. CASE ~(need < s.size - s.used)
  <2> DEFINE size == NewSize(s, need)
             grown == Realloc(s.mem, size)
  <2>1. size \in Nat /\ size >= 2 * s.size /\ size >= need + s.used
    BY DEF NewSize, Good, Struct
  <2>2. size > s.used /\ size >= BUF_SIZE
    BY <2>1, SizeAssumption DEF Good, Struct
  <2>3. grown \in [0..(size - 1) -> Cells]
    BY DEF Realloc, Good, Struct, Cells
  <2>4. \A i \in 0..(s.used - 1) : grown[i] = s.mem[i]
    BY <2>1, <2>2 DEF Realloc, Good, Struct
  <2>5. <<Nul>> \in Seq(Cells) BY DEF Cells
  <2>6. Poke(grown, s.used, <<Nul>>) \in [0..(size - 1) -> Cells]
    BY <2>1, <2>3, <2>5, PokeCells DEF Good, Struct
  <2>7. e = [size |-> size, used |-> s.used, offset |-> s.used,
             mem |-> Poke(grown, s.used, <<Nul>>)]
    BY <1>2 DEF Expand
  <2>8. e.mem[s.used] = Nul
    BY <2>2, <2>3, <2>7, <2>1 DEF Poke, Good, Struct
  <2>9. \A i \in 0..(s.used - 1) : e.mem[i] = s.mem[i]
    BY <2>2, <2>3, <2>4, <2>7, <2>1 DEF Poke, Good, Struct
  <2> HIDE DEF e, size, grown
  <2>10. /\ e.size = size /\ e.used = s.used /\ e.offset = s.used
         /\ e.mem = Poke(grown, s.used, <<Nul>>)
    BY <2>7
  <2>11. e = [size |-> e.size, used |-> e.used, offset |-> e.offset, mem |-> e.mem]
    BY <2>7, <2>10
  <2>12. s.used \in Nat BY DEF Good, Struct
  <2>13. Struct(e) BY <2>1, <2>6, <2>10, <2>11, <2>12 DEF Struct
  <2>14. Good(e)
    BY <2>2, <2>8, <2>9, <2>10, <2>13 DEF Good
  <2> QED BY <2>1, <2>9, <2>10, <2>12, <2>14 DEF e
<1> QED BY <1>1, <1>2

(* Writing at most what there is room for, then terminating, keeps a good  *)
(* buffer good.                                                            *)
LEMMA StoredGood ==
  ASSUME NEW s, Good(s), NEW t \in Seq(Char), NEW tail \in Seq(Cells),
         s.used + Len(t) < s.size
  PROVE  Good(Terminate(Stored(s, s.offset, t \o tail), s.used + Len(t)))
<1> DEFINE w == Stored(s, s.offset, t \o tail)
<1>1. t \o tail \in Seq(Cells) BY DEF Cells
<1>2. s.offset \in Nat /\ s.size \in Nat /\ s.used \in Nat /\ s.offset = s.used
  BY DEF Good, Struct
<1>3. w.mem \in [0..(s.size - 1) -> Cells]
  BY <1>1, <1>2, PokeCells DEF Stored, Good, Struct
<1>4. \A i \in 0..(s.used + Len(t) - 1) : w.mem[i] \in Char
  <2> TAKE i \in 0..(s.used + Len(t) - 1)
  <2>1. CASE i < s.used
    BY <1>2, <2>1 DEF Stored, Poke, Good, Struct
  <2>2. CASE i >= s.used
    <3>1. i - s.used + 1 \in 1..Len(t) BY <1>2, <2>2
    <3>2. (t \o tail)[i - s.used + 1] = t[i - s.used + 1] BY <3>1
    <3>3. Len(t \o tail) = Len(t) + Len(tail) OBVIOUS
    <3>4. i \in DOMAIN s.mem BY <1>2 DEF Good, Struct
    <3>5. w.mem[i] = (t \o tail)[i - s.used + 1]
      BY <1>2, <2>2, <3>3, <3>4 DEF Stored, Poke
    <3> QED BY <3>1, <3>2, <3>5
  <2> QED BY <1>2, <2>1, <2>2
<1>5. w.size = s.size /\ w.used = s.used /\ w.offset = s.offset
      /\ w = [size |-> w.size, used |-> w.used, offset |-> w.offset, mem |-> w.mem]
  BY DEF Stored
<1>6. Struct(w) BY <1>2, <1>3, <1>5 DEF Struct
<1>7. s.size >= BUF_SIZE BY DEF Good
<1> HIDE DEF w
<1>8. Good(Terminate(w, s.used + Len(t)))
  BY <1>2, <1>4, <1>5, <1>6, <1>7, TerminateGood
<1> QED BY <1>8 DEF w

(* A printf keeps a good buffer good, whatever text it prints; a character *)
(* is a text of one.                                                       *)
LEMMA PrintfGood ==
  ASSUME NEW s, Good(s), NEW t \in Seq(Char)
  PROVE  Good(Printf(s, t))
<1> DEFINE e == Expand(s, Len(t) + 1)
<1>1. Good(e) /\ Len(t) + 1 <= e.size - e.used
  BY ExpandGood
<1>2. e.size \in Nat /\ e.used \in Nat BY <1>1 DEF Good, Struct
<1> HIDE DEF e
<1>3. Len(t) < e.size - e.used /\ e.used + Len(t) < e.size
  <2>1. Len(t) \in Nat OBVIOUS
  <2> QED BY <1>1, <1>2, <2>1
<1>4. <<Nul>> \in Seq(Cells) BY DEF Cells
<1>5. Good(Terminate(Stored(e, e.offset, t \o <<Nul>>), e.used + Len(t)))
  BY <1>1, <1>2, <1>3, <1>4, StoredGood
<1>6. Snprintf(e, t) = Terminate(Stored(e, e.offset, t \o <<Nul>>), e.used + Len(t))
  BY <1>3 DEF Snprintf
<1> QED BY <1>5, <1>6 DEF Printf, e

(* Printing one character keeps a good struct good.                         *)
LEMMA PutCharGood ==
  ASSUME NEW s, Good(s), NEW c \in Char
  PROVE  Good(PutChar(s, c))
<1>1. <<c>> \in Seq(Char) /\ Len(<<c>>) + 1 = 2 OBVIOUS
<1>2. PutChar(s, c) = Printf(s, <<c>>) BY <1>1 DEF PutChar, Printf
<1> QED BY <1>1, <1>2, PrintfGood

(* The first bytes of a good buffer are characters. *)
LEMMA FrontText ==
  ASSUME NEW s, Good(s), NEW n \in Nat, n <= s.used
  PROVE  Front(s, n) \in Seq(Char) /\ Len(Front(s, n)) = n
<1>1. s.used \in Nat BY DEF Good, Struct
<1>2. \A i \in 1..n : i - 1 \in 0..(s.used - 1) BY <1>1
<1>3. \A i \in 1..n : s.mem[i - 1] \in Char BY <1>2 DEF Good
<1>4. Front(s, n) \in [1..n -> Char] BY <1>3 DEF Front
<1> QED BY <1>4 DEF Front

(* So does appending one good struct to another.                            *)
LEMMA ConcatGood ==
  ASSUME NEW d, Good(d), NEW s, Good(s)
  PROVE  Good(Concat(d, s))
<1> DEFINE e == Expand(d, s.used + 1)
           t == Front(s, s.used)
<1>1. s.used \in Nat /\ s.used + 1 \in Nat BY DEF Good, Struct
<1>2. Good(e) /\ s.used + 1 <= e.size - e.used
  BY ONLY <1>1, Good(d), ExpandGood
<1>3. e.size \in Nat /\ e.used \in Nat BY <1>2 DEF Good, Struct
<1>4. t \in Seq(Char) /\ Len(t) = s.used BY <1>1, FrontText
<1>5. <<>> \in Seq(Cells) /\ t \o <<>> = t BY <1>4
<1> HIDE DEF e, t
<1>6. e.used + Len(t) < e.size BY <1>1, <1>2, <1>3, <1>4
<1>7. Good(Terminate(Stored(e, e.offset, t \o <<>>), e.used + Len(t)))
  BY <1>2, <1>4, <1>5, <1>6, StoredGood
<1> QED BY <1>4, <1>5, <1>7 DEF Concat, e, t

(* A copy that fits keeps its destination good. *)
LEMMA CopyGood ==
  ASSUME NEW d, Good(d), NEW s, Good(s), NEW n \in 1..s.used, n + 1 <= d.size
  PROVE  Good(CopyFront(d, s, n))
<1> DEFINE t == Front(s, n)
           w == Stored(d, 0, t)
<1>1. s.used \in Nat /\ d.size \in Nat /\ d.used \in Nat /\ d.offset \in Nat
  BY DEF Good, Struct
<1>2. n \in Nat /\ n <= s.used BY <1>1
<1>3. t \in Seq(Char) /\ Len(t) = n BY <1>2, FrontText
<1>4. t \in Seq(Cells) BY <1>3 DEF Cells
<1>5. w.mem \in [0..(d.size - 1) -> Cells]
  BY <1>1, <1>4, PokeCells DEF Stored, Good, Struct
<1>6. \A i \in 0..(n - 1) : w.mem[i] \in Char
  <2> TAKE i \in 0..(n - 1)
  <2>1. i + 1 \in 1..Len(t) BY <1>2, <1>3
  <2>2. t[i + 1] \in Char BY <1>3, <2>1
  <2>3. i \in DOMAIN d.mem /\ i \in Nat BY <1>1, <1>2 DEF Good, Struct
  <2>4. w.mem[i] = t[i + 1] BY <1>2, <1>3, <2>3 DEF Stored, Poke
  <2> QED BY <2>2, <2>4
<1>7. w.size = d.size /\ w.used = d.used /\ w.offset = d.offset
      /\ w = [size |-> w.size, used |-> w.used, offset |-> w.offset, mem |-> w.mem]
  BY DEF Stored
<1>8. Struct(w) /\ w.size >= BUF_SIZE BY <1>1, <1>5, <1>7 DEF Struct, Good
<1> HIDE DEF w, t
<1>9. n < w.size BY <1>1, <1>2, <1>7
<1>10. Good(Terminate(w, n)) BY <1>2, <1>6, <1>8, <1>9, TerminateGood
<1> QED BY <1>10 DEF CopyFront, w, t

(***************************************************************************)
(* The inductive invariant: every handle is closed, dangling or good.      *)
(***************************************************************************)
IInv ==
  /\ obj = [h \in Handles |-> obj[h]]
  /\ \A h \in Handles : obj[h] \in {Closed, Dangling} \/ Good(obj[h])
  /\ indent \in [Handles -> Nat]
  /\ \A h \in Handles : indent[h] > 0 => Good(obj[h])

(* The invariant survives any change of one handle to a good, closed or    *)
(* dangling one while no indentation is under way.                         *)
LEMMA ChangeOne ==
  ASSUME IInv, Idle, NEW h \in Handles, NEW new,
         new \in {Closed, Dangling} \/ Good(new),
         obj' = [obj EXCEPT ![h] = new],
         indent' \in [Handles -> Nat],
         \A k \in Handles : indent'[k] > 0 => k = h /\ Good(new)
  PROVE  IInv'
<1>1. obj' = [k \in Handles |-> IF k = h THEN new ELSE obj[k]]
  BY DEF IInv
<1>2. \A k \in Handles : obj'[k] = IF k = h THEN new ELSE obj[k] BY <1>1
<1>3. obj' = [k \in Handles |-> obj'[k]] BY <1>1, <1>2
<1> QED BY <1>2, <1>3 DEF IInv

(* Replacing what one handle points to while no indentation is under way.   *)
LEMMA ChangeQuiet ==
  ASSUME IInv, Idle, NEW h \in Handles, NEW new,
         new \in {Closed, Dangling} \/ Good(new),
         obj' = [obj EXCEPT ![h] = new],
         UNCHANGED indent
  PROVE  IInv'
<1>1. indent' \in [Handles -> Nat] BY DEF IInv
<1>2. \A k \in Handles : indent'[k] > 0 => k = h /\ Good(new)
  BY DEF Idle
<1> QED BY <1>1, <1>2, ChangeOne

(* TypeOK and WellFormed are what the inductive invariant says             *)
(* of the handles that point to a buffer.                                  *)
LEMMA IInvImplies == IInv => TypeOK /\ WellFormed
BY DEF IInv, Good, Live, TypeOK, WellFormed

(* The handles start closed.                                                *)
LEMMA InitIInv == Init => IInv
BY DEF Init, IInv

(* Every call keeps the invariant.                                          *)
LEMMA NextIInv == IInv /\ [Next]_vars => IInv'
<1> SUFFICES ASSUME IInv, [Next]_vars PROVE IInv'
  OBVIOUS
<1>0. /\ indent \in [Handles -> Nat]
      /\ \A h \in Live : Good(obj[h])
      /\ BUF_SIZE \in Nat
  BY SizeAssumption DEF IInv, Live
<1>1. ASSUME NEW h \in Handles, output_init(h) PROVE IInv'
  <2>1. Idle /\ obj' = [obj EXCEPT ![h] = Fresh(BUF_SIZE)] /\ UNCHANGED indent
    BY <1>1 DEF output_init
  <2>2. Good(Fresh(BUF_SIZE)) BY <1>0, FreshGood
  <2> QED BY <2>1, <2>2, ChangeQuiet
<1>2. ASSUME NEW h \in Handles, output_fini(h) PROVE IInv'
  <2>1. Idle /\ obj' = [obj EXCEPT ![h] = Closed] /\ UNCHANGED indent
    BY <1>2 DEF output_fini
  <2>2. Closed \in {Closed, Dangling} OBVIOUS
  <2> QED BY <2>1, <2>2, ChangeQuiet
<1>3. ASSUME NEW h \in Handles, output_reset(h) PROVE IInv'
  <2>1. Idle /\ obj' = [obj EXCEPT ![h] = Fresh(BUF_SIZE)] /\ UNCHANGED indent
    BY <1>3 DEF output_reset
  <2>2. Good(Fresh(BUF_SIZE)) BY <1>0, FreshGood
  <2> QED BY <2>1, <2>2, ChangeQuiet
<1>4. ASSUME NEW h \in Handles, output_flush(h) PROVE IInv'
  <2>1. Idle /\ obj' = [obj EXCEPT ![h] = Flushed(obj[h])] /\ UNCHANGED indent
    BY <1>4 DEF output_flush
  <2>2. Good(Flushed(obj[h])) BY <1>0, <1>4, FlushGood DEF output_flush
  <2> QED BY <2>1, <2>2, ChangeQuiet
<1>5. ASSUME NEW h \in Handles, output_local_prepare(h) PROVE IInv'
  <2>1. obj[h] = Closed \/ Good(obj[h]) BY <1>5 DEF IInv, output_local_prepare
  <2>2. Good(IF obj[h] = Closed THEN Fresh(BUF_SIZE) ELSE Flushed(obj[h]))
    BY <1>0, <2>1, FreshGood, FlushGood
  <2>3. /\ Idle /\ UNCHANGED indent
        /\ obj' = [obj EXCEPT ![h] = IF obj[h] = Closed THEN Fresh(BUF_SIZE)
                                                     ELSE Flushed(obj[h])]
    BY <1>5 DEF output_local_prepare
  <2> QED BY <2>2, <2>3, ChangeQuiet
<1>6. ASSUME NEW h \in Handles, output_base_char(h) PROVE IInv'
  <2>1. PICK c \in Single : obj' = [obj EXCEPT ![h] = PutChar(obj[h], c)]
    BY <1>6 DEF output_base_char
  <2>2. Good(PutChar(obj[h], c))
    BY <1>0, <1>6, CharAssumption, PutCharGood DEF output_base_char
  <2>3. Idle /\ UNCHANGED indent BY <1>6 DEF output_base_char
  <2> QED BY <2>1, <2>2, <2>3, ChangeQuiet
<1>7. ASSUME NEW h \in Handles, output_base_printf(h) PROVE IInv'
  <2>1. PICK t \in Formats : obj' = [obj EXCEPT ![h] = Printf(obj[h], t)]
    BY <1>7 DEF output_base_printf
  <2>2. Good(Printf(obj[h], t))
    BY <1>0, <1>7, CharAssumption, PrintfGood DEF output_base_printf
  <2>3. Idle /\ UNCHANGED indent BY <1>7 DEF output_base_printf
  <2> QED BY <2>1, <2>2, <2>3, ChangeQuiet
<1>8. ASSUME NEW h \in Handles, output_base_indent_to(h) PROVE IInv'
  BY <1>0, <1>8, SizeAssumption DEF output_base_indent_to, IInv, Idle
<1>9. ASSUME NEW h \in Handles, output_indent_to_newline(h) PROVE IInv'
  <2>1. PICK n \in 1..IndentBound :
          /\ indent' = [indent EXCEPT ![h] = n]
          /\ obj' = [obj EXCEPT ![h] = PutChar(obj[h], NewLine)]
    BY <1>9 DEF output_indent_to_newline
  <2>2. Good(PutChar(obj[h], NewLine))
    BY <1>0, <1>9, CharAssumption, PutCharGood DEF output_indent_to_newline
  <2>3. n \in Nat BY SizeAssumption
  <2>4. indent' \in [Handles -> Nat]
    BY <1>0, <2>1, <2>3
  <2>5. \A k \in Handles : indent'[k] > 0 => k = h
    BY <1>0, <1>9, <2>1 DEF output_indent_to_newline, Idle
  <2>6. Idle BY <1>9 DEF output_indent_to_newline
  <2> QED BY <2>1, <2>2, <2>4, <2>5, <2>6, ChangeOne
<1>10. ASSUME NEW h \in Handles, IndentStep(h) PROVE IInv'
  <2>1. Good(obj[h]) BY <1>10 DEF IndentStep, IInv
  <2>2. Good(PutChar(obj[h], Space)) BY <2>1, CharAssumption, PutCharGood
  <2>3. obj' = [k \in Handles |-> IF k = h THEN PutChar(obj[h], Space) ELSE obj[k]]
    BY <1>10 DEF IndentStep, IInv
  <2>4. obj' = [k \in Handles |-> obj'[k]] BY <2>3
  <2>5. indent' \in [Handles -> Nat] /\ \A k \in Handles : indent'[k] <= indent[k]
    BY <1>0, <1>10 DEF IndentStep
  <2>6. \A k \in Handles : indent'[k] > 0 => indent[k] > 0
    BY <1>0, <2>5
  <2> QED BY <2>2, <2>3, <2>4, <2>5, <2>6 DEF IInv
<1>11. ASSUME NEW a \in Handles, NEW b \in Handles, output_base_swap_meta(a, b)
       PROVE  IInv'
  <2>1. obj' = [k \in Handles |-> IF k = b THEN obj[a] ELSE
                                  IF k = a THEN obj[b] ELSE obj[k]]
    BY <1>11 DEF output_base_swap_meta, IInv
  <2>2. obj' = [k \in Handles |-> obj'[k]] BY <2>1
  <2>3. indent' = indent /\ \A k \in Handles : indent[k] = 0
    BY <1>11 DEF output_base_swap_meta, Idle
  <2>4. \A k \in Handles : obj'[k] \in {Closed, Dangling} \/ Good(obj'[k])
    BY <2>1 DEF IInv
  <2> QED BY <1>0, <2>2, <2>3, <2>4 DEF IInv
<1>12. ASSUME NEW a \in Handles, NEW b \in Handles, output_base_concat(a, b)
       PROVE  IInv'
  <2>1. Good(Concat(obj[a], obj[b]))
    BY <1>0, <1>12, ConcatGood DEF output_base_concat
  <2>2. Idle /\ UNCHANGED indent /\ obj' = [obj EXCEPT ![a] = Concat(obj[a], obj[b])]
    BY <1>12 DEF output_base_concat
  <2> QED BY <2>1, <2>2, ChangeQuiet
<1>13. ASSUME NEW a \in Handles, NEW b \in Handles, output_base_copy(a, b)
       PROVE  IInv'
  <2>1. Good(obj[a]) /\ Good(obj[b]) BY <1>0, <1>13 DEF output_base_copy
  <2>2. PICK n \in 1..obj[b].used :
          obj' = [obj EXCEPT ![a] =
                    IF n + 1 > obj[a].size THEN Dangling ELSE CopyFront(obj[a], obj[b], n)]
    BY <1>13 DEF output_base_copy
  <2>. DEFINE new == IF n + 1 > obj[a].size THEN Dangling
                                            ELSE CopyFront(obj[a], obj[b], n)
  <2>3. n + 1 > obj[a].size => new = Dangling
    OBVIOUS
  <2>4. ASSUME ~(n + 1 > obj[a].size) PROVE Good(new)
    <3>1. n + 1 <= obj[a].size BY <2>1, <2>4 DEF Good, Struct
    <3>2. Good(CopyFront(obj[a], obj[b], n)) BY <2>1, <3>1, CopyGood
    <3> QED BY <2>4, <3>2
  <2>5. new \in {Closed, Dangling} \/ Good(new) BY <2>3, <2>4
  <2>6. Idle /\ UNCHANGED indent BY <1>13 DEF output_base_copy
  <2>7. obj' = [obj EXCEPT ![a] = new] BY <2>2
  <2> HIDE DEF new
  <2> QED BY <2>5, <2>6, <2>7, ChangeQuiet
<1>14. CASE UNCHANGED vars
  BY <1>14 DEF vars, IInv
<1> QED
  BY <1>1, <1>2, <1>3, <1>4, <1>5, <1>6, <1>7, <1>8, <1>9, <1>10, <1>11, <1>12,
     <1>13, <1>14 DEF Next

(* Whatever sequence of calls a plugin makes, buffer.c never writes past   *)
(* an allocation, and the text below `used' is terminated and has neither  *)
(* a hole nor an uninitialised byte.                                       *)
THEOREM BufferSafe == Spec => [](TypeOK /\ WellFormed)
<1>1. Init => IInv BY InitIInv
<1>2. IInv /\ [Next]_vars => IInv' BY NextIInv
<1>3. IInv => TypeOK /\ WellFormed BY IInvImplies
<1> QED BY <1>1, <1>2, <1>3, PTL DEF Spec

(***************************************************************************)
(* buffer.c implements OutputText for every set of handles and characters, *)
(* every format and every BUF_SIZE: what a caller reads with %s is the     *)
(* pieces it appended, in order and whole, however often the memory behind *)
(* them was exchanged for a larger one.                                    *)
(***************************************************************************)
(* The text a good struct holds. *)
Held(s) == Front(s, s.used)

(* The texts of all handles: the refinement mapping. *)
Shown == [h \in Handles |-> TextOf(obj[h])]

(* Terminating at n leaves the n bytes before it alone.                    *)
LEMMA TerminateText ==
  ASSUME NEW s, Struct(s), NEW n \in Nat, n < s.size
  PROVE  Held(Terminate(s, n)) = Front(s, n)
<1> DEFINE r == Terminate(s, n)
<1>1. r.used = n /\ r.mem = Poke(s.mem, n, <<Nul>>) BY DEF Terminate
<1>2. \A i \in 1..n : r.mem[i - 1] = s.mem[i - 1]
  BY <1>1 DEF Poke, Struct
<1> HIDE DEF r
<1>3. Front(r, n) = Front(s, n) BY <1>2 DEF Front
<1> QED BY <1>1, <1>3 DEF Held, r

(* Storing t behind the text appends it: the bytes after it are not part   *)
(* of the text.                                                            *)
LEMMA StoredText ==
  ASSUME NEW s, Good(s), NEW t \in Seq(Char), NEW tail \in Seq(Cells),
         s.used + Len(t) < s.size
  PROVE  Held(Terminate(Stored(s, s.offset, t \o tail), s.used + Len(t))) = Held(s) \o t
<1> DEFINE w == Stored(s, s.offset, t \o tail)
           n == s.used + Len(t)
<1>1. t \o tail \in Seq(Cells) BY DEF Cells
<1>2. s.offset \in Nat /\ s.size \in Nat /\ s.used \in Nat /\ s.offset = s.used
  BY DEF Good, Struct
<1>3. w.mem \in [0..(s.size - 1) -> Cells]
  BY <1>1, <1>2, PokeCells DEF Stored, Good, Struct
<1>4. w.size = s.size /\ w.used = s.used /\ w.offset = s.offset
      /\ w = [size |-> w.size, used |-> w.used, offset |-> w.offset, mem |-> w.mem]
  BY DEF Stored
<1>5. Struct(w) BY <1>2, <1>3, <1>4 DEF Struct
<1>6. n \in Nat /\ n < w.size BY <1>2, <1>4
<1>7. \A i \in 1..s.used : w.mem[i - 1] = s.mem[i - 1]
  BY <1>2 DEF Stored, Poke, Good, Struct
<1>8. ASSUME NEW i \in (s.used + 1)..n PROVE w.mem[i - 1] = t[i - s.used]
  <2>1. i - s.used \in 1..Len(t) BY <1>2
  <2>2. (t \o tail)[i - s.used] = t[i - s.used] BY <2>1
  <2>3. Len(t \o tail) = Len(t) + Len(tail) OBVIOUS
  <2>4. i - 1 \in DOMAIN s.mem BY <1>2 DEF Good, Struct
  <2>5. /\ i - 1 >= s.offset /\ i - 1 < s.offset + Len(t \o tail)
        /\ i - 1 - s.offset + 1 = i - s.used
    BY <1>2, <2>1, <2>3
  <2>6. w.mem[i - 1] = (t \o tail)[i - s.used] BY <2>4, <2>5 DEF Stored, Poke
  <2> QED BY <2>2, <2>6
<1>9. Held(s) \in Seq(Char) /\ Len(Held(s)) = s.used
  BY <1>2, FrontText DEF Held
<1>10. \A i \in 1..s.used : Held(s)[i] = s.mem[i - 1] BY DEF Held, Front
<1> HIDE DEF w
<1>11. Front(w, n) = Held(s) \o t
  <2> DEFINE f == Front(w, n)
             h == Held(s)
  <2>1. \A i \in 1..n : w.mem[i - 1] = IF i <= s.used THEN h[i] ELSE t[i - s.used]
    BY <1>2, <1>7, <1>8, <1>10
  <2>2. \A i \in 1..n : f[i] = IF i <= s.used THEN h[i] ELSE t[i - s.used]
    BY <2>1 DEF Front
  <2>3. ASSUME NEW i \in 1..n PROVE f[i] \in Char
    <3>1. CASE i <= s.used
      <4>1. i \in 1..Len(h) BY <1>2, <1>9, <3>1
      <4>2. h[i] \in Char BY <1>9, <4>1
      <4> QED BY <2>2, <3>1, <4>2
    <3>2. CASE ~(i <= s.used)
      <4>1. i - s.used \in 1..Len(t) BY <1>2, <3>2
      <4>2. t[i - s.used] \in Char BY <4>1
      <4> QED BY <2>2, <3>2, <4>2
    <3> QED BY <3>1, <3>2
  <2>4. f \in [1..n -> Char] BY <2>3 DEF Front
  <2>5. f \in Seq(Char) /\ Len(f) = n BY <1>6, <2>4
  <2> HIDE DEF f, h
  <2>6. h \in Seq(Char) /\ Len(h) = s.used BY <1>9 DEF h
  <2>7. /\ h \o t \in Seq(Char) /\ Len(h \o t) = n
        /\ \A i \in 1..n : (h \o t)[i] = IF i <= s.used THEN h[i] ELSE t[i - s.used]
    BY <2>6, ConcatProperties
  <2>8. f = h \o t BY <2>2, <2>5, <2>6, <2>7, SeqEqual, ZenonT(30)
  <2> QED BY <2>8 DEF f, h
<1>12. Held(Terminate(w, n)) = Front(w, n) BY <1>5, <1>6, TerminateText
<1> QED BY <1>11, <1>12 DEF w

(* Expanding does not change the text.                                     *)
LEMMA ExpandText ==
  ASSUME NEW s, Good(s), NEW need \in Nat
  PROVE  Held(Expand(s, need)) = Held(s)
<1> DEFINE e == Expand(s, need)
<1>1. e.used = s.used /\ \A i \in 0..(s.used - 1) : e.mem[i] = s.mem[i]
  BY ExpandGood
<1> HIDE DEF e
<1>2. s.used \in Nat BY DEF Good, Struct
<1>3. \A i \in 1..s.used : e.mem[i - 1] = s.mem[i - 1] BY <1>1, <1>2
<1> QED BY <1>1, <1>3 DEF Held, Front, e

(* A printf appends its expansion, cut nowhere.                            *)
LEMMA PrintfText ==
  ASSUME NEW s, Good(s), NEW t \in Seq(Char)
  PROVE  Held(Printf(s, t)) = Held(s) \o t
<1> DEFINE e == Expand(s, Len(t) + 1)
<1>1. Good(e) /\ Len(t) + 1 <= e.size - e.used /\ Held(e) = Held(s)
  BY ExpandGood, ExpandText
<1>2. e.size \in Nat /\ e.used \in Nat /\ Len(t) \in Nat BY <1>1 DEF Good, Struct
<1> HIDE DEF e
<1>3. Len(t) < e.size - e.used /\ e.used + Len(t) < e.size BY <1>1, <1>2
<1>4. <<Nul>> \in Seq(Cells) BY DEF Cells
<1>5. Snprintf(e, t) = Terminate(Stored(e, e.offset, t \o <<Nul>>), e.used + Len(t))
  BY <1>3 DEF Snprintf
<1>6. Held(Snprintf(e, t)) = Held(e) \o t
  BY <1>1, <1>3, <1>4, <1>5, StoredText
<1> QED BY <1>1, <1>6 DEF Printf, e

(* So does printing one character.                                         *)
LEMMA PutCharText ==
  ASSUME NEW s, Good(s), NEW c \in Char
  PROVE  Held(PutChar(s, c)) = Held(s) \o <<c>>
<1>1. <<c>> \in Seq(Char) /\ Len(<<c>>) + 1 = 2 OBVIOUS
<1>2. PutChar(s, c) = Printf(s, <<c>>) BY <1>1 DEF PutChar, Printf
<1> QED BY <1>1, <1>2, PrintfText

(* Concat appends the text of its source.                                  *)
LEMMA ConcatText ==
  ASSUME NEW d, Good(d), NEW s, Good(s)
  PROVE  Held(Concat(d, s)) = Held(d) \o Held(s)
<1> DEFINE e == Expand(d, s.used + 1)
           t == Front(s, s.used)
<1>1. s.used \in Nat /\ s.used + 1 \in Nat BY DEF Good, Struct
<1>2. Good(e) /\ s.used + 1 <= e.size - e.used
  BY ONLY <1>1, Good(d), ExpandGood
<1>3. Held(e) = Held(d) BY ONLY <1>1, Good(d), ExpandText
<1>4. e.size \in Nat /\ e.used \in Nat BY <1>2 DEF Good, Struct
<1>5. t \in Seq(Char) /\ Len(t) = s.used BY <1>1, FrontText
<1>6. <<>> \in Seq(Cells) /\ t \o <<>> = t BY <1>5
<1> HIDE DEF e, t
<1>7. e.used + Len(t) < e.size BY <1>1, <1>2, <1>4, <1>5
<1>8. Held(Terminate(Stored(e, e.offset, t \o <<>>), e.used + Len(t))) = Held(e) \o t
  BY <1>2, <1>5, <1>6, <1>7, StoredText
<1> QED BY <1>3, <1>5, <1>6, <1>8 DEF Concat, Held, e, t

(* A copy that fits leaves the first n characters of its source.           *)
LEMMA CopyText ==
  ASSUME NEW d, Good(d), NEW s, Good(s), NEW n \in 1..s.used, n + 1 <= d.size
  PROVE  Held(CopyFront(d, s, n)) = SubSeq(Held(s), 1, n)
<1> DEFINE t == Front(s, n)
           w == Stored(d, 0, t)
<1>1. s.used \in Nat /\ d.size \in Nat /\ d.used \in Nat /\ d.offset \in Nat
  BY DEF Good, Struct
<1>2. n \in Nat /\ n <= s.used BY <1>1
<1>3. t \in Seq(Char) /\ Len(t) = n BY <1>2, FrontText
<1>4. t \in Seq(Cells) BY <1>3 DEF Cells
<1>5. w.mem \in [0..(d.size - 1) -> Cells]
  BY <1>1, <1>4, PokeCells DEF Stored, Good, Struct
<1>6. w.size = d.size /\ w.used = d.used /\ w.offset = d.offset
      /\ w = [size |-> w.size, used |-> w.used, offset |-> w.offset, mem |-> w.mem]
  BY DEF Stored
<1>7. Struct(w) /\ n < w.size BY <1>1, <1>2, <1>5, <1>6 DEF Struct
<1>8. ASSUME NEW i \in 1..n PROVE w.mem[i - 1] = t[i]
  <2>1. i - 1 \in DOMAIN d.mem /\ i - 1 >= 0 /\ i - 1 < 0 + Len(t) /\ i - 1 - 0 + 1 = i
    BY <1>1, <1>2, <1>3 DEF Good, Struct
  <2> QED BY <2>1 DEF Stored, Poke
<1>9. \A i \in 1..n : t[i] = s.mem[i - 1] BY DEF Front
<1> HIDE DEF w, t
<1>10. Front(w, n) = Front(s, n) BY <1>8, <1>9 DEF Front
<1>11. Held(Terminate(w, n)) = Front(w, n) BY <1>2, <1>7, TerminateText
<1>12. Held(s) \in Seq(Char) /\ Len(Held(s)) = s.used
  BY <1>1, FrontText DEF Held
<1>13. SubSeq(Held(s), 1, n) = Front(s, n)
  <2>1. SubSeq(Held(s), 1, n) = [i \in 1..n |-> Held(s)[i]] BY <1>2, <1>12
  <2>2. \A i \in 1..n : Held(s)[i] = s.mem[i - 1] BY <1>1, <1>2 DEF Held, Front
  <2> QED BY <2>1, <2>2 DEF Front
<1> QED BY <1>10, <1>11, <1>13 DEF CopyFront, w, t

(***************************************************************************)
(* The refinement.  A struct in memory is neither of the two values that   *)
(* stand for its absence.                                                  *)
(***************************************************************************)
Apart == ~Struct(Closed) /\ ~Struct(Dangling)

(* A handle with a buffer shows a text.                                    *)
LEMMA OpenText ==
  ASSUME Apart, IInv, NEW h \in Live
  PROVE  /\ h \in Handles /\ Good(obj[h])
         /\ TextOf(obj[h]) = Held(obj[h])
         /\ Shown[h] = Held(obj[h])
         /\ h \in Text!Open
<1>1. h \in Handles /\ Good(obj[h]) BY DEF Live, IInv
<1>2. TextOf(obj[h]) = Held(obj[h]) BY DEF Live, TextOf, Held
<1>3. obj[h].used \in Nat BY <1>1 DEF Good, Struct
<1>4. Held(obj[h]) \in Seq(Char) BY <1>1, <1>3, FrontText DEF Held
<1> QED BY <1>1, <1>2, <1>4 DEF Shown, Text!Open, Text!Texts

(* A good struct is shown as what it holds.                                *)
LEMMA GoodText ==
  ASSUME Apart, NEW s, Good(s)
  PROVE  TextOf(s) = Held(s)
BY DEF Apart, Good, TextOf, Held

(* A struct without text is shown as the empty text.                       *)
LEMMA EmptyText ==
  ASSUME Apart, NEW s, Good(s), s.used = 0
  PROVE  TextOf(s) = <<>>
<1>1. TextOf(s) = Front(s, 0) BY GoodText DEF Held
<1>2. Front(s, 0) \in Seq(Char) /\ Len(Front(s, 0)) = 0 BY FrontText DEF Good, Struct
<1> QED BY <1>1, <1>2

(* Changing what one handle points to changes the text of that handle.     *)
LEMMA ChangeText ==
  ASSUME IInv, NEW h \in Handles, NEW new, obj' = [obj EXCEPT ![h] = new]
  PROVE  Shown' = [Shown EXCEPT ![h] = TextOf(new)]
<1>1. \A k \in Handles : obj'[k] = IF k = h THEN new ELSE obj[k] BY DEF IInv
<1>2. Shown' = [k \in Handles |-> TextOf(obj'[k])] BY DEF Shown, TextOf, Front
<1>3. \A k \in Handles : TextOf(obj'[k]) = IF k = h THEN TextOf(new) ELSE TextOf(obj[k])
  BY <1>1
<1>4. Shown' = [k \in Handles |-> IF k = h THEN TextOf(new) ELSE TextOf(obj[k])]
  BY <1>2, <1>3
<1> QED BY <1>4 DEF Shown

(* A call that appends a piece.                                            *)
LEMMA AppendText ==
  ASSUME Apart, IInv, NEW h \in Live, NEW t \in Formats \cup {<<c>> : c \in Single},
         NEW new, Good(new), Held(new) = Held(obj[h]) \o t,
         obj' = [obj EXCEPT ![h] = new]
  PROVE  Text!AppendPiece(h)
<1>1. h \in Handles /\ h \in Text!Open /\ Shown[h] = Held(obj[h]) BY OpenText
<1>2. TextOf(new) = Held(new) BY GoodText
<1>3. Shown' = [Shown EXCEPT ![h] = TextOf(new)] BY <1>1, ChangeText
<1>4. Shown' = [Shown EXCEPT ![h] = Shown[h] \o t] BY <1>1, <1>2, <1>3
<1> QED BY <1>1, <1>4 DEF Text!AppendPiece, Shown

(* Every call of buffer.c is a step of the promise, or none.               *)
LEMMA StepText ==
  ASSUME Apart, IInv, [Next]_vars
  PROVE  [Text!TextNext]_Shown
<1>0. /\ \A h \in Live : h \in Handles /\ Good(obj[h])
      /\ BUF_SIZE \in Nat
  BY SizeAssumption DEF IInv, Live
<1>1. ASSUME NEW h \in Handles, NEW new, Good(new), new.used = 0,
             obj' = [obj EXCEPT ![h] = new]
      PROVE  Text!TextNext
  <2>1. TextOf(new) = <<>> BY <1>1, EmptyText
  <2>2. Shown' = [Shown EXCEPT ![h] = TextOf(new)] BY <1>1, ChangeText
  <2>3. Text!Start(h) BY <2>1, <2>2 DEF Text!Start, Shown
  <2> QED BY <1>1, <2>3 DEF Text!TextNext
<1>2. Good(Fresh(BUF_SIZE)) /\ Fresh(BUF_SIZE).used = 0 BY <1>0, FreshGood
<1>3. \A s : Good(s) => Good(Flushed(s)) /\ Flushed(s).used = 0
  BY FlushGood DEF Flushed
<1>4. ASSUME NEW h \in Handles,
             \/ output_init(h) \/ output_reset(h) \/ output_flush(h)
             \/ output_local_prepare(h)
      PROVE  Text!TextNext
  <2>1. CASE output_init(h) BY <1>1, <1>2, <2>1 DEF output_init
  <2>2. CASE output_reset(h) BY <1>1, <1>2, <2>2 DEF output_reset
  <2>3. CASE output_flush(h)
    <3>1. Good(obj[h]) /\ obj' = [obj EXCEPT ![h] = Flushed(obj[h])]
      BY <1>0, <2>3 DEF output_flush
    <3> QED BY <1>1, <1>3, <3>1
  <2>4. CASE output_local_prepare(h)
    <3> DEFINE new == IF obj[h] = Closed THEN Fresh(BUF_SIZE) ELSE Flushed(obj[h])
    <3>1. obj[h] = Closed \/ Good(obj[h]) BY <2>4 DEF IInv, output_local_prepare
    <3>2. Good(new) /\ new.used = 0 BY <1>2, <1>3, <3>1
    <3>3. obj' = [obj EXCEPT ![h] = new] BY <2>4 DEF output_local_prepare
    <3> HIDE DEF new
    <3> QED BY <1>1, <3>2, <3>3
  <2> QED BY <1>4, <2>1, <2>2, <2>3, <2>4
<1>5. ASSUME NEW h \in Handles, output_fini(h) PROVE Text!TextNext
  <2>1. h \in Live /\ obj' = [obj EXCEPT ![h] = Closed] BY <1>5 DEF output_fini
  <2>2. h \in Text!Open BY <2>1, OpenText
  <2>3. Shown' = [Shown EXCEPT ![h] = Closed] BY <2>1, ChangeText DEF TextOf
  <2>4. Text!Stop(h) BY <2>2, <2>3 DEF Text!Stop, Shown
  <2> QED BY <1>5, <2>4 DEF Text!TextNext
<1>6. ASSUME NEW h \in Live, NEW c \in Single, obj' = [obj EXCEPT ![h] = PutChar(obj[h], c)]
      PROVE  Text!TextNext
  <2>1. Good(obj[h]) /\ c \in Char BY <1>0, CharAssumption
  <2>2. Good(PutChar(obj[h], c)) /\ Held(PutChar(obj[h], c)) = Held(obj[h]) \o <<c>>
    BY <2>1, PutCharGood, PutCharText
  <2>3. <<c>> \in Formats \cup {<<k>> : k \in Single} OBVIOUS
  <2>4. Text!AppendPiece(h) BY <1>6, <2>2, <2>3, AppendText
  <2> QED BY <1>0, <2>4 DEF Text!TextNext
<1>7. ASSUME NEW h \in Handles,
             output_base_char(h) \/ output_indent_to_newline(h) \/ IndentStep(h)
      PROVE  Text!TextNext
  <2>1. CASE output_base_char(h) BY <1>6, <2>1 DEF output_base_char
  <2>2. CASE output_indent_to_newline(h)
    BY <1>6, <2>2, CharAssumption DEF output_indent_to_newline
  <2>3. CASE IndentStep(h)
    <3>1. Good(obj[h]) BY <2>3 DEF IndentStep, IInv
    <3>2. h \in Live BY <3>1 DEF Apart, Good, Live
    <3> QED BY <1>6, <2>3, <3>2, CharAssumption DEF IndentStep
  <2> QED BY <1>7, <2>1, <2>2, <2>3
<1>8. ASSUME NEW h \in Handles, output_base_printf(h) PROVE Text!TextNext
  <2>1. PICK t \in Formats : obj' = [obj EXCEPT ![h] = Printf(obj[h], t)]
    BY <1>8 DEF output_base_printf
  <2>2. h \in Live /\ Good(obj[h]) /\ t \in Seq(Char)
    BY <1>0, <1>8, CharAssumption DEF output_base_printf
  <2>3. Good(Printf(obj[h], t)) /\ Held(Printf(obj[h], t)) = Held(obj[h]) \o t
    BY <2>2, PrintfGood, PrintfText
  <2>4. Text!AppendPiece(h) BY <2>1, <2>2, <2>3, AppendText
  <2> QED BY <1>8, <2>4 DEF Text!TextNext
<1>9. ASSUME NEW h \in Handles, output_base_indent_to(h) PROVE UNCHANGED Shown
  BY <1>9 DEF output_base_indent_to, Shown
<1>10. ASSUME NEW a \in Handles, NEW b \in Handles, output_base_swap_meta(a, b)
       PROVE  Text!TextNext
  <2>1. a \in Live /\ b \in Live /\ obj' = [obj EXCEPT ![a] = obj[b], ![b] = obj[a]]
    BY <1>10 DEF output_base_swap_meta
  <2>2. {a, b} \subseteq Text!Open BY <2>1, OpenText
  <2>3. \A k \in Handles : obj'[k] = IF k = b THEN obj[a] ELSE IF k = a THEN obj[b] ELSE obj[k]
    BY <2>1 DEF IInv
  <2>4. Shown' = [Shown EXCEPT ![a] = Shown[b], ![b] = Shown[a]]
    BY <2>3 DEF Shown
  <2>5. Text!Exchange(a, b) BY <2>2, <2>4 DEF Text!Exchange, Shown
  <2> QED BY <1>10, <2>5 DEF Text!TextNext
<1>11. ASSUME NEW d \in Handles, NEW s \in Handles, output_base_concat(d, s)
       PROVE  Text!TextNext
  <2>1. d \in Live /\ s \in Live /\ obj' = [obj EXCEPT ![d] = Concat(obj[d], obj[s])]
    BY <1>11 DEF output_base_concat
  <2>2. Good(obj[d]) /\ Good(obj[s]) BY <1>0, <2>1
  <2>3. /\ Good(Concat(obj[d], obj[s]))
        /\ Held(Concat(obj[d], obj[s])) = Held(obj[d]) \o Held(obj[s])
    BY <2>2, ConcatGood, ConcatText
  <2>4. Shown[d] = Held(obj[d]) /\ Shown[s] = Held(obj[s]) /\ {d, s} \subseteq Text!Open
    BY <2>1, OpenText
  <2>5. TextOf(Concat(obj[d], obj[s])) = Shown[d] \o Shown[s] BY <2>3, <2>4, GoodText
  <2>6. Shown' = [Shown EXCEPT ![d] = Shown[d] \o Shown[s]] BY <2>1, <2>5, ChangeText
  <2>7. Text!Join(d, s) BY <2>4, <2>6 DEF Text!Join, Shown
  <2> QED BY <1>11, <2>7 DEF Text!TextNext
<1>12. ASSUME NEW d \in Handles, NEW s \in Handles, output_base_copy(d, s)
       PROVE  Text!TextNext
  <2>1. d \in Live /\ s \in Live BY <1>12 DEF output_base_copy
  <2>2. Good(obj[d]) /\ Good(obj[s]) BY <1>0, <2>1
  <2>3. PICK n \in 1..obj[s].used :
          obj' = [obj EXCEPT ![d] =
                    IF n + 1 > obj[d].size THEN Dangling ELSE CopyFront(obj[d], obj[s], n)]
    BY <1>12 DEF output_base_copy
  <2>4. Shown[d] = Held(obj[d]) /\ Shown[s] = Held(obj[s]) /\ {d, s} \subseteq Text!Open
    BY <2>1, OpenText
  <2>5. /\ obj[d].used \in Nat /\ obj[s].used \in Nat /\ obj[d].size \in Nat
        /\ obj[d].used < obj[d].size
    BY <2>2 DEF Good, Struct
  <2>6. Len(Held(obj[d])) = obj[d].used /\ Len(Held(obj[s])) = obj[s].used
    BY <2>2, <2>5, FrontText DEF Held
  <2>7. CASE n + 1 > obj[d].size
    <3>1. Len(Shown[s]) > Len(Shown[d]) BY <2>4, <2>5, <2>6, <2>7
    <3>2. obj' = [obj EXCEPT ![d] = Dangling] BY <2>3, <2>7
    <3>3. Shown' = [Shown EXCEPT ![d] = Dangling] BY <3>2, ChangeText DEF TextOf
    <3>4. Text!Lose(d, s) BY <2>4, <3>1, <3>3 DEF Text!Lose, Shown
    <3> QED BY <1>12, <3>4 DEF Text!TextNext
  <2>8. CASE ~(n + 1 > obj[d].size)
    <3>1. n + 1 <= obj[d].size BY <2>5, <2>8
    <3>2. /\ Good(CopyFront(obj[d], obj[s], n))
          /\ Held(CopyFront(obj[d], obj[s], n)) = SubSeq(Held(obj[s]), 1, n)
      BY <2>2, <3>1, CopyGood, CopyText
    <3>3. obj' = [obj EXCEPT ![d] = CopyFront(obj[d], obj[s], n)] BY <2>3, <2>8
    <3>4. TextOf(CopyFront(obj[d], obj[s], n)) = SubSeq(Shown[s], 1, n)
      BY <2>4, <3>2, GoodText
    <3>5. Shown' = [Shown EXCEPT ![d] = SubSeq(Shown[s], 1, n)]
      BY <3>3, <3>4, ChangeText
    <3>6. n \in 1..Len(Shown[s]) BY <2>4, <2>6
    <3>7. Text!Prefix(d, s) BY <2>4, <3>5, <3>6 DEF Text!Prefix, Shown
    <3> QED BY <1>12, <3>7 DEF Text!TextNext
  <2> QED BY <2>7, <2>8
<1>13. CASE UNCHANGED vars BY <1>13 DEF vars, Shown
<1> QED
  BY <1>4, <1>5, <1>7, <1>8, <1>9, <1>10, <1>11, <1>12, <1>13 DEF Next

(* Whatever sequence of calls a plugin makes, each does to the texts of    *)
(* the handles what buffer.c promises: a piece is appended whole, nothing  *)
(* printed before is altered, and only a copy of a longer text loses its   *)
(* destination.                                                            *)
THEOREM BufferRefines ==
  ASSUME Apart
  PROVE  Spec => ImplementsText
<1>1. Init => Text!TextInit
  BY DEF Init, Text!TextInit, TextOf
<1>2. IInv /\ [Next]_vars => [Text!TextNext]_Shown BY Apart, StepText
<1>3. IInv /\ [Next]_vars => [Text!TextNext]_[h \in Handles |-> TextOf(obj[h])]
  BY <1>2 DEF Shown
<1> QED
  BY <1>1, <1>3, InitIInv, NextIInv, PTL DEF Spec, ImplementsText, Text!TextSpec

(***************************************************************************)
(* Node caches.  A cache is correct for every finite set of nodes smaller  *)
(* than the range of its unsigned index: CacheTypeOK and MapMatchesQueue   *)
(* hold, a finished loop has seen everything, and the cache implements     *)
(* Numbering.                                                              *)
(***************************************************************************)

(* A loop has been given exactly the entries before the one it stands on,  *)
(* in queue order, none twice and none missed, whatever was inserted       *)
(* since it started.                                                       *)
LoopSeesQueue ==
  \A l \in Loops : idx[l] # 0 => seen[l] = SubSeq(queue, 1, idx[l])

(* The three state invariants are inductive together once it is added that *)
(* a cache outside its lifetime is empty.                                  *)
CacheInv ==
  /\ CacheTypeOK
  /\ MapMatchesQueue
  /\ LoopSeesQueue
  /\ ~live => queue = <<>>

(* A queue whose entries can be told apart by their index has no more of   *)
(* them than there are nodes.                                              *)
LEMMA QueueBounded ==
  ASSUME NEW q \in Seq(Nodes), \A i, j \in 1..Len(q) : q[i] = q[j] => i = j
  PROVE  Len(q) <= Cardinality(Nodes)
<1>1. IsFiniteSet(Nodes) BY NodesAssumption
<1>2. Cardinality(Nodes) \in Nat BY <1>1, FS_CardinalityType
<1>3. IsFiniteSet(1..Len(q)) /\ Cardinality(1..Len(q)) = Len(q)
  <2>1. Len(q) \in Nat /\ Len(q) \in Int /\ 1 \in Int OBVIOUS
  <2>2. Cardinality(1..Len(q)) = IF 1 > Len(q) THEN 0 ELSE Len(q) - 1 + 1
    BY <2>1, FS_Interval
  <2> QED BY <2>1, <2>2, FS_Interval
<1>4. q \in [1..Len(q) -> Nodes] OBVIOUS
<1>5. SUFFICES ASSUME Cardinality(Nodes) < Len(q) PROVE FALSE
  BY <1>2
<1>6. \E i, j \in 1..Len(q) : i # j /\ q[i] = q[j]
  BY <1>1, <1>3, <1>4, <1>5, FS_PigeonHole
<1> QED BY <1>6

(* Inserting a new node does not wrap the index around to the value that   *)
(* means failure.                                                          *)
LEMMA IndexDoesNotWrap ==
  ASSUME CacheInv, NEW n \in Nodes, ~Contains(n)
  PROVE  NextIndex = index + 1 /\ index + 1 \in 1..(IndexMod - 1)
<1> DEFINE q == Append(queue, n)
<1>1. queue \in Seq(Nodes) /\ index = Len(queue) /\ IndexMod \in Nat
  BY NodesAssumption DEF CacheInv, CacheTypeOK, MapMatchesQueue
<1>2. q \in Seq(Nodes) /\ Len(q) = index + 1 BY <1>1
<1>3. \A i \in 1..Len(queue) : q[i] = queue[i] /\ queue[i] # n /\ pmap[queue[i]] = i
  BY <1>1 DEF CacheInv, MapMatchesQueue, Contains
<1>4. q[Len(queue) + 1] = n BY <1>1
<1>5. \A i, j \in 1..Len(q) : q[i] = q[j] => i = j
  <2> TAKE i, j \in 1..Len(q)
  <2>1. (i \in 1..Len(queue) \/ i = Len(queue) + 1)
        /\ (j \in 1..Len(queue) \/ j = Len(queue) + 1)
    BY <1>1, <1>2
  <2> QED BY <1>3, <1>4, <2>1
<1>6. Len(q) <= Cardinality(Nodes) BY <1>2, <1>5, QueueBounded
<1>7. Cardinality(Nodes) \in Nat /\ Cardinality(Nodes) < IndexMod
  BY NodesAssumption, FS_CardinalityType
<1> HIDE DEF q
<1>8. index + 1 < IndexMod /\ index \in Nat BY <1>1, <1>2, <1>6, <1>7
<1> QED BY <1>1, <1>8 DEF NextIndex

(* The cache starts empty.                                                  *)
LEMMA InitCacheInv == CacheInit => CacheInv
<1> SUFFICES ASSUME CacheInit PROVE CacheInv OBVIOUS
<1>1. IndexMod \in Nat /\ IndexMod > 0
  BY NodesAssumption, FS_CardinalityType
<1>2. DOMAIN pmap = {} /\ pmap \in [DOMAIN pmap -> 0..(IndexMod - 1)]
  BY DEF CacheInit
<1>3. queue = <<>> /\ queue \in Seq(Nodes) /\ Len(queue) = 0 BY DEF CacheInit
<1>4. idx \in [Loops -> 0..Len(queue)] /\ seen \in [Loops -> Seq(Nodes)]
  BY <1>3 DEF CacheInit
<1>5. CacheTypeOK
  <2>1. live = FALSE /\ index = 0 /\ ret = [of |-> Null, index |-> 0]
    BY DEF CacheInit, NoAnswer, Answer
  <2>2. 0 \in 0..(IndexMod - 1) BY <1>1
  <2> QED BY <1>2, <1>3, <1>4, <2>1, <2>2 DEF CacheTypeOK
<1> QED BY <1>2, <1>3, <1>5 DEF CacheInit, CacheInv, MapMatchesQueue, LoopSeesQueue

(* Inserting a node that is not yet in the map. *)
LEMMA InsertIInv ==
  ASSUME CacheInv, live, NEW n \in Nodes, ~Contains(n), InsertNew(n), UNCHANGED <<live, loops>>
  PROVE  CacheInv'
<1>1. /\ index' = index + 1 /\ ret' = [of |-> n, index |-> index + 1]
      /\ index + 1 \in 1..(IndexMod - 1)
      /\ pmap' = [m \in DOMAIN pmap \cup {n} |-> IF m = n THEN index + 1 ELSE pmap[m]]
      /\ queue' = Append(queue, n)
  BY IndexDoesNotWrap DEF InsertNew, Answer
<1>2. queue \in Seq(Nodes) /\ index = Len(queue) /\ IndexMod \in Nat
  BY NodesAssumption DEF CacheInv, CacheTypeOK, MapMatchesQueue
<1>3. queue' \in Seq(Nodes) /\ Len(queue') = Len(queue) + 1
      /\ queue'[Len(queue) + 1] = n
      /\ \A i \in 1..Len(queue) : queue'[i] = queue[i]
  BY <1>1, <1>2
<1>4. CacheTypeOK'
  BY <1>1, <1>2, <1>3 DEF CacheInv, CacheTypeOK, loops
<1>5. MapMatchesQueue'
  <2>1. index' = Len(queue') BY <1>1, <1>2, <1>3
  <2>2. DOMAIN pmap' = {queue'[i] : i \in 1..Len(queue')}
    <3>1. DOMAIN pmap' = {queue[i] : i \in 1..Len(queue)} \cup {n}
      BY <1>1 DEF CacheInv, MapMatchesQueue
    <3>2. 1..Len(queue') = 1..Len(queue) \cup {Len(queue) + 1}
      BY <1>2, <1>3
    <3> QED BY <1>3, <3>1, <3>2
  <2>3. \A i \in 1..Len(queue') : pmap'[queue'[i]] = i
    <3> TAKE i \in 1..Len(queue')
    <3>1. CASE i = Len(queue) + 1 BY <1>1, <1>2, <1>3, <3>1
    <3>2. CASE i \in 1..Len(queue)
      <4>1. queue[i] \in DOMAIN pmap /\ queue[i] # n /\ pmap[queue[i]] = i
        BY <3>2 DEF CacheInv, MapMatchesQueue, Contains
      <4> QED BY <1>1, <1>3, <3>2, <4>1
    <3> QED BY <1>2, <1>3, <3>1, <3>2
  <2> QED BY <2>1, <2>2, <2>3 DEF MapMatchesQueue
<1>6. LoopSeesQueue'
  <2> SUFFICES ASSUME NEW l \in Loops, idx[l] # 0
               PROVE  seen[l] = SubSeq(queue', 1, idx[l])
    BY DEF LoopSeesQueue, loops
  <2>1. idx[l] \in 1..Len(queue) BY <1>2 DEF CacheInv, CacheTypeOK
  <2>2. seen[l] = SubSeq(queue, 1, idx[l]) BY DEF CacheInv, LoopSeesQueue
  <2>3. SubSeq(queue', 1, idx[l]) = SubSeq(queue, 1, idx[l])
    BY <1>2, <1>3, <2>1
  <2> QED BY <2>2, <2>3
<1> QED BY <1>4, <1>5, <1>6 DEF CacheInv

(* Every call keeps the invariant.                                          *)
LEMMA NextCacheInv == CacheInv /\ [CacheNext]_cacheVars => CacheInv'
<1> SUFFICES ASSUME CacheInv, [CacheNext]_cacheVars PROVE CacheInv' OBVIOUS
<1> USE DEF cache, loops
<1>0. IndexMod \in Nat /\ IndexMod > 0 /\ queue \in Seq(Nodes)
  BY NodesAssumption, FS_CardinalityType DEF CacheInv, CacheTypeOK
<1>1. CASE pmap_nodes_init
  <2>1. live' = TRUE /\ index' = 0 /\ pmap' = [n \in {} |-> 0] /\ queue' = <<>>
        /\ ret' = [of |-> Null, index |-> 0] /\ idx' = idx /\ seen' = seen /\ queue = <<>>
    BY <1>1 DEF pmap_nodes_init, CacheInv, NoAnswer, Answer
  <2>2. \A l \in Loops : idx[l] = 0 BY <2>1 DEF CacheInv, CacheTypeOK
  <2>3. CacheTypeOK'
    <3>1. DOMAIN pmap' = {} /\ pmap' \in [DOMAIN pmap' -> 0..(IndexMod - 1)]
      BY <2>1
    <3>2. 0 \in 0..(IndexMod - 1) BY <1>0
    <3>3. /\ idx' \in [Loops -> 0..Len(queue')] /\ seen' \in [Loops -> Seq(Nodes)]
          /\ queue' \in Seq(Nodes)
      BY <2>1 DEF CacheInv, CacheTypeOK
    <3> QED BY <2>1, <3>1, <3>2, <3>3 DEF CacheTypeOK
  <2>4. MapMatchesQueue' /\ LoopSeesQueue'
    BY <2>1, <2>2 DEF MapMatchesQueue, LoopSeesQueue
  <2> QED BY <2>1, <2>3, <2>4 DEF CacheInv
<1>2. CASE pmap_nodes_finish
  <2>1. live' = FALSE /\ index' = 0 /\ pmap' = [n \in {} |-> 0] /\ queue' = <<>>
        /\ ret' = [of |-> Null, index |-> 0] /\ idx' = idx /\ seen' = [l \in Loops |-> <<>>]
        /\ \A l \in Loops : idx[l] = 0
    BY <1>2 DEF pmap_nodes_finish, NoAnswer, Answer
  <2>2. CacheTypeOK'
    <3>1. DOMAIN pmap' = {} /\ pmap' \in [DOMAIN pmap' -> 0..(IndexMod - 1)]
      BY <2>1
    <3>2. Len(queue') = 0 /\ queue' \in Seq(Nodes) BY <2>1
    <3>3. idx' \in [Loops -> 0..Len(queue')]
      <4>1. idx \in [Loops -> 0..Len(queue)] BY DEF CacheInv, CacheTypeOK
      <4> QED BY <2>1, <3>2, <4>1
    <3>4. seen' \in [Loops -> Seq(Nodes)] BY <2>1
    <3>5. 0 \in 0..(IndexMod - 1) BY <1>0
    <3> QED BY <2>1, <3>1, <3>2, <3>3, <3>4, <3>5 DEF CacheTypeOK
  <2>3. MapMatchesQueue' /\ LoopSeesQueue'
    BY <2>1 DEF MapMatchesQueue, LoopSeesQueue
  <2> QED BY <2>1, <2>2, <2>3 DEF CacheInv
<1>3. ASSUME NEW n \in Nodes \cup {Null}, pmap_nodes_insert(n) PROVE CacheInv'
  <2>1. CASE n # Null /\ ~Contains(n)
    BY <1>3, <2>1, InsertIInv DEF pmap_nodes_insert
  <2>2. CASE ~(n # Null /\ ~Contains(n))
    <3>1. UNCHANGED <<live, index, pmap, queue, idx, seen>>
          /\ ret' \in [of : Nodes \cup {Null}, index : 0..(IndexMod - 1)]
      BY <1>0, <1>3, <2>2 DEF pmap_nodes_insert, Contains, Answer, CacheInv, CacheTypeOK
    <3> QED BY <3>1 DEF CacheInv, CacheTypeOK, MapMatchesQueue, LoopSeesQueue
  <2> QED BY <2>1, <2>2
<1>4. ASSUME NEW n \in Nodes \cup {Null}, pmap_nodes_index_by_key(n) PROVE CacheInv'
  <2>1. UNCHANGED <<live, index, pmap, queue, idx, seen>>
        /\ ret' \in [of : Nodes \cup {Null}, index : 0..(IndexMod - 1)]
    BY <1>0, <1>4 DEF pmap_nodes_index_by_key, Contains, Answer, CacheInv, CacheTypeOK
  <2> QED BY <2>1 DEF CacheInv, CacheTypeOK, MapMatchesQueue, LoopSeesQueue
<1>5. ASSUME NEW l \in Loops, pmap_nodes_next_node(l) PROVE CacheInv'
  <2> DEFINE j == NextEntry(idx[l])
             s == (IF idx[l] = 0 THEN <<>> ELSE seen[l])
                  \o (IF j = 0 THEN <<>> ELSE <<queue[j]>>)
  <2>1. idx \in [Loops -> 0..Len(queue)] /\ seen \in [Loops -> Seq(Nodes)]
    BY DEF CacheInv, CacheTypeOK
  <2>2. /\ idx' = [idx EXCEPT ![l] = j] /\ idx'[l] = j
        /\ seen' = [seen EXCEPT ![l] = s]
        /\ UNCHANGED <<live, index, pmap, queue, ret>>
    BY <1>5, <2>1 DEF pmap_nodes_next_node
  <2>3. j \in 0..Len(queue) /\ (j # 0 => j = idx[l] + 1)
    BY <1>0, <2>1 DEF NextEntry
  <2>4. s \in Seq(Nodes)
    BY <1>0, <2>1, <2>3
  <2>5. idx' \in [Loops -> 0..Len(queue)] /\ seen' \in [Loops -> Seq(Nodes)]
    BY <2>1, <2>2, <2>3, <2>4
  <2>6. CacheTypeOK' BY <2>2, <2>5 DEF CacheInv, CacheTypeOK
  <2>7. j # 0 => s = SubSeq(queue, 1, j)
    <3> SUFFICES ASSUME j # 0 PROVE s = SubSeq(queue, 1, j) OBVIOUS
    <3>1. j = idx[l] + 1 /\ j \in 1..Len(queue) /\ idx[l] \in 0..Len(queue)
      BY <2>1, <2>3
    <3>2. (IF idx[l] = 0 THEN <<>> ELSE seen[l]) = SubSeq(queue, 1, idx[l])
      BY <1>0 DEF CacheInv, LoopSeesQueue
    <3>3. s = SubSeq(queue, 1, idx[l]) \o <<queue[j]>> BY <3>2
    <3>4. queue \in Seq(Nodes) /\ 1 \in 1..Len(queue) /\ j \in 1..Len(queue)
          /\ j - 1 = idx[l]
      BY <1>0, <3>1
    <3> HIDE DEF j, s
    <3>5. SubSeq(queue, 1, j) = SubSeq(queue, 1, j - 1) \o <<queue[j]>>
      BY <3>4, SubSeqRecursiveSecond
    <3> QED BY <3>3, <3>4, <3>5
  <2>8. LoopSeesQueue'
    BY <2>1, <2>2, <2>7 DEF CacheInv, LoopSeesQueue
  <2> QED BY <2>2, <2>6, <2>8 DEF CacheInv, MapMatchesQueue
<1>6. CASE UNCHANGED cacheVars
  BY <1>6 DEF cacheVars, CacheInv, CacheTypeOK, MapMatchesQueue, LoopSeesQueue
<1> QED BY <1>1, <1>2, <1>3, <1>4, <1>5, <1>6 DEF CacheNext

(* The map, the queue and the counter of the cache never disagree.         *)
THEOREM CacheSafe == CacheSpec => [](CacheTypeOK /\ MapMatchesQueue)
<1>1. CacheInv => CacheTypeOK /\ MapMatchesQueue BY DEF CacheInv
<1> QED BY <1>1, InitCacheInv, NextCacheInv, PTL DEF CacheSpec

(* A loop that is told there is no more has been given the whole queue.    *)
THEOREM LoopsComplete == CacheSpec => LoopComplete
<1>1. CacheInv /\ [CacheNext]_cacheVars =>
        [\A l \in Loops : idx[l] # 0 /\ idx'[l] = 0 => seen[l] = queue]_cacheVars
  <2> SUFFICES ASSUME CacheInv, CacheNext, NEW l \in Loops, idx[l] # 0, idx'[l] = 0
               PROVE  seen[l] = queue
    BY DEF cacheVars
  <2>1. idx \in [Loops -> 0..Len(queue)] /\ queue \in Seq(Nodes)
    BY DEF CacheInv, CacheTypeOK
  <2>2. idx' # idx OBVIOUS
  <2>3. PICK k \in Loops : pmap_nodes_next_node(k)
    BY <2>2 DEF CacheNext, loops, pmap_nodes_init, pmap_nodes_finish, pmap_nodes_insert,
                pmap_nodes_index_by_key
  <2>4. idx' = [idx EXCEPT ![k] = NextEntry(idx[k])]
    BY <2>3 DEF pmap_nodes_next_node
  <2>5. k = l BY <2>1, <2>4
  <2>6. NextEntry(idx[l]) = 0 BY <2>1, <2>4, <2>5
  <2>7. idx[l] = Len(queue) BY <2>1, <2>6 DEF NextEntry
  <2>8. seen[l] = SubSeq(queue, 1, Len(queue))
    BY <2>7 DEF CacheInv, LoopSeesQueue
  <2> QED BY <2>1, <2>8, SubSeqFull
<1> QED BY <1>1, InitCacheInv, NextCacheInv, PTL DEF CacheSpec, LoopComplete

(* cache-nodes.c implements the numbering its callers rely on: its initial *)
(* state maps to one of Numbering, and each step to a step or a stutter.   *)
THEOREM CacheRefines == CacheSpec => ImplementsNumbering
<1>1. CacheInit => Num!NumInit
  BY DEF CacheInit, Num!NumInit, NoAnswer, Answer, Num!NoAnswer
<1>2. CacheInv /\ [CacheNext]_cacheVars => [Num!NumNext]_<<pmap, index, ret>>
  <2> SUFFICES ASSUME CacheInv, [CacheNext]_cacheVars PROVE [Num!NumNext]_<<pmap, index, ret>>
    OBVIOUS
  <2>1. CASE pmap_nodes_init \/ pmap_nodes_finish
    BY <2>1 DEF pmap_nodes_init, pmap_nodes_finish, Num!NumNext, Num!Forget, NoAnswer,
           Answer, Num!NoAnswer
  <2>2. ASSUME NEW n \in Nodes \cup {Null}, pmap_nodes_insert(n)
        PROVE  Num!NumNext
    <3>1. CASE n # Null /\ ~Contains(n)
      <4>1. InsertNew(n) /\ n \in Nodes BY <2>2, <3>1 DEF pmap_nodes_insert
      <4>2. NextIndex = index + 1
        BY <3>1, <4>1, IndexDoesNotWrap
      <4>3. Num!Number(n)
        BY <3>1, <4>1, <4>2 DEF InsertNew, Answer, Contains, Num!Number, Num!Known
      <4> QED BY <4>1, <4>3 DEF Num!NumNext
    <3>2. CASE n = Null \/ Contains(n)
      <4>1. n = Null => n \notin DOMAIN pmap
        BY NodesAssumption DEF CacheInv, CacheTypeOK
      <4>2. Num!Recall(n)
        BY <2>2, <3>2, <4>1 DEF pmap_nodes_insert, Answer, Contains, Num!Recall, Num!Known
      <4> QED BY <4>2 DEF Num!NumNext
    <3> QED BY <3>1, <3>2
  <2>3. ASSUME NEW n \in Nodes \cup {Null}, pmap_nodes_index_by_key(n)
        PROVE  Num!NumNext
    BY <2>3 DEF pmap_nodes_index_by_key, cache, Answer, Contains, Num!NumNext, Num!Recall,
                Num!Known
  <2>4. ASSUME NEW l \in Loops, pmap_nodes_next_node(l)
        PROVE  UNCHANGED <<pmap, index, ret>>
    BY <2>4 DEF pmap_nodes_next_node, cache
  <2>5. CASE UNCHANGED cacheVars
    BY <2>5 DEF cacheVars, cache
  <2> QED BY <2>1, <2>2, <2>3, <2>4, <2>5 DEF CacheNext
<1> QED BY <1>1, <1>2, InitCacheInv, NextCacheInv, PTL DEF CacheSpec, ImplementsNumbering, Num!NumSpec
=============================================================================
