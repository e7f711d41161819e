------------------------- MODULE FncallsMatchProofs -------------------------
(***************************************************************************)
(* What fncalls-match.c puts out is right, for every set of tables whose   *)
(* patterns have no expression over the whole call, every set of names and *)
(* arguments and any number of calls: the buffer is cut where its lines    *)
(* were joined.                                                            *)
(***************************************************************************)
EXTENDS FncallsMatch, SequenceLemmas

(***************************************************************************)
(* Places in a text.                                                       *)
(***************************************************************************)
(* The least and the greatest of some places. *)
LEMMA MinPlace ==
  ASSUME NEW I, I \subseteq Nat, I # {}
  PROVE  Min(I) \in I /\ \A m \in I : Min(I) <= m
<1>1. PICK n \in I : \A m \in I : n <= m BY LeastNatural
<1>2. Min(I) = CHOOSE x \in I : \A y \in I : x <= y BY DEF Min
<1> QED BY <1>1, <1>2

LEMMA MaxPlace ==
  ASSUME NEW n \in Nat, NEW I, I \subseteq 0..n, I # {}
  PROVE  Max(I) \in I /\ \A m \in I : Max(I) >= m
<1>. DEFINE J == {n - i : i \in I}
<1>1. J \subseteq Nat /\ J # {} OBVIOUS
<1>2. PICK j \in J : \A m \in J : j <= m
  <2> HIDE DEF J
  <2> QED BY <1>1, LeastNatural
<1>3. PICK i \in I : j = n - i OBVIOUS
<1>4. ASSUME NEW m \in I PROVE i >= m
  <2>1. n - m \in J OBVIOUS
  <2>2. j <= n - m BY <1>2, <2>1
  <2> QED BY <1>3, <2>2
<1>5. Max(I) = CHOOSE x \in I : \A y \in I : x >= y BY DEF Max
<1> HIDE DEF J
<1> QED BY <1>4, <1>5

(* strchr finds the first place of a lexeme. *)
LEMMA FirstPlace ==
  ASSUME Len(buffer) \in Nat, NEW from \in Nat, NEW c
  PROVE  \/ strchr(from, c) = 0 /\ \A i \in from..Len(buffer) : buffer[i] # c
         \/ /\ strchr(from, c) \in from..Len(buffer)
            /\ buffer[strchr(from, c)] = c
            /\ \A i \in from..(strchr(from, c) - 1) : buffer[i] # c
<1>. DEFINE I == {i \in from..Len(buffer) : buffer[i] = c}
<1>1. strchr(from, c) = IF I # {} THEN Min(I) ELSE 0
  BY DEF strchr, SelectInSubSeq
<1>2. CASE I = {} BY <1>1, <1>2
<1>3. CASE I # {}
  <2>1. I \subseteq Nat OBVIOUS
  <2>2. Min(I) \in I /\ \A m \in I : Min(I) <= m
    <3> HIDE DEF I
    <3> QED BY <1>3, <2>1, MinPlace
  <2>3. strchr(from, c) = Min(I) BY <1>1, <1>3
  <2>4. \A i \in from..(Min(I) - 1) : buffer[i] # c BY <2>2
  <2> QED BY <2>2, <2>3, <2>4
<1> QED BY <1>2, <1>3

(* It is where a lexeme is that none before it equals. *)
LEMMA FoundAt ==
  ASSUME Len(buffer) \in Nat, NEW from \in Nat \ {0}, NEW c,
         NEW p \in from..Len(buffer), buffer[p] = c,
         \A i \in from..(p - 1) : buffer[i] # c
  PROVE  strchr(from, c) = p
<1>1. \/ strchr(from, c) = 0 /\ \A i \in from..Len(buffer) : buffer[i] # c
      \/ /\ strchr(from, c) \in from..Len(buffer)
         /\ buffer[strchr(from, c)] = c
         /\ \A i \in from..(strchr(from, c) - 1) : buffer[i] # c
  BY FirstPlace
<1>2. ~(strchr(from, c) < p) BY <1>1
<1>3. ~(strchr(from, c) > p) BY <1>1
<1> QED BY <1>1, <1>2, <1>3

(* The last blank before a place. *)
LEMMA LastBlankAt ==
  ASSUME Len(buffer) \in Nat, NEW to \in 1..Len(buffer),
         NEW p \in 1..to, buffer[p] = Blank,
         \A i \in (p + 1)..to : buffer[i] # Blank
  PROVE  SelectLastInSubSeq(buffer, 1, to, LAMBDA x : x = Blank) = p
<1>. DEFINE I == {i \in 1..to : buffer[i] = Blank}
<1>0. to \in Nat /\ p \in Nat OBVIOUS
<1>1. SelectLastInSubSeq(buffer, 1, to, LAMBDA x : x = Blank)
        = IF I # {} THEN Max(I) ELSE 0
  BY DEF SelectLastInSubSeq
<1>2. p \in I /\ \A i \in I : i <= p OBVIOUS
<1>3. I # {} /\ I \subseteq 0..to OBVIOUS
<1>4. Max(I) \in I /\ \A m \in I : Max(I) >= m
  <2> HIDE DEF I
  <2> QED BY <1>0, <1>3, MaxPlace
<1>5. Max(I) = p
  <2> HIDE DEF I
  <2>1. I \subseteq Nat BY <1>3
  <2>2. Max(I) \in Nat BY <1>4, <2>1
  <2>3. Max(I) <= p BY <1>2, <1>4
  <2>4. Max(I) >= p BY <1>2, <1>4
  <2> QED BY <1>0, <2>2, <2>3, <2>4
<1> QED BY <1>1, <1>3, <1>5

(***************************************************************************)
(* The lexemes, the calls and the lines.                                   *)
(***************************************************************************)
LocSet == {Locs[j] : j \in DOMAIN Locs}

Literals == {Blank, "\n", "(", ")", "[", "]", "<function_decl>", "<@>", "f", "decl"}

Lexemes == Literals \cup Names \cup LocSet \cup UNION {{a[n] : n \in DOMAIN a} : a \in Args}

Calls == [name : Names, args : Args, loc : LocSet]

LEMMA LexemeFacts ==
  /\ Blank \in Lexemes /\ "\n" \in Lexemes /\ "(" \in Lexemes /\ ")" \in Lexemes
  /\ "[" \in Lexemes /\ "]" \in Lexemes /\ "<function_decl>" \in Lexemes
  /\ "<@>" \in Lexemes /\ "f" \in Lexemes /\ "decl" \in Lexemes
  /\ Names \subseteq Lexemes /\ LocSet \subseteq Lexemes
BY DEF Lexemes, Literals

(* No two of them are the same. *)
LEMMA LexemesDiffer ==
  /\ Blank # "\n" /\ Blank # "(" /\ Blank # ")" /\ Blank # "[" /\ Blank # "]"
  /\ Blank # "<function_decl>" /\ Blank # "<@>" /\ Blank # "f" /\ Blank # "decl"
BY Zenon DEF Blank

LEMMA CallFacts ==
  ASSUME NEW c \in Calls
  PROVE  /\ c.name \in Names /\ c.loc \in LocSet /\ c.args \in Args
         /\ c.name \in Lexemes /\ c.loc \in Lexemes /\ c.args \in Seq(Lexemes)
         /\ c.name # Blank /\ c.name # "(" /\ c.name # "]" /\ c.loc # "]"
<1>1. c.name \in Names /\ c.loc \in LocSet /\ c.args \in Args BY DEF Calls
<1>2. c.args \in Seq(Lexemes)
  <2>1. c.args \in Seq({c.args[i] : i \in DOMAIN c.args})
    BY <1>1, TextsAssumption DEF IsSequence
  <2>2. {c.args[i] : i \in DOMAIN c.args} \subseteq Lexemes BY <1>1 DEF Lexemes
  <2> QED BY <2>1, <2>2, SeqMonotonic
<1>3. c.name # Blank /\ c.name # "(" /\ c.name # "]" BY <1>1, TextsAssumption
<1>4. c.loc # "]" BY <1>1, TextsAssumption DEF LocSet
<1> QED BY <1>1, <1>2, <1>3, <1>4, LexemeFacts

(* The text and the line of a call, lexeme by lexeme. *)
LEMMA CallTextShape ==
  ASSUME NEW c \in Calls
  PROVE  /\ CallText(c) \in Seq(Lexemes) /\ Len(CallText(c)) = Len(c.args) + 2
         /\ CallText(c)[1] = "(" /\ CallText(c)[Len(c.args) + 2] = ")"
         /\ \A i \in 1..Len(c.args) : CallText(c)[1 + i] = c.args[i]
<1>. DEFINE V == Lexemes  n == Len(c.args)  y == CallText(c)  u == <<"(">> \o c.args
<1>0. c.args \in Seq(V) /\ n \in Nat BY CallFacts
<1>2. <<"(">> \in Seq(V) /\ <<")">> \in Seq(V) BY LexemeFacts
<1> HIDE DEF V
<1>3. /\ u \in Seq(V) /\ Len(u) = n + 1 /\ u[1] = "("
      /\ \A i \in 1..n : u[i + 1] = c.args[i]
  BY <1>0, <1>2, ConcatProperties
<1>4. y \in Seq(V) /\ Len(y) = n + 2 /\ y[1] = "(" /\ y[n + 2] = ")"
      /\ \A i \in 1..n : y[1 + i] = c.args[i]
  <2>1. y = u \o <<")">> BY DEF CallText
  <2> HIDE DEF u, y
  <2>2. u \o <<")">> \in Seq(V) /\ Len(u \o <<")">>) = n + 2
        /\ \A i \in 1..(n + 2) : (u \o <<")">>)[i] = IF i <= n + 1 THEN u[i] ELSE ")"
    BY <1>0, <1>2, <1>3, ConcatProperties
  <2> HIDE DEF n
  <2> QED BY <1>0, <1>3, <2>1, <2>2
<1> QED BY <1>4 DEF V

LEMMA LineShape ==
  ASSUME NEW c \in Calls
  PROVE  /\ Len(c.args) \in Nat
         /\ CallLine(c) \in Seq(Lexemes) /\ Len(CallLine(c)) = Len(c.args) + 11
         /\ CallLine(c)[1] = Blank /\ CallLine(c)[2] = "<@>" /\ CallLine(c)[3] = Blank
         /\ CallLine(c)[4] = c.name /\ CallLine(c)[5] = "("
         /\ \A i \in 1..Len(c.args) : CallLine(c)[5 + i] = c.args[i]
         /\ CallLine(c)[Len(c.args) + 6] = ")"
         /\ CallLine(c)[Len(c.args) + 7] = Blank
         /\ CallLine(c)[Len(c.args) + 8] = "["
         /\ CallLine(c)[Len(c.args) + 9] = c.loc
         /\ CallLine(c)[Len(c.args) + 10] = "]"
         /\ CallLine(c)[Len(c.args) + 11] = "\n"
<1>. DEFINE V == Lexemes  n == Len(c.args)
            x == <<Blank, "<@>", Blank, c.name>>
            y == CallText(c)
            z == <<Blank, "[", c.loc, "]", "\n">>
<1>0. c.args \in Seq(V) /\ c.name \in V /\ c.loc \in V /\ n \in Nat
  BY CallFacts
<1>1. x \in Seq(V) /\ Len(x) = 4 /\ z \in Seq(V) /\ Len(z) = 5 BY <1>0, LexemeFacts
<1> HIDE DEF V
<1>4. y \in Seq(V) /\ Len(y) = n + 2 /\ y[1] = "(" /\ y[n + 2] = ")"
      /\ \A i \in 1..n : y[1 + i] = c.args[i]
  BY CallTextShape DEF V
<1>5. CallLine(c) = (x \o y) \o z BY DEF CallLine
<1>6. /\ x[1] = Blank /\ x[2] = "<@>" /\ x[3] = Blank /\ x[4] = c.name
      /\ z[1] = Blank /\ z[2] = "[" /\ z[3] = c.loc /\ z[4] = "]" /\ z[5] = "\n"
  OBVIOUS
<1> HIDE DEF x, y, z, n
<1>. DEFINE w == x \o y
<1>7. /\ w \in Seq(V) /\ Len(w) = n + 6
      /\ \A i \in 1..(n + 6) : w[i] = IF i <= 4 THEN x[i] ELSE y[i - 4]
  <2>1. /\ w \in Seq(V) /\ Len(w) = Len(x) + Len(y)
        /\ \A i \in 1..(Len(x) + Len(y)) : w[i] = IF i <= Len(x) THEN x[i] ELSE y[i - Len(x)]
    BY <1>1, <1>4, ConcatProperties
  <2>2. Len(x) = 4 /\ Len(x) + Len(y) = n + 6 BY <1>0, <1>1, <1>4
  <2> HIDE DEF w
  <2> QED BY <2>1, <2>2
<1> HIDE DEF w
<1>8. /\ w \o z \in Seq(V) /\ Len(w \o z) = n + 11
      /\ \A i \in 1..(n + 11) : (w \o z)[i] = IF i <= n + 6 THEN w[i] ELSE z[i - (n + 6)]
  <2>1. /\ w \o z \in Seq(V) /\ Len(w \o z) = Len(w) + Len(z)
        /\ \A i \in 1..(Len(w) + Len(z)) :
             (w \o z)[i] = IF i <= Len(w) THEN w[i] ELSE z[i - Len(w)]
    BY <1>1, <1>7, ConcatProperties
  <2>2. Len(w) = n + 6 /\ Len(w) + Len(z) = n + 11 BY <1>0, <1>1, <1>7
  <2> QED BY <2>1, <2>2
<1>9. CallLine(c) = w \o z BY <1>5 DEF w
<1>10. ASSUME NEW i \in 1..n PROVE CallLine(c)[5 + i] = c.args[i]
  <2>1. /\ 5 + i \in 1..(n + 6) /\ 5 + i \in 1..(n + 11) /\ 5 + i <= n + 6 /\ ~(5 + i <= 4)
        /\ (5 + i) - 4 = 1 + i
    BY <1>0
  <2>2. CallLine(c)[5 + i] = w[5 + i] BY <1>8, <1>9, <2>1
  <2>3. w[5 + i] = y[(5 + i) - 4] BY <1>7, <2>1
  <2>4. y[1 + i] = c.args[i] BY <1>4
  <2> QED BY <2>1, <2>2, <2>3, <2>4
<1>11. /\ w[1] = x[1] /\ w[2] = x[2] /\ w[3] = x[3] /\ w[4] = x[4]
       /\ w[5] = y[1] /\ w[n + 6] = y[n + 2]
  BY <1>0, <1>7 DEF w
<1>12. /\ CallLine(c)[1] = w[1] /\ CallLine(c)[2] = w[2] /\ CallLine(c)[3] = w[3]
       /\ CallLine(c)[4] = w[4] /\ CallLine(c)[5] = w[5] /\ CallLine(c)[n + 6] = w[n + 6]
  <2>1. \A i \in 1..(n + 6) : CallLine(c)[i] = w[i]
    <3>1. \A i \in 1..(n + 6) : i \in 1..(n + 11) /\ i <= n + 6 BY <1>0
    <3> QED BY <1>8, <1>9, <3>1
  <2>2. /\ 1 \in 1..(n + 6) /\ 2 \in 1..(n + 6) /\ 3 \in 1..(n + 6) /\ 4 \in 1..(n + 6)
        /\ 5 \in 1..(n + 6) /\ n + 6 \in 1..(n + 6)
    BY <1>0
  <2> QED BY <2>1, <2>2
<1>13. /\ CallLine(c)[n + 7] = z[1] /\ CallLine(c)[n + 8] = z[2] /\ CallLine(c)[n + 9] = z[3]
       /\ CallLine(c)[n + 10] = z[4] /\ CallLine(c)[n + 11] = z[5]
  <2>1. ASSUME NEW i \in 1..5 PROVE CallLine(c)[n + 6 + i] = z[i]
    <3>1. n + 6 + i \in 1..(n + 11) /\ ~(n + 6 + i <= n + 6) /\ (n + 6 + i) - (n + 6) = i
      BY <1>0
    <3> QED BY <1>8, <1>9, <3>1
  <2>2. /\ n + 6 + 1 = n + 7 /\ n + 6 + 2 = n + 8 /\ n + 6 + 3 = n + 9
        /\ n + 6 + 4 = n + 10 /\ n + 6 + 5 = n + 11
    BY <1>0
  <2> QED BY <2>1, <2>2
<1>14. CallLine(c) \in Seq(V) /\ Len(CallLine(c)) = n + 11 BY <1>8, <1>9
<1> QED BY <1>0, <1>4, <1>6, <1>10, <1>11, <1>12, <1>13, <1>14 DEF V, n

(***************************************************************************)
(* The invariant.                                                          *)
(***************************************************************************)
Subs == [start : Nat, end : Nat]

Entries ==
  [table : 0..3, kind : {"raw", "decl", "message"},
   what : Seq(Lexemes) \cup Seq(STRING), loc : Seq(Lexemes)]

(* A text that is not empty ends with a newline, so that each bracket has  *)
(* a place behind it.                                                      *)
TextInv ==
  /\ tables \in Builds
  /\ buffer \in Seq(Lexemes) /\ calls \in Seq(Calls) /\ Len(calls) <= Len(Locs)
  /\ buffer # <<>> => buffer[Len(buffer)] = "\n"

(* What the counters of the tables may be. *)
CountInv ==
  /\ phase \in {"off", "failed", "ready", "walking", "output", "finished"}
  /\ mcounter \in [Tables -> Nat] /\ h \in 1..4
  /\ \A t \in Tables : mcounter[t] <= Len(calls)
  /\ phase \notin {"walking", "output"} => \A t \in Tables : mcounter[t] = 0
  /\ phase = "walking" => h = 1
  /\ phase = "output" => \A t \in Tables : t < h => mcounter[t] = 0
  /\ NoTargets => \A t \in Tables : mcounter[t] = 0

CutInv ==
  /\ sub \in Subs /\ CutsInsideText
  /\ phase = "walking" => sub = NoSub

(* Each call is below a declaration. *)
UnderDecl(entries) ==
  \A j \in DOMAIN entries : entries[j].kind = "raw" /\ entries[j].table # 0 =>
    \E n \in 1..(j - 1) : entries[n].kind = "decl"

HasEntry(entries, kind) == \E j \in DOMAIN entries : entries[j].kind = kind

LogInv ==
  /\ log \in Seq(Entries) /\ print_decl \in BOOLEAN
  /\ phase = "walking" => log = <<>> /\ print_decl
  /\ HasDecl => UnderDecl(log)
  /\ phase = "output" /\ HasDecl /\ ~print_decl => HasEntry(log, "decl")

SafeInv == TextInv /\ CountInv /\ CutInv /\ LogInv

LEMMA SafeInit == Init => SafeInv
<1> SUFFICES ASSUME Init PROVE SafeInv OBVIOUS
<1>1. Len(Locs) \in Nat BY TextsAssumption DEF IsSequence
<1>2. TextInv BY <1>1 DEF Init, TextInv
<1>3. CountInv BY DEF Init, CountInv, Tables
<1>4. CutInv BY DEF Init, CutInv, Subs, NoSub, CutsInsideText
<1>5. LogInv BY DEF Init, LogInv, UnderDecl
<1> QED BY <1>2, <1>3, <1>4, <1>5 DEF SafeInv

(* Loading the tables touches nothing the invariant speaks of. *)
LEMMA SafeLoad ==
  SafeInv /\ (init_hash \/ populate_hash_target \/ fncalls_match_init \/ fncalls_match_finish)
    => SafeInv'
<1> SUFFICES ASSUME SafeInv,
                    init_hash \/ populate_hash_target \/ fncalls_match_init \/ fncalls_match_finish
             PROVE  SafeInv'
  OBVIOUS
<1>1. /\ phase \notin {"walking", "output"}
      /\ phase' \in {"off", "failed", "ready", "finished"}
      /\ UNCHANGED <<tables, buffer, mcounter, h, sub, print_decl, log, calls>>
  BY DEF SafeInv, CountInv, init_hash, populate_hash_target, fncalls_match_init, fncalls_match_finish,
     Load, setup
<1>2. TextInv' BY <1>1 DEF SafeInv, TextInv
<1>3. CountInv' BY <1>1 DEF SafeInv, CountInv, NoTargets
<1>4. CutInv' BY <1>1 DEF SafeInv, CutInv, CutsInsideText
<1>5. LogInv' BY <1>1 DEF SafeInv, LogInv, UnderDecl, HasEntry, HasDecl
<1> QED BY <1>2, <1>3, <1>4, <1>5 DEF SafeInv

LEMMA DeclFacts ==
  /\ DeclLine \in Seq(Lexemes) /\ Len(DeclLine) = 11
  /\ DeclLine[2] = "<function_decl>" /\ DeclLine[11] = "\n"
  /\ \A i \in 2..10 : DeclLine[i] # "\n"
<1>1. DeclLine \in Seq(Lexemes) /\ Len(DeclLine) = 11 BY LexemeFacts DEF DeclLine
<1>2. DeclLine[2] = "<function_decl>" /\ DeclLine[11] = "\n" BY DEF DeclLine
<1>3. /\ DeclLine[3] = Blank /\ DeclLine[4] = "f" /\ DeclLine[5] = "(" /\ DeclLine[6] = ")"
      /\ DeclLine[7] = Blank /\ DeclLine[8] = "[" /\ DeclLine[9] = "decl" /\ DeclLine[10] = "]"
  BY DEF DeclLine
<1>4. ASSUME NEW i \in 2..10 PROVE DeclLine[i] # "\n"
  <2>1. \/ i = 2 \/ i = 3 \/ i = 4 \/ i = 5 \/ i = 6 \/ i = 7 \/ i = 8 \/ i = 9 \/ i = 10
    OBVIOUS
  <2>2. /\ "<function_decl>" # "\n" /\ "f" # "\n" /\ "(" # "\n" /\ ")" # "\n"
        /\ "[" # "\n" /\ "decl" # "\n" /\ "]" # "\n"
    OBVIOUS
  <2> QED BY <1>2, <1>3, <2>1, <2>2, LexemesDiffer
<1> QED BY <1>1, <1>2, <1>4

LEMMA SafeStart == SafeInv /\ StartFunction => SafeInv'
<1> SUFFICES ASSUME SafeInv, StartFunction PROVE SafeInv' OBVIOUS
<1>0. /\ phase = "ready" /\ phase' = "walking"
      /\ calls' = <<>> /\ log' = <<>> /\ h' = 1 /\ sub' = NoSub /\ print_decl' = TRUE
      /\ tables' = tables /\ mcounter' = mcounter
  BY DEF StartFunction, setup
<1>1. TextInv'
  <2>1. buffer' \in {DeclLine, <<>>} BY DEF StartFunction
  <2>2. Len(Locs) \in Nat BY TextsAssumption DEF IsSequence
  <2>3. CASE buffer' = DeclLine
    <3>1. buffer' \in Seq(Lexemes) /\ buffer'[Len(buffer')] = "\n" BY <2>3, DeclFacts
    <3> QED BY <1>0, <2>2, <3>1 DEF SafeInv, TextInv
  <2>4. CASE buffer' = <<>> BY <1>0, <2>2, <2>4 DEF SafeInv, TextInv
  <2> QED BY <2>1, <2>3, <2>4
<1>2. CountInv' BY <1>0 DEF SafeInv, CountInv, NoTargets
<1>3. CutInv' BY <1>0 DEF SafeInv, CutInv, CutsInsideText, NoSub, Subs
<1>4. LogInv' BY <1>0 DEF SafeInv, LogInv, UnderDecl
<1> QED BY <1>1, <1>2, <1>3, <1>4 DEF SafeInv

(* A name is in no empty table. *)
LEMMA NoTargetsNoMatch ==
  ASSUME NEW name, NEW t \in Tables, tables[t] = <<>>
  PROVE  Lookup(t, <<name>>) = 0
BY DEF Lookup, SelectInSeq

LEMMA SafeWalk == SafeInv /\ WalkCall => SafeInv'
<1> SUFFICES ASSUME SafeInv, WalkCall PROVE SafeInv' OBVIOUS
<1>. DEFINE Called(name, args) == [name |-> name, args |-> args, loc |-> Locs[Len(calls) + 1]]
<1>0. /\ phase = "walking" /\ phase' = phase /\ log = <<>> /\ Len(calls) < Len(Locs)
      /\ UNCHANGED <<setup, h, sub, print_decl, log>>
  BY DEF WalkCall, SafeInv, LogInv
<1>1. PICK name \in Names, args \in Args :
        /\ mcounter' = [t \in Tables |->
             mcounter[t] + IF t \in match_function_name(name) THEN 1 ELSE 0]
        /\ calls' = Append(calls, Called(name, args))
        /\ buffer' = buffer \o CallLine(Called(name, args))
  BY DEF WalkCall
<1>. DEFINE c == Called(name, args)
<1>2. c \in Calls
  <2>1. calls \in Seq(Calls) /\ IsSequence(Locs) BY TextsAssumption DEF SafeInv, TextInv
  <2>2. Len(calls) + 1 \in DOMAIN Locs BY <1>0, <2>1 DEF IsSequence
  <2> QED BY <2>2 DEF Calls, LocSet
<1> HIDE DEF Called, c
<1>3. calls' = Append(calls, c) /\ buffer' = buffer \o CallLine(c) BY <1>1 DEF c
<1>4. calls \in Seq(Calls) /\ buffer \in Seq(Lexemes) /\ Len(Locs) \in Nat
  BY TextsAssumption DEF SafeInv, TextInv, IsSequence
<1>5. Len(calls') = Len(calls) + 1 /\ calls' \in Seq(Calls) BY <1>2, <1>3, <1>4
<1>6. TextInv'
  <2>1. /\ CallLine(c) \in Seq(Lexemes) /\ Len(CallLine(c)) > 0 /\ Len(CallLine(c)) \in Nat
        /\ CallLine(c)[Len(CallLine(c))] = "\n"
    BY <1>2, LineShape
  <2>2. /\ buffer' \in Seq(Lexemes) /\ Len(buffer') = Len(buffer) + Len(CallLine(c))
        /\ buffer'[Len(buffer) + Len(CallLine(c))] = CallLine(c)[Len(CallLine(c))]
    BY <1>3, <1>4, <2>1, ConcatProperties
  <2> QED BY <1>0, <1>4, <1>5, <2>1, <2>2 DEF SafeInv, TextInv, setup
<1>7. CountInv'
  <2>1. mcounter \in [Tables -> Nat] BY DEF SafeInv, CountInv
  <2>2. mcounter' \in [Tables -> Nat] BY <1>1, <2>1
  <2>3. ASSUME NEW t \in Tables PROVE mcounter'[t] <= Len(calls')
    BY <1>1, <1>4, <1>5, <2>1 DEF SafeInv, CountInv
  <2>4. ASSUME NoTargets, NEW t \in Tables PROVE mcounter'[t] = 0
    <3>1. t \notin match_function_name(name)
      BY <2>4, NoTargetsNoMatch DEF NoTargets, match_function_name
    <3>2. mcounter[t] = 0 BY <2>4 DEF SafeInv, CountInv
    <3> QED BY <1>1, <3>1, <3>2
  <2>5. NoTargets' <=> NoTargets BY <1>0 DEF NoTargets, setup
  <2> QED BY <1>0, <2>2, <2>3, <2>4, <2>5 DEF SafeInv, CountInv
<1>8. CutInv'
  <2>1. sub = NoSub BY <1>0 DEF SafeInv, CutInv
  <2> QED BY <1>0, <2>1 DEF SafeInv, CutInv, CutsInsideText
<1>9. LogInv' BY <1>0 DEF SafeInv, LogInv, UnderDecl
<1> QED BY <1>6, <1>7, <1>8, <1>9 DEF SafeInv

(* The steps of match_output that cut nothing. *)
LEMMA SafeOutput ==
  SafeInv /\ (output_buffer_write \/ match_output \/ NextTable \/ OutputDone) => SafeInv'
<1> SUFFICES ASSUME SafeInv, output_buffer_write \/ match_output \/ NextTable \/ OutputDone
             PROVE  SafeInv'
  OBVIOUS
<1>0. UNCHANGED <<tables, buffer, mcounter, calls>>
  BY DEF output_buffer_write, match_output, NextTable, OutputDone, setup
<1>1. TextInv' BY <1>0 DEF SafeInv, TextInv
<1>2. CASE output_buffer_write
  <2>1. phase' = "ready" /\ NoTargets /\ UNCHANGED <<h, sub, print_decl>>
        /\ log' = <<Entry(0, "raw", buffer, <<>>)>>
    BY <1>2 DEF output_buffer_write
  <2>2. CountInv' BY <1>0, <2>1 DEF SafeInv, CountInv, NoTargets
  <2>3. CutInv' BY <1>0, <2>1 DEF SafeInv, CutInv, CutsInsideText
  <2>4. LogInv'
    <3>1. Entry(0, "raw", buffer, <<>>) \in Entries BY DEF SafeInv, TextInv, Entries, Entry
    <3>2. log' \in Seq(Entries) BY <2>1, <3>1
    <3>3. UnderDecl(log') BY <2>1 DEF UnderDecl, Entry
    <3> QED BY <1>0, <2>1, <3>2, <3>3 DEF SafeInv, LogInv
  <2> QED BY <1>1, <2>2, <2>3, <2>4 DEF SafeInv
<1>3. CASE match_output
  <2>1. phase = "walking" /\ phase' = "output" /\ UNCHANGED <<h, sub, print_decl, log>>
    BY <1>3 DEF match_output
  <2>2. CountInv' BY <1>0, <2>1 DEF SafeInv, CountInv, NoTargets, Tables
  <2>3. CutInv' BY <1>0, <2>1 DEF SafeInv, CutInv, CutsInsideText
  <2>4. LogInv' BY <1>0, <2>1 DEF SafeInv, LogInv, UnderDecl, HasDecl
  <2> QED BY <1>1, <2>2, <2>3, <2>4 DEF SafeInv
<1>4. CASE NextTable
  <2>1. /\ phase = "output" /\ h \in Tables /\ mcounter[h] = 0
        /\ h' = h + 1 /\ sub' = NoSub /\ print_decl' = TRUE /\ UNCHANGED <<phase, log>>
    BY <1>4 DEF NextTable
  <2>2. CountInv'
    <3>1. h' \in 1..4 BY <2>1 DEF Tables
    <3>2. ASSUME NEW t \in Tables, t < h' PROVE mcounter[t] = 0
      <4>1. t < h \/ t = h BY <2>1, <3>2 DEF Tables
      <4> QED BY <2>1, <4>1 DEF SafeInv, CountInv
    <3> QED BY <1>0, <2>1, <3>1, <3>2 DEF SafeInv, CountInv, NoTargets
  <2>3. CutInv' BY <1>0, <2>1 DEF SafeInv, CutInv, CutsInsideText, NoSub, Subs
  <2>4. LogInv' BY <1>0, <2>1 DEF SafeInv, LogInv, UnderDecl, HasDecl
  <2> QED BY <1>1, <2>2, <2>3, <2>4 DEF SafeInv
<1>5. CASE OutputDone
  <2>1. /\ phase = "output" /\ h \notin Tables /\ phase' = "ready"
        /\ UNCHANGED <<h, sub, print_decl, log>>
    BY <1>5 DEF OutputDone
  <2>2. CountInv'
    <3>1. \A t \in Tables : t < h BY <2>1 DEF SafeInv, CountInv, Tables
    <3> QED BY <1>0, <2>1, <3>1 DEF SafeInv, CountInv, NoTargets
  <2>3. CutInv' BY <1>0, <2>1 DEF SafeInv, CutInv, CutsInsideText
  <2>4. LogInv' BY <1>0, <2>1 DEF SafeInv, LogInv, UnderDecl, HasDecl
  <2> QED BY <1>1, <2>2, <2>3, <2>4 DEF SafeInv
<1> QED BY <1>2, <1>3, <1>4, <1>5

(* What process_output computes on its way. *)
NextSub == IF Found THEN WithNewline(next_fncall_to_substring) ELSE next_fncall_to_substring

Target ==
  IF Found /\ strchr(NextSub.start, "(") # 0 THEN Lookup(h, extract_fnname(NextSub)) ELSE 0

Listed == Target # 0 /\ h = REPORTS_ID /\ Patterns(h, Target) = <<>>

Added ==
  IF Target = 0 THEN <<>>
  ELSE IF Listed
  THEN (IF print_decl THEN dump_decl_output(h) ELSE <<>>) \o substring_write(h, NextSub)
  ELSE process_fncall(h, Target, NextSub)

LEMMA StepShape ==
  ASSUME process_output
  PROVE  /\ phase = "output" /\ h \in Tables /\ mcounter[h] > 0
         /\ mcounter' = [mcounter EXCEPT ![h] = @ - 1]
         /\ sub' = NextSub /\ log' = log \o Added /\ print_decl' = (print_decl /\ ~Listed)
         /\ UNCHANGED <<setup, phase, buffer, h, calls>>
BY DEF process_output, NextSub, Target, Listed, Added

LEMMA OffsetInside ==
  ASSUME SafeInv
  PROVE  Len(buffer) \in Nat /\ Offset \in 1..(Len(buffer) + 1)
<1>1. Len(buffer) \in Nat BY DEF SafeInv, TextInv
<1>2. CASE sub.start # 0
  <2>1. sub # NoSub /\ sub \in Subs BY <1>2 DEF NoSub, SafeInv, CutInv
  <2>2. 1 <= sub.start /\ sub.start <= sub.end /\ sub.end <= Len(buffer) + 1
    BY <2>1 DEF SafeInv, CutInv, CutsInsideText
  <2> QED BY <1>1, <1>2, <2>1, <2>2 DEF Offset, Subs
<1>3. CASE sub.start = 0
  <2>1. strchr(2, "\n") = 0 \/ strchr(2, "\n") \in 2..Len(buffer) BY <1>1, FirstPlace
  <2> QED BY <1>1, <1>3, <2>1 DEF Offset
<1> QED BY <1>1, <1>2, <1>3

(* The next substring is inside the text as well. *)
LEMMA CutGood ==
  ASSUME SafeInv
  PROVE  /\ NextSub \in Subs
         /\ Found => NextSub # NoSub
         /\ NextSub # NoSub => /\ 1 <= NextSub.start /\ NextSub.start <= NextSub.end
                               /\ NextSub.end <= Len(buffer) + 1
<1>. DEFINE p == strchr(Offset, "]")  cut == next_fncall_to_substring
<1>1. Len(buffer) \in Nat /\ Offset \in 1..(Len(buffer) + 1) BY OffsetInside
<1>2. sub \in Subs /\ (sub # NoSub => 1 <= sub.start /\ sub.start <= sub.end /\ sub.end <= Len(buffer) + 1)
  BY DEF SafeInv, CutInv, CutsInsideText
<1>3. CASE Found
  <2>1. p \in Offset..Len(buffer) /\ buffer[p] = "]" BY <1>1, <1>3, FirstPlace DEF Found
  <2>2. buffer # <<>> => buffer[Len(buffer)] = "\n" BY DEF SafeInv, TextInv
  <2>3. Len(buffer) > 0 BY <1>1, <2>1
  <2>4. buffer # <<>> BY <2>3
  <2>5. p # Len(buffer) BY <2>1, <2>2, <2>4
  <2>6. cut = [start |-> Offset, end |-> EndOf(p)] BY <1>3 DEF next_fncall_to_substring, Found
  <2>7. EndOf(p) = p + 2 /\ p \in Nat /\ p + 2 <= Len(buffer) + 1 BY <1>1, <2>1, <2>5 DEF EndOf
  <2> HIDE DEF p, cut
  <2>8. /\ cut \in Subs /\ 1 <= cut.start /\ cut.start <= cut.end /\ cut.end <= Len(buffer) + 1
        /\ cut.start = Offset
    BY <1>1, <2>1, <2>6, <2>7 DEF Subs
  <2>9. NextSub = WithNewline(cut) BY <1>3 DEF NextSub, cut
  <2>10. \/ NextSub = cut
         \/ NextSub = [cut EXCEPT !.end = @ + 1] /\ cut.end <= Len(buffer)
    BY <2>9 DEF WithNewline
  <2>11. /\ NextSub \in Subs /\ 1 <= NextSub.start /\ NextSub.start <= NextSub.end
         /\ NextSub.end <= Len(buffer) + 1
    BY <1>1, <2>8, <2>10 DEF Subs
  <2> QED BY <2>11 DEF NoSub
<1>4. CASE ~Found
  <2>1. NextSub = cut /\ p = 0 BY <1>4 DEF NextSub, Found
  <2>2. \/ cut = [start |-> Offset, end |-> Len(buffer) + 1]
        \/ cut = sub
    BY <2>1 DEF next_fncall_to_substring
  <2>3. CASE cut = sub BY <1>2, <1>4, <2>1, <2>3
  <2>4. CASE cut = [start |-> Offset, end |-> Len(buffer) + 1]
    BY <1>1, <1>4, <2>1, <2>4 DEF Subs
  <2> QED BY <2>2, <2>3, <2>4
<1> QED BY <1>3, <1>4

(***************************************************************************)
(* What is put out is a sequence of entries, each call below a             *)
(* declaration.                                                            *)
(***************************************************************************)
LEMMA TextType ==
  ASSUME buffer \in Seq(Lexemes), NEW from \in Nat \ {0}, NEW to \in Int, to <= Len(buffer) + 1
  PROVE  Text(from, to) \in Seq(Lexemes)
<1>1. \A i \in from..(to - 1) : buffer[i] \in Lexemes OBVIOUS
<1> QED BY <1>1, SubSeqProperties DEF Text

LEMMA DeclEntry ==
  ASSUME buffer \in Seq(Lexemes), NEW t \in Tables
  PROVE  /\ dump_decl_output(t) \in Seq(Entries)
         /\ ~HasDecl => dump_decl_output(t) = <<>>
         /\ HasDecl => /\ Len(dump_decl_output(t)) = 1
                       /\ dump_decl_output(t)[1].kind = "decl"
                       /\ dump_decl_output(t)[1].table = t
<1>. DEFINE to == strchr(2, "\n") + 1
            e == Entry(t, "decl", Text(1, to), <<>>)
<1>1. Len(buffer) \in Nat OBVIOUS
<1>2. strchr(2, "\n") = 0 \/ strchr(2, "\n") \in 2..Len(buffer) BY <1>1, FirstPlace
<1>3. Text(1, to) \in Seq(Lexemes)
  <2>1. to \in Int /\ to <= Len(buffer) + 1 BY <1>1, <1>2
  <2> HIDE DEF to
  <2> QED BY <2>1, TextType
<1>4. e \in Entries /\ e.kind = "decl" /\ e.table = t
  <2>1. t \in 0..3 BY DEF Tables
  <2> HIDE DEF to
  <2> QED BY <1>3, <2>1 DEF Entry, Entries
<1>5. dump_decl_output(t) = IF HasDecl THEN <<e>> ELSE <<>> BY DEF dump_decl_output
<1> HIDE DEF e
<1> QED BY <1>4, <1>5

LEMMA RawEntry ==
  ASSUME buffer \in Seq(Lexemes), NEW t \in Tables, NEW s \in Subs,
         1 <= s.start, s.end <= Len(buffer) + 1
  PROVE  /\ substring_write(t, s) \in Seq(Entries)
         /\ Len(substring_write(t, s)) = 1
         /\ substring_write(t, s)[1] = Entry(t, "raw", Text(s.start, s.end), <<>>)
         /\ substring_write(t, s)[1].kind = "raw"
<1>1. s.start \in Nat \ {0} /\ s.end \in Int BY DEF Subs
<1>2. Text(s.start, s.end) \in Seq(Lexemes) BY <1>1, TextType
<1>3. t \in 0..3 BY DEF Tables
<1>. DEFINE e == Entry(t, "raw", Text(s.start, s.end), <<>>)
<1>4. e \in Entries /\ e.kind = "raw" BY <1>2, <1>3 DEF Entry, Entries
<1>5. substring_write(t, s) = <<e>> BY DEF substring_write
<1> HIDE DEF e
<1> QED BY <1>4, <1>5 DEF e

LEMMA TableFacts ==
  ASSUME tables \in Builds, NEW t \in Tables
  PROVE  /\ Len(tables[t]) \in Nat /\ DOMAIN tables[t] = 1..Len(tables[t])
         /\ \A i \in DOMAIN tables[t] :
              /\ Len(Patterns(t, i)) \in Nat
              /\ DOMAIN Patterns(t, i) = 1..Len(Patterns(t, i))
              /\ \A k \in DOMAIN Patterns(t, i) : IsPattern(Patterns(t, i)[k])
<1>1. IsSequence(tables[t]) BY BuildsAssumption DEF Tables
<1>3. Len(tables[t]) \in Nat /\ DOMAIN tables[t] = 1..Len(tables[t]) BY <1>1 DEF IsSequence
<1>2. ASSUME NEW i \in DOMAIN tables[t]
      PROVE  /\ IsSequence(Patterns(t, i))
             /\ \A k \in DOMAIN Patterns(t, i) : IsPattern(Patterns(t, i)[k])
  BY BuildsAssumption DEF Tables, Patterns
<1>4. ASSUME NEW i \in DOMAIN tables[t]
      PROVE  /\ Len(Patterns(t, i)) \in Nat
             /\ DOMAIN Patterns(t, i) = 1..Len(Patterns(t, i))
  BY <1>2 DEF IsSequence
<1> QED BY <1>2, <1>3, <1>4

LEMMA LookupFacts ==
  ASSUME tables \in Builds, NEW t \in Tables, NEW text
  PROVE  \/ Lookup(t, text) = 0
         \/ Lookup(t, text) \in DOMAIN tables[t]
<1>. DEFINE I == {i \in 1..Len(tables[t]) : text = <<tables[t][i].name>>}
<1>1. Lookup(t, text) = IF I # {} THEN Min(I) ELSE 0 BY DEF Lookup, SelectInSeq
<1>2. I \subseteq Nat /\ I \subseteq DOMAIN tables[t] BY TableFacts
<1>3. CASE I # {}
  <2> HIDE DEF I
  <2>1. Min(I) \in I BY <1>2, <1>3, MinPlace
  <2> QED BY <1>1, <1>2, <1>3, <2>1
<1> QED BY <1>1, <1>3

LEMMA MessageType ==
  ASSUME tables \in Builds, NEW t \in Tables, NEW i \in DOMAIN tables[t],
         NEW k \in DOMAIN Patterns(t, i), NEW s
  PROVE  Message(t, i, k, s) \in STRING \cup {Null}
<1>. DEFINE pm == Patterns(t, i)[k]
<1>1. IsPattern(pm) BY TableFacts
<1>3. msg_extra(t, i, k, s) \in STRING \cup {Null}
  <2>1. ArgsOf(s) \in DOMAIN pm.match_args_func => pm.match_args_func[ArgsOf(s)] \in STRING
    BY <1>1 DEF IsPattern
  <2>2. AllOf(s) \in DOMAIN pm.match_all_func => pm.match_all_func[AllOf(s)] \in STRING
    BY <1>1 DEF IsPattern
  <2> QED BY <2>1, <2>2 DEF msg_extra
<1> QED BY <1>1, <1>3 DEF Message, IsPattern

LEMMA LocationType ==
  ASSUME buffer \in Seq(Lexemes), NEW s \in Subs, 1 <= s.start
  PROVE  extract_location(s) \in Seq(Lexemes)
<1>. DEFINE a == strrchr(s.start, "[")
            I == {j \in s.start..Len(buffer) : buffer[j] = "["}
<1>1. Len(buffer) \in Nat /\ s.start \in Nat BY DEF Subs
<1>2. a = IF I # {} THEN Max(I) ELSE 0 BY DEF strrchr, SelectLastInSubSeq
<1>3. a = 0 \/ a \in s.start..Len(buffer)
  <2>1. I \subseteq 0..Len(buffer) /\ I \subseteq s.start..Len(buffer) BY <1>1
  <2> HIDE DEF I, a
  <2>2. I # {} => Max(I) \in I BY <1>1, <2>1, MaxPlace
  <2> QED BY <1>2, <2>1, <2>2
<1> HIDE DEF a
<1>4. a + 1 \in Nat \ {0} BY <1>1, <1>3
<1>5. strchr(a + 1, "]") = 0 \/ strchr(a + 1, "]") \in (a + 1)..Len(buffer)
  BY <1>1, <1>4, FirstPlace
<1>6. strchr(a + 1, "]") \in Int /\ strchr(a + 1, "]") <= Len(buffer) + 1 BY <1>1, <1>4, <1>5
<1>7. Text(a + 1, strchr(a + 1, "]")) \in Seq(Lexemes) BY <1>4, <1>6, TextType
<1> QED BY <1>7 DEF extract_location, a

LEMMA MessageEntry ==
  ASSUME tables \in Builds, buffer \in Seq(Lexemes), NEW t \in Tables,
         NEW i \in DOMAIN tables[t], NEW k \in DOMAIN Patterns(t, i),
         NEW s \in Subs, 1 <= s.start
  PROVE  /\ output_fncall_results(t, i, k, s) \in Seq(Entries)
         /\ \A j \in DOMAIN output_fncall_results(t, i, k, s) :
              output_fncall_results(t, i, k, s)[j].kind = "message"
<1>. DEFINE e == Entry(t, "message", <<Message(t, i, k, s)>>, extract_location(s))
<1>1. Message(t, i, k, s) \in STRING \cup {Null} /\ extract_location(s) \in Seq(Lexemes)
  BY MessageType, LocationType
<1>2. t \in 0..3 BY DEF Tables
<1>3. e.kind = "message" /\ (Message(t, i, k, s) # Null => e \in Entries)
  BY <1>1, <1>2 DEF Entry, Entries
<1>4. output_fncall_results(t, i, k, s) = IF Message(t, i, k, s) = Null THEN <<>> ELSE <<e>>
  BY DEF output_fncall_results
<1> HIDE DEF e
<1> QED BY <1>3, <1>4

(* The entries of one pattern; and where it is a call, it is below a       *)
(* declaration unless an earlier pattern had a call.                       *)
LEMMA PatternEntries ==
  ASSUME tables \in Builds, buffer \in Seq(Lexemes), NEW t \in Tables,
         NEW i \in DOMAIN tables[t], NEW k \in DOMAIN Patterns(t, i),
         NEW s \in Subs, 1 <= s.start, s.end <= Len(buffer) + 1
  PROVE  /\ process_pattern(t, i, k, s) \in Seq(Entries)
         /\ ~RawCall(t, i, k, s) =>
              \A j \in DOMAIN process_pattern(t, i, k, s) :
                process_pattern(t, i, k, s)[j].kind # "raw"
         /\ HasDecl /\ RawCall(t, i, k, s) /\ (\A j \in 1..(k - 1) : ~RawCall(t, i, j, s)) =>
              /\ UnderDecl(process_pattern(t, i, k, s))
              /\ HasEntry(process_pattern(t, i, k, s), "decl")
<1>. DEFINE r == process_pattern(t, i, k, s)  d == dump_decl_output(t)  w == substring_write(t, s)
            m == output_fncall_results(t, i, k, s)
<1>1. r = IF ~Silent(Patterns(t, i)[k]) THEN m
          ELSE IF ~RawCall(t, i, k, s) THEN <<>>
          ELSE IF \E j \in 1..(k - 1) : RawCall(t, i, j, s) THEN w ELSE d \o w
  BY DEF process_pattern
<1>2. /\ d \in Seq(Entries)
      /\ HasDecl => Len(d) = 1 /\ d[1].kind = "decl"
      /\ w \in Seq(Entries) /\ Len(w) = 1
  BY DeclEntry, RawEntry
<1>3. m \in Seq(Entries) /\ \A j \in DOMAIN m : m[j].kind = "message" BY MessageEntry
<1>4. RawCall(t, i, k, s) => Silent(Patterns(t, i)[k]) BY DEF RawCall
<1> HIDE DEF r, d, w, m
<1>5. d \o w \in Seq(Entries) BY <1>2, ConcatProperties
<1>6. r \in Seq(Entries) BY <1>1, <1>2, <1>3, <1>5, EmptySeq
<1>7. ASSUME ~RawCall(t, i, k, s) PROVE \A j \in DOMAIN r : r[j].kind # "raw"
  <2>1. r = m \/ r = <<>> BY <1>1, <1>7
  <2> QED BY <1>3, <2>1
<1>8. ASSUME HasDecl, RawCall(t, i, k, s), \A j \in 1..(k - 1) : ~RawCall(t, i, j, s)
      PROVE  UnderDecl(r) /\ HasEntry(r, "decl")
  <2>1. r = d \o w BY <1>1, <1>4, <1>8
  <2>2. /\ Len(r) = 2 /\ DOMAIN r = 1..2 /\ r[1] = d[1]
    <3>1. Len(d) = 1 /\ Len(w) = 1 BY <1>2, <1>8
    <3>2. Len(d \o w) = Len(d) + Len(w)
          /\ \A j \in 1..(Len(d) + Len(w)) :
               (d \o w)[j] = IF j <= Len(d) THEN d[j] ELSE w[j - Len(d)]
      BY <1>2, ConcatProperties
    <3>3. Len(d \o w) = 2 /\ (d \o w)[1] = d[1] BY <3>1, <3>2
    <3>4. Len(r) = 2 /\ r[1] = d[1] BY <2>1, <3>3
    <3> QED BY <1>6, <3>4, LenProperties
  <2>3. r[1].kind = "decl" BY <1>2, <1>8, <2>2
  <2>4. HasEntry(r, "decl") BY <2>2, <2>3 DEF HasEntry
  <2>5. ASSUME NEW j \in DOMAIN r, r[j].kind = "raw"
        PROVE  \E n \in 1..(j - 1) : r[n].kind = "decl"
    <3>1. j = 2 BY <2>2, <2>3, <2>5
    <3> QED BY <2>3, <3>1
  <2> QED BY <2>4, <2>5 DEF UnderDecl
<1> QED BY <1>6, <1>7, <1>8 DEF r

LEMMA UnderConcat ==
  ASSUME NEW a \in Seq(Entries), NEW b \in Seq(Entries)
  PROVE  /\ a \o b \in Seq(Entries)
         /\ \A kind : HasEntry(a, kind) \/ HasEntry(b, kind) => HasEntry(a \o b, kind)
         /\ UnderDecl(a) /\ (UnderDecl(b) \/ HasEntry(a, "decl")) => UnderDecl(a \o b)
<1>. DEFINE r == a \o b  n == Len(a)  m == Len(b)
<1>1. n \in Nat /\ m \in Nat /\ DOMAIN a = 1..n /\ DOMAIN b = 1..m OBVIOUS
<1>2. /\ r \in Seq(Entries) /\ DOMAIN r = 1..(n + m)
      /\ \A i \in 1..(n + m) : r[i] = IF i <= n THEN a[i] ELSE b[i - n]
  <2>1. r \in Seq(Entries) /\ Len(r) = n + m BY ConcatProperties
  <2>2. \A i \in 1..(Len(a) + Len(b)) : r[i] = IF i <= Len(a) THEN a[i] ELSE b[i - Len(a)]
    <3>1. \A i \in 1..(Len(a) + Len(b)) :
            (a \o b)[i] = IF i <= Len(a) THEN a[i] ELSE b[i - Len(a)]
      BY ConcatProperties
    <3> QED BY <3>1
  <2> HIDE DEF r
  <2>3. DOMAIN r = 1..Len(r) BY <2>1, LenProperties
  <2> QED BY <2>1, <2>2, <2>3
<1> HIDE DEF r, n, m
<1>3. \A j \in 1..n : j \in 1..(n + m) /\ r[j] = a[j] BY <1>1, <1>2
<1>4. \A j \in 1..m : n + j \in 1..(n + m) /\ r[n + j] = b[j]
  <2>1. ASSUME NEW j \in 1..m PROVE n + j \in 1..(n + m) /\ ~(n + j <= n) /\ (n + j) - n = j
    BY <1>1
  <2> QED BY <1>2, <2>1
<1>5. \A kind : HasEntry(a, kind) \/ HasEntry(b, kind) => HasEntry(r, kind)
  BY <1>1, <1>2, <1>3, <1>4 DEF HasEntry
<1>6. ASSUME UnderDecl(a), UnderDecl(b) \/ HasEntry(a, "decl"),
             NEW j \in DOMAIN r, r[j].kind = "raw", r[j].table # 0
      PROVE  \E k \in 1..(j - 1) : r[k].kind = "decl"
  <2>1. CASE j <= n
    <3>1. j \in DOMAIN a /\ r[j] = a[j] BY <1>1, <1>2, <2>1
    <3>2. PICK k \in 1..(j - 1) : a[k].kind = "decl" BY <1>6, <3>1 DEF UnderDecl
    <3>3. k \in 1..n
      <4>1. j \in 1..(n + m) BY <1>2
      <4> QED BY <1>1, <2>1, <4>1
    <3> QED BY <1>3, <3>2, <3>3
  <2>2. CASE j > n /\ HasEntry(a, "decl")
    <3>1. PICK k \in 1..n : a[k].kind = "decl" BY <1>1, <2>2 DEF HasEntry
    <3>2. k \in 1..(j - 1) BY <1>1, <1>2, <2>2
    <3> QED BY <1>3, <3>1, <3>2
  <2>3. CASE j > n /\ UnderDecl(b)
    <3>1. j - n \in 1..m /\ r[j] = b[j - n] BY <1>1, <1>2, <2>3
    <3>2. PICK k \in 1..((j - n) - 1) : b[k].kind = "decl" BY <1>1, <1>6, <2>3, <3>1 DEF UnderDecl
    <3>3. k \in 1..m /\ n + k \in 1..(j - 1) BY <1>1, <1>2, <3>1
    <3> QED BY <1>4, <3>2, <3>3
  <2>4. j \in Int /\ n \in Int BY <1>1, <1>2
  <2> QED BY <1>6, <2>1, <2>2, <2>3, <2>4
<1>7. UnderDecl(a) /\ (UnderDecl(b) \/ HasEntry(a, "decl")) => UnderDecl(r)
  BY <1>6 DEF UnderDecl
<1> QED BY <1>2, <1>5, <1>7 DEF r

LEMMA FncallEntries ==
  ASSUME tables \in Builds, buffer \in Seq(Lexemes), NEW t \in Tables,
         NEW i \in DOMAIN tables[t],
         NEW s \in Subs, 1 <= s.start, s.end <= Len(buffer) + 1
  PROVE  /\ [k \in DOMAIN Patterns(t, i) |-> process_pattern(t, i, k, s)] \in Seq(Seq(Entries))
         /\ process_fncall(t, i, s) \in Seq(Entries)
         /\ HasDecl => UnderDecl(process_fncall(t, i, s))
<1>. DEFINE n == Len(Patterns(t, i))
            ps == [k \in DOMAIN Patterns(t, i) |-> process_pattern(t, i, k, s)]
            Raw(k) == RawCall(t, i, k, s)
            First(m) == FlattenSeq(SubSeq(ps, 1, m))
            T == {m \in 0..n :
                    /\ UnderDecl(First(m))
                    /\ (\E j \in 1..m : Raw(j)) => HasEntry(First(m), "decl")}
<1>1. n \in Nat /\ DOMAIN Patterns(t, i) = 1..n BY TableFacts
<1>2. \A k \in 1..n : process_pattern(t, i, k, s) \in Seq(Entries) BY <1>1, PatternEntries
<1>3. /\ ps \in Seq(Seq(Entries)) /\ Len(ps) = n
      /\ \A k \in 1..n : ps[k] = process_pattern(t, i, k, s)
  BY <1>1, <1>2
<1>4. process_fncall(t, i, s) = FlattenSeq(ps) BY DEF process_fncall
<1> HIDE DEF ps, n
<1>5. FlattenSeq(ps) \in Seq(Entries) BY <1>3, FlattenType
<1>6. ASSUME HasDecl PROVE UnderDecl(FlattenSeq(ps))
  <2>1. 0 \in T
    <3>1. First(0) = <<>>
      <4>1. SubSeq(ps, 1, 0) = <<>> BY SubSeqEmpty
      <4> QED BY <4>1, FlattenEmpty
    <3> HIDE DEF First
    <3>2. UnderDecl(First(0)) BY <3>1 DEF UnderDecl
    <3> QED BY <1>1, <3>2
  <2>2. ASSUME NEW k \in 1..n, k - 1 \in T PROVE k \in T
    <3>1. /\ First(k - 1) \in Seq(Entries) /\ First(k) = First(k - 1) \o ps[k]
          /\ ps[k] \in Seq(Entries)
      BY <1>2, <1>3, FlattenFront
    <3>2. k \in DOMAIN Patterns(t, i) /\ ps[k] = process_pattern(t, i, k, s) /\ k \in 0..n
      BY <1>1, <1>3
    <3>3. /\ ~Raw(k) => \A j \in DOMAIN ps[k] : ps[k][j].kind # "raw"
          /\ Raw(k) /\ (\A j \in 1..(k - 1) : ~Raw(j)) =>
               UnderDecl(ps[k]) /\ HasEntry(ps[k], "decl")
      BY <1>6, <3>2, PatternEntries
    <3>4. /\ UnderDecl(First(k - 1))
          /\ (\E j \in 1..(k - 1) : Raw(j)) => HasEntry(First(k - 1), "decl")
      BY <2>2
    <3> HIDE DEF First, Raw
    <3>5. CASE \E j \in 1..(k - 1) : Raw(j)
      <4>1. UnderDecl(First(k)) /\ HasEntry(First(k), "decl")
        BY <3>1, <3>4, <3>5, UnderConcat
      <4> QED BY <3>2, <4>1
    <3>6. CASE Raw(k) /\ \A j \in 1..(k - 1) : ~Raw(j)
      <4>1. UnderDecl(First(k)) /\ HasEntry(First(k), "decl")
        BY <3>1, <3>3, <3>4, <3>6, UnderConcat
      <4> QED BY <3>2, <4>1
    <3>7. CASE ~Raw(k) /\ \A j \in 1..(k - 1) : ~Raw(j)
      <4>1. UnderDecl(ps[k]) BY <3>3, <3>7 DEF UnderDecl
      <4>2. UnderDecl(First(k)) BY <3>1, <3>4, <4>1, UnderConcat
      <4>3. ~(\E j \in 1..k : Raw(j)) BY <1>1, <3>7
      <4> QED BY <3>2, <4>2, <4>3
    <3> QED BY <3>5, <3>6, <3>7
  <2>3. 0..n \subseteq T
    <3> HIDE DEF T
    <3> QED BY <1>1, <2>1, <2>2, UpTo
  <2>4. n \in T
    <3> HIDE DEF T
    <3> QED BY <1>1, <2>3
  <2>5. SubSeq(ps, 1, n) = ps BY <1>3, SubSeqFull
  <2> QED BY <2>4, <2>5
<1> QED BY <1>3, <1>4, <1>5, <1>6 DEF ps

(* What a step of the loop adds. *)
LEMMA AddedGood ==
  ASSUME SafeInv, h \in Tables
  PROVE  /\ Added \in Seq(Entries)
         /\ HasDecl /\ ~print_decl /\ HasEntry(log, "decl") /\ UnderDecl(log) =>
              UnderDecl(log \o Added)
         /\ HasDecl /\ print_decl => UnderDecl(Added)
         /\ HasDecl /\ print_decl /\ Listed => HasEntry(Added, "decl")
<1>. DEFINE s == NextSub  i == Target
<1>1. tables \in Builds /\ buffer \in Seq(Lexemes) /\ log \in Seq(Entries)
  BY DEF SafeInv, TextInv, LogInv
<1>2. CASE i = 0
  <2>1. Added = <<>> BY <1>2 DEF Added
  <2>2. ~Listed BY <1>2 DEF Listed
  <2>3. log \o <<>> = log BY <1>1, ConcatEmptySeq
  <2>4. UnderDecl(<<>>) BY DEF UnderDecl
  <2> QED BY <2>1, <2>2, <2>3, <2>4, EmptySeq
<1>3. CASE i # 0
  <2>1. Found BY <1>3 DEF Target
  <2>2. s \in Subs /\ 1 <= s.start /\ s.start <= s.end /\ s.end <= Len(buffer) + 1
    BY <2>1, CutGood
  <2>3. i \in DOMAIN tables[h] BY <1>1, <1>3, LookupFacts DEF Target
  <2>. DEFINE d == dump_decl_output(h)  w == substring_write(h, s)
  <2>4. /\ d \in Seq(Entries) /\ w \in Seq(Entries) /\ Len(w) = 1
        /\ HasDecl => Len(d) = 1 /\ d[1].kind = "decl"
    BY <1>1, <2>2, DeclEntry, RawEntry
  <2> HIDE DEF d, w
  <2>5. CASE ~Listed
    <3>1. Added = process_fncall(h, i, s) BY <1>3, <2>5 DEF Added
    <3>2. Added \in Seq(Entries) /\ (HasDecl => UnderDecl(Added))
      BY <1>1, <2>2, <2>3, <3>1, FncallEntries
    <3> QED BY <1>1, <2>5, <3>2, UnderConcat
  <2>6. CASE Listed /\ print_decl
    <3>1. Added = d \o w BY <1>3, <2>6 DEF Added, d, w
    <3>2. Added \in Seq(Entries) BY <2>4, <3>1, ConcatProperties
    <3>3. ASSUME HasDecl PROVE UnderDecl(Added) /\ HasEntry(Added, "decl")
      <4>1. d[1].kind = "decl" /\ DOMAIN d = 1..1 BY <2>4, <3>3
      <4>2. UnderDecl(d) BY <4>1 DEF UnderDecl
      <4>3. HasEntry(d, "decl") BY <4>1 DEF HasEntry
      <4> QED BY <2>4, <3>1, <4>2, <4>3, UnderConcat
    <3> QED BY <2>6, <3>2, <3>3
  <2>7. CASE Listed /\ ~print_decl
    <3>1. Added = <<>> \o w BY <1>3, <2>7 DEF Added, w
    <3>2. Added = w BY <2>4, <3>1, ConcatEmptySeq
    <3> QED BY <1>1, <2>4, <2>7, <3>2, UnderConcat
  <2>8. print_decl \in BOOLEAN BY DEF SafeInv, LogInv
  <2> QED BY <2>5, <2>6, <2>7, <2>8
<1> QED BY <1>2, <1>3

LEMMA SafeProcess == SafeInv /\ process_output => SafeInv'
<1> SUFFICES ASSUME SafeInv, process_output PROVE SafeInv' OBVIOUS
<1>0. /\ phase = "output" /\ h \in Tables /\ mcounter[h] > 0
      /\ mcounter' = [mcounter EXCEPT ![h] = @ - 1]
      /\ sub' = NextSub /\ log' = log \o Added /\ print_decl' = (print_decl /\ ~Listed)
      /\ UNCHANGED <<setup, phase, buffer, h, calls>>
  BY StepShape
<1>1. TextInv' BY <1>0 DEF SafeInv, TextInv, setup
<1>2. CountInv'
  <2>1. mcounter \in [Tables -> Nat] /\ Len(calls) \in Nat BY DEF SafeInv, CountInv, TextInv
  <2>2. mcounter' \in [Tables -> Nat] BY <1>0, <2>1
  <2>3. \A t \in Tables : mcounter'[t] <= mcounter[t] /\ (t # h => mcounter'[t] = mcounter[t])
    BY <1>0, <2>1
  <2>4. ~NoTargets BY <1>0 DEF SafeInv, CountInv
  <2>5. ~NoTargets' BY <1>0, <2>4 DEF NoTargets, setup
  <2>6. \A t \in Tables : mcounter'[t] <= Len(calls) BY <2>1, <2>2, <2>3 DEF SafeInv, CountInv
  <2>7. \A t \in Tables : t < h => mcounter'[t] = 0
    <3>1. ~(h < h) BY <1>0 DEF Tables
    <3> QED BY <1>0, <2>3, <3>1 DEF SafeInv, CountInv
  <2> QED BY <1>0, <2>2, <2>5, <2>6, <2>7 DEF SafeInv, CountInv
<1>3. CutInv'
  <2>1. CutsInsideText' BY <1>0, CutGood DEF CutsInsideText
  <2>2. sub' \in Subs BY <1>0, CutGood
  <2> QED BY <1>0, <2>1, <2>2 DEF CutInv
<1>4. LogInv'
  <2>1. log \in Seq(Entries) /\ Added \in Seq(Entries) /\ print_decl \in BOOLEAN
    BY <1>0, AddedGood DEF SafeInv, LogInv
  <2>2. log' \in Seq(Entries) BY <1>0, <2>1, UnderConcat
  <2>3. HasDecl' <=> HasDecl BY <1>0 DEF HasDecl
  <2>4. ASSUME HasDecl
        PROVE  UnderDecl(log') /\ (~print_decl' => HasEntry(log', "decl"))
    <3>1. UnderDecl(log) /\ (~print_decl => HasEntry(log, "decl"))
      BY <1>0, <2>4 DEF SafeInv, LogInv
    <3>2. CASE print_decl
      <4>1. UnderDecl(Added) /\ (Listed => HasEntry(Added, "decl")) BY <1>0, <2>4, <3>2, AddedGood
      <4> QED BY <1>0, <2>1, <3>1, <3>2, <4>1, UnderConcat
    <3>3. CASE ~print_decl
      <4>1. UnderDecl(log \o Added) BY <1>0, <2>4, <3>1, <3>3, AddedGood
      <4> QED BY <1>0, <2>1, <3>1, <3>3, <4>1, UnderConcat
    <3> QED BY <2>1, <3>2, <3>3
  <2> QED BY <1>0, <2>1, <2>2, <2>3, <2>4 DEF LogInv
<1> QED BY <1>1, <1>2, <1>3, <1>4 DEF SafeInv

LEMMA SafeNext == SafeInv /\ [Next]_vars => SafeInv'
<1> SUFFICES ASSUME SafeInv, [Next]_vars PROVE SafeInv' OBVIOUS
<1>1. CASE init_hash \/ populate_hash_target \/ fncalls_match_init \/ fncalls_match_finish
  BY <1>1, SafeLoad
<1>2. CASE StartFunction BY <1>2, SafeStart
<1>3. CASE WalkCall BY <1>3, SafeWalk
<1>4. CASE output_buffer_write \/ match_output \/ NextTable \/ OutputDone BY <1>4, SafeOutput
<1>5. CASE process_output BY <1>5, SafeProcess
<1>6. CASE UNCHANGED vars
  <2>1. TextInv' BY <1>6 DEF SafeInv, TextInv, vars, setup
  <2>2. CountInv' BY <1>6 DEF SafeInv, CountInv, NoTargets, vars, setup
  <2>3. CutInv' BY <1>6 DEF SafeInv, CutInv, CutsInsideText, vars
  <2>4. LogInv' BY <1>6 DEF SafeInv, LogInv, UnderDecl, HasEntry, HasDecl, vars
  <2> QED BY <2>1, <2>2, <2>3, <2>4 DEF SafeInv
<1> QED BY <1>1, <1>2, <1>3, <1>4, <1>5, <1>6 DEF Next

LEMMA SafeImplies == SafeInv => TypeOK /\ CutsInsideText /\ RawUnderDecl
<1> SUFFICES ASSUME SafeInv PROVE TypeOK /\ CutsInsideText /\ RawUnderDecl OBVIOUS
<1>1. CutsInsideText BY DEF SafeInv, CutInv
<1>2. RawUnderDecl BY DEF SafeInv, LogInv, RawUnderDecl, UnderDecl
<1>3. mcounter \in [Tables -> 0..Len(Locs)]
  <2>1. Len(calls) \in Nat /\ Len(Locs) \in Nat /\ Len(calls) <= Len(Locs)
    BY TextsAssumption DEF SafeInv, TextInv, IsSequence
  <2>2. \A t \in Tables : mcounter[t] \in 0..Len(Locs) BY <2>1 DEF SafeInv, CountInv
  <2> QED BY <2>2 DEF SafeInv, CountInv
<1>4. TypeOK BY <1>3 DEF SafeInv, CountInv, TextInv, TypeOK
<1> QED BY <1>1, <1>2, <1>4

(* The buffer is cut inside its text, whatever brackets the arguments      *)
(* have; every counter is back at zero between functions; and no call is   *)
(* written to the log before the declaration of its function.              *)
THEOREM MatcherSafe == Spec => [](TypeOK /\ CutsInsideText /\ RawUnderDecl)
<1>1. Init => SafeInv BY SafeInit
<1>2. SafeInv /\ [Next]_vars => SafeInv' BY SafeNext
<1>3. SafeInv => TypeOK /\ CutsInsideText /\ RawUnderDecl BY SafeImplies
<1> QED BY <1>1, <1>2, <1>3, PTL DEF Spec

(***************************************************************************)
(* Loading: a pattern with an expression for the arguments has it          *)
(* compiled, and no expression for the whole call ever is.                 *)
(***************************************************************************)
ArgsCompiled(t, i) ==
  \A k \in DOMAIN Patterns(t, i) :
    Patterns(t, i)[k].args # NoRegex => <<t, i, k, "args">> \in compiled

Loaded == \A t \in Tables : \A i \in DOMAIN tables[t] : ArgsCompiled(t, i)

LoadInv ==
  /\ at \in (1..4) \X Nat
  /\ \A t, i, k : <<t, i, k, "all">> \notin compiled
  /\ \A t, i, k : <<t, i, k, "args">> \in compiled => Patterns(t, i)[k].args # NoRegex
  /\ phase = "off" =>
       \A t \in Tables : \A i \in DOMAIN tables[t] :
         t < at[1] \/ (t = at[1] /\ i < at[2]) => ArgsCompiled(t, i)
  /\ phase \in {"ready", "walking", "output"} => Loaded

LEMMA LoadInit == Init => LoadInv
<1> SUFFICES ASSUME Init PROVE LoadInv OBVIOUS
<1>1. at = <<1, 0>> /\ compiled = {} /\ phase = "off" /\ tables \in Builds BY DEF Init
<1>2. \A t \in Tables : \A i \in DOMAIN tables[t] : ~(t < 1) /\ ~(i < 0)
  BY <1>1, TableFacts DEF Tables
<1> QED BY <1>1, <1>2 DEF LoadInv

(* A target none of whose patterns fails has its expressions compiled. *)
LEMMA TargetCompiled ==
  ASSUME NEW t, NEW i, \A k \in DOMAIN Patterns(t, i) : ~Fails(t, i, k),
         DOMAIN Patterns(t, i) = 1..Len(Patterns(t, i)), Len(Patterns(t, i)) \in Nat,
         NEW k \in DOMAIN Patterns(t, i), Patterns(t, i)[k].args # NoRegex
  PROVE  <<t, i, k, "args">> \in compile_regexp_match(t, i)
<1>1. Wants(t, i, k, "args") BY DEF Wants
<1>2. init_regexp(t, i, k, "args") BY <1>1 DEF Fails
<1>3. \A j \in 1..(k - 1) : ~Fails(t, i, j) OBVIOUS
<1>. DEFINE Q == {q \in (DOMAIN Patterns(t, i)) \X {"args", "all"} :
        /\ Wants(t, i, q[1], q[2]) /\ init_regexp(t, i, q[1], q[2])
        /\ \A j \in 1..(q[1] - 1) : ~Fails(t, i, j)}
<1>4. <<k, "args">> \in Q BY <1>1, <1>2, <1>3
<1>5. compile_regexp_match(t, i) = {<<t, i, p[1], p[2]>> : p \in Q} BY DEF compile_regexp_match
<1> HIDE DEF Q
<1> QED BY <1>4, <1>5

LEMMA NoneOverAll ==
  ASSUME LoadInv, NEW t, NEW i, NEW u, NEW j, NEW k
  PROVE  <<u, j, k, "all">> \notin compile_regexp_match(t, i)
<1>1. SUFFICES ASSUME <<u, j, k, "all">> \in compile_regexp_match(t, i) PROVE FALSE OBVIOUS
<1>2. PICK q \in (DOMAIN Patterns(t, i)) \X {"args", "all"} :
        Wants(t, i, q[1], q[2]) /\ <<u, j, k, "all">> = <<t, i, q[1], q[2]>>
  BY <1>1 DEF compile_regexp_match
<1>3. Wants(t, i, q[1], "all") BY <1>2
<1>4. <<t, i, q[1], "all">> \in compiled BY <1>3 DEF Wants, WantsAll
<1> QED BY <1>4 DEF LoadInv

LEMMA ArgsWanted ==
  ASSUME NEW t, NEW i, NEW u, NEW j, NEW k,
         <<u, j, k, "args">> \in compile_regexp_match(t, i)
  PROVE  Patterns(u, j)[k].args # NoRegex
<1>1. PICK q \in (DOMAIN Patterns(t, i)) \X {"args", "all"} :
        Wants(t, i, q[1], q[2]) /\ <<u, j, k, "args">> = <<t, i, q[1], q[2]>>
  BY DEF compile_regexp_match
<1>2. Wants(u, j, k, "args") BY <1>1
<1> QED BY <1>2 DEF Wants

LEMMA LoadNext ==
  ASSUME SafeInv, LoadInv, [Next]_vars
  PROVE  LoadInv'
<1>0. tables \in Builds /\ tables' = tables
  BY DEF SafeInv, TextInv, Next, vars, setup, init_hash, populate_hash_target, fncalls_match_init,
     fncalls_match_finish, StartFunction, WalkCall, output_buffer_write, match_output, NextTable,
     process_output, OutputDone
<1>1. CASE UNCHANGED setup /\ (phase' = phase \/ {phase, phase'} \subseteq {"ready", "walking", "output"})
  BY <1>1 DEF LoadInv, Loaded, ArgsCompiled, Patterns, setup
<1>2. CASE init_hash
  <2>1. /\ phase = "off" /\ at[1] \in Tables /\ at[2] = 0 /\ compiled' = compiled
        /\ \/ tables[at[1]] = <<>> /\ at' = <<at[1] + 1, 0>> /\ phase' = phase
           \/ tables[at[1]] # <<>> /\ at' = <<at[1], 1>> /\ phase' = phase
           \/ phase' = "failed" /\ at' = at
    BY <1>2 DEF init_hash, Load
  <2>2. at' \in (1..4) \X Nat BY <2>1 DEF LoadInv, Tables
  <2>3. ASSUME phase' = "off", NEW t \in Tables, NEW i \in DOMAIN tables[t],
               t < at'[1] \/ (t = at'[1] /\ i < at'[2])
        PROVE  ArgsCompiled(t, i)
    <3>1. i \in Nat /\ i > 0 BY <1>0, TableFacts
    <3>2. at[1] \in 1..4 BY DEF LoadInv
    <3>3. t < at[1] BY <2>1, <2>3, <3>1, <3>2 DEF Tables
    <3> QED BY <2>1, <3>3 DEF LoadInv
  <2> QED BY <1>0, <2>1, <2>2, <2>3 DEF LoadInv, ArgsCompiled, Patterns
<1>3. CASE populate_hash_target
  <2>. DEFINE t == at[1]  i == at[2]
  <2>1. /\ phase = "off" /\ t \in Tables /\ i > 0 /\ compiled \subseteq compiled'
        /\ compiled' \subseteq compiled \cup compile_regexp_match(t, i)
        /\ \/ phase' = "failed" /\ at' = at
           \/ /\ phase' = phase /\ compiled' = compiled \cup compile_regexp_match(t, i)
              /\ \A k \in DOMAIN Patterns(t, i) : ~Fails(t, i, k)
              /\ at' = IF i = Len(tables[t]) THEN <<t + 1, 0>> ELSE <<t, i + 1>>
    BY <1>3 DEF populate_hash_target, Load
  <2>2. at \in (1..4) \X Nat /\ at[1] \in 1..4 /\ at[2] \in Nat BY DEF LoadInv
  <2>3. at' \in (1..4) \X Nat BY <2>1, <2>2 DEF Tables
  <2>4. \A u, j, k : <<u, j, k, "all">> \notin compiled' BY <2>1, NoneOverAll DEF LoadInv
  <2>7. \A u, j, k : <<u, j, k, "args">> \in compiled' => Patterns(u, j)[k].args # NoRegex
    BY <2>1, ArgsWanted DEF LoadInv
  <2>5. ASSUME phase' = "off", NEW u \in Tables, NEW j \in DOMAIN tables[u],
               u < at'[1] \/ (u = at'[1] /\ j < at'[2])
        PROVE  ArgsCompiled(u, j)'
    <3>1. j \in 1..Len(tables[u]) /\ Len(tables[u]) \in Nat BY <1>0, TableFacts
    <3>2. u < t \/ (u = t /\ j < i) \/ (u = t /\ j = i)
      BY <2>1, <2>2, <2>5, <3>1 DEF Tables
    <3>3. CASE u < t \/ (u = t /\ j < i)
      <4>1. ArgsCompiled(u, j) BY <2>1, <3>3 DEF LoadInv
      <4> QED BY <1>0, <2>1, <4>1 DEF ArgsCompiled, Patterns
    <3>4. CASE u = t /\ j = i
      <4>1. compiled' = compiled \cup compile_regexp_match(u, j)
            /\ \A k \in DOMAIN Patterns(u, j) : ~Fails(u, j, k)
        BY <2>1, <2>5, <3>4
      <4>2. DOMAIN Patterns(u, j) = 1..Len(Patterns(u, j)) /\ Len(Patterns(u, j)) \in Nat
        BY <1>0, TableFacts
      <4>3. \A k \in DOMAIN Patterns(u, j) :
              Patterns(u, j)[k].args # NoRegex => <<u, j, k, "args">> \in compiled'
        BY <4>1, <4>2, TargetCompiled
      <4> QED BY <1>0, <4>3 DEF ArgsCompiled, Patterns
    <3> QED BY <3>2, <3>3, <3>4
  <2> HIDE DEF t, i
  <2>6. phase' \in {"off", "failed"} BY <2>1
  <2> QED BY <1>0, <2>3, <2>4, <2>5, <2>6, <2>7 DEF LoadInv, Patterns
<1>4. CASE fncalls_match_init
  <2>1. phase = "off" /\ at[1] \notin Tables /\ phase' = "ready" /\ UNCHANGED <<at, compiled>>
    BY <1>4 DEF fncalls_match_init, setup
  <2>2. at[1] = 4 BY <2>1 DEF LoadInv, Tables
  <2>3. Loaded BY <2>1, <2>2 DEF LoadInv, Loaded, Tables
  <2> QED BY <1>0, <2>1, <2>3 DEF LoadInv, Loaded, ArgsCompiled, Patterns
<1>5. CASE fncalls_match_finish
  <2>1. phase' = "finished" /\ at' = at /\ compiled' = {} BY <1>5 DEF fncalls_match_finish
  <2> QED BY <2>1 DEF LoadInv
<1>6. CASE StartFunction BY <1>1, <1>6 DEF StartFunction
<1>7. CASE WalkCall BY <1>1, <1>7 DEF WalkCall
<1>8. CASE output_buffer_write BY <1>1, <1>8 DEF output_buffer_write
<1>9. CASE match_output BY <1>1, <1>9 DEF match_output
<1>10. CASE NextTable BY <1>1, <1>10 DEF NextTable
<1>11. CASE process_output BY <1>1, <1>11 DEF process_output
<1>12. CASE OutputDone BY <1>1, <1>12 DEF OutputDone
<1>13. CASE UNCHANGED vars BY <1>1, <1>13 DEF vars
<1> QED BY <1>2, <1>3, <1>4, <1>5, <1>6, <1>7, <1>8, <1>9, <1>10, <1>11, <1>12, <1>13 DEF Next

(***************************************************************************)
(* The lines in a text b of the calls cs: st has the place each begins at, *)
(* and the place after the last.                                           *)
(***************************************************************************)
LineAt(b, p, c) == \A n \in 1..Len(CallLine(c)) : b[p + n - 1] = CallLine(c)[n]

Layout(b, cs, st) ==
  /\ st \in [1..(Len(cs) + 1) -> 1..(Len(b) + 1)]
  /\ \/ st[1] = 1
     \/ st[1] = 12 /\ \A i \in 1..11 : b[i] = DeclLine[i]
  /\ st[Len(cs) + 1] = Len(b) + 1
  /\ \A j \in 1..Len(cs) : LineAt(b, st[j], cs[j]) /\ st[j + 1] = st[j] + Len(CallLine(cs[j]))

(* One more line. *)
LEMMA LayoutAppend ==
  ASSUME NEW b \in Seq(Lexemes), NEW cs \in Seq(Calls), NEW st, Layout(b, cs, st), NEW c \in Calls
  PROVE  \E r : Layout(b \o CallLine(c), Append(cs, c), r)
<1>. DEFINE m == Len(cs)  l == Len(b)  n == Len(CallLine(c))
            B == b \o CallLine(c)  C == Append(cs, c)
            r == [j \in 1..(m + 2) |-> IF j = m + 2 THEN l + 1 + n ELSE st[j]]
<1>1. m \in Nat /\ l \in Nat /\ n \in Nat /\ n > 0 /\ CallLine(c) \in Seq(Lexemes) BY LineShape
<1>2. Len(C) = m + 1 /\ C[m + 1] = c /\ \A j \in 1..m : C[j] = cs[j] BY AppendProperties
<1>3. /\ Len(B) = l + n
      /\ \A i \in 1..l : B[i] = b[i]
      /\ \A i \in 1..n : B[l + i] = CallLine(c)[i]
  <2>1. /\ Len(B) = Len(b) + Len(CallLine(c))
        /\ \A i \in 1..(Len(b) + Len(CallLine(c))) :
             B[i] = IF i <= Len(b) THEN b[i] ELSE CallLine(c)[i - Len(b)]
    BY <1>1, ConcatProperties
  <2>. HIDE DEF B
  <2>2. /\ Len(B) = l + n
        /\ \A i \in 1..(l + n) : B[i] = IF i <= l THEN b[i] ELSE CallLine(c)[i - l]
    BY <2>1
  <2> HIDE DEF l, n
  <2>3. \A i \in 1..l : i \in 1..(l + n) /\ i <= l BY <1>1
  <2>4. \A i \in 1..n : l + i \in 1..(l + n) /\ ~(l + i <= l) /\ (l + i) - l = i BY <1>1
  <2> QED BY <2>2, <2>3, <2>4
<1>4. /\ st \in [1..(m + 1) -> 1..(l + 1)] /\ st[m + 1] = l + 1
      /\ st[1] = 1 \/ (st[1] = 12 /\ \A i \in 1..11 : b[i] = DeclLine[i])
      /\ \A j \in 1..m : LineAt(b, st[j], cs[j]) /\ st[j + 1] = st[j] + Len(CallLine(cs[j]))
  BY DEF Layout
<1>5. ASSUME NEW j \in 1..m PROVE Len(CallLine(cs[j])) \in Nat
  BY ElementOfSeq, LineShape
<1> HIDE DEF m, l, n, B, C
<1>6. r \in [1..(m + 2) -> 1..(l + n + 1)] BY <1>1, <1>4
<1>7. r[m + 2] = l + n + 1 /\ \A j \in 1..(m + 1) : r[j] = st[j] BY <1>1
<1> HIDE DEF r
<1>8. ASSUME NEW j \in 1..m
      PROVE  LineAt(B, r[j], C[j]) /\ r[j + 1] = r[j] + Len(CallLine(C[j]))
  <2>1. /\ j \in 1..(m + 1) /\ j + 1 \in 1..(m + 1) /\ C[j] = cs[j] BY <1>1, <1>2
  <2>2. /\ r[j] = st[j] /\ r[j + 1] = st[j + 1]
        /\ st[j] \in 1..(l + 1) /\ st[j + 1] \in 1..(l + 1)
    BY <1>4, <1>7, <2>1
  <2>3. st[j + 1] = st[j] + Len(CallLine(cs[j])) /\ LineAt(b, st[j], cs[j]) BY <1>4
  <2>4. ASSUME NEW k \in 1..Len(CallLine(cs[j]))
        PROVE  B[st[j] + k - 1] = CallLine(cs[j])[k]
    <3>1. Len(CallLine(cs[j])) \in Nat BY <1>5
    <3>2. st[j] + k - 1 \in 1..l BY <1>1, <2>2, <2>3, <3>1, SMTT(30)
    <3>3. b[st[j] + k - 1] = CallLine(cs[j])[k] BY <2>3 DEF LineAt
    <3> QED BY <1>3, <3>2, <3>3
  <2> QED BY <2>1, <2>2, <2>3, <2>4 DEF LineAt
<1>9. LineAt(B, r[m + 1], C[m + 1]) /\ r[m + 2] = r[m + 1] + Len(CallLine(C[m + 1]))
  <2>1. m + 1 \in 1..(m + 1) BY <1>1
  <2>2. r[m + 1] = l + 1 /\ C[m + 1] = c BY <1>2, <1>4, <1>7, <2>1
  <2>3. ASSUME NEW k \in 1..n PROVE B[(l + 1) + k - 1] = CallLine(c)[k]
    <3>1. (l + 1) + k - 1 = l + k BY <1>1
    <3> QED BY <1>3, <3>1
  <2>4. r[m + 2] = (l + 1) + n BY <1>1, <1>7
  <2> QED BY <2>2, <2>3, <2>4 DEF LineAt, n
<1>10. r[1] = 1 \/ (r[1] = 12 /\ \A i \in 1..11 : B[i] = DeclLine[i])
  <2>1. 1 \in 1..(m + 1) BY <1>1
  <2>2. r[1] = st[1] /\ st[1] \in 1..(l + 1) BY <1>4, <1>7, <2>1
  <2>3. st[1] = 12 => \A i \in 1..11 : i \in 1..l BY <1>1, <2>2
  <2> QED BY <1>3, <1>4, <2>2, <2>3
<1>11. Layout(B, C, r)
  <2>1. \A j \in 1..(m + 1) : j \in 1..m \/ j = m + 1 BY <1>1
  <2>2. m + 1 + 1 = m + 2 /\ l + n + 1 = Len(B) + 1 BY <1>1, <1>3
  <2>3. \A j \in 1..(m + 1) :
          LineAt(B, r[j], C[j]) /\ r[j + 1] = r[j] + Len(CallLine(C[j]))
    BY <1>8, <1>9, <2>1, <2>2
  <2> QED BY <1>2, <1>3, <1>6, <1>7, <1>10, <2>2, <2>3 DEF Layout
<1> QED BY <1>11 DEF B, C

(* Where a line has the lexemes that are searched for. *)
PlainCall(c) == \A x \in {"[", "]"} : \A n \in DOMAIN c.args : c.args[n] # x

LEMMA LineSpots ==
  ASSUME NEW c \in Calls, PlainCall(c)
  PROVE  /\ \A i \in 1..(Len(c.args) + 9) : CallLine(c)[i] # "]"
         /\ \A i \in 5..(Len(c.args) + 7) : i # Len(c.args) + 7 => CallLine(c)[i] # "["
         /\ \A i \in 1..4 : CallLine(c)[i] # "("
         /\ CallLine(c)[4] # Blank /\ CallLine(c)[5] # Blank
<1>. DEFINE n == Len(c.args)  L == CallLine(c)
<1>1. /\ n \in Nat
      /\ L[1] = Blank /\ L[2] = "<@>" /\ L[3] = Blank /\ L[4] = c.name /\ L[5] = "("
      /\ \A i \in 1..n : L[5 + i] = c.args[i]
      /\ L[n + 6] = ")" /\ L[n + 7] = Blank /\ L[n + 8] = "[" /\ L[n + 9] = c.loc
  BY LineShape
<1>2. /\ c.name # Blank /\ c.name # "(" /\ c.name # "]" /\ c.loc # "]"
      /\ DOMAIN c.args = 1..n
  BY CallFacts, LenProperties
<1>3. \A i \in 1..n : c.args[i] # "[" /\ c.args[i] # "]" BY <1>2 DEF PlainCall
<1> HIDE DEF n, L
<1>4. ASSUME NEW i \in 6..(n + 5) PROVE L[i] # "[" /\ L[i] # "]"
  <2>1. i - 5 \in 1..n /\ 5 + (i - 5) = i BY <1>1
  <2> QED BY <1>1, <1>3, <2>1
<1>5. /\ "<@>" # "]" /\ "(" # "]" /\ ")" # "]" /\ "[" # "]"
      /\ "(" # "[" /\ ")" # "[" /\ "<@>" # "("
  OBVIOUS
<1>6. ASSUME NEW i \in 1..(n + 9) PROVE L[i] # "]"
  <2>1. \/ i = 1 \/ i = 2 \/ i = 3 \/ i = 4 \/ i = 5 \/ i \in 6..(n + 5)
        \/ i = n + 6 \/ i = n + 7 \/ i = n + 8 \/ i = n + 9
    BY <1>1
  <2> QED BY <1>1, <1>2, <1>4, <1>5, <2>1, LexemesDiffer
<1>7. ASSUME NEW i \in 5..(n + 7), i # n + 7 PROVE L[i] # "["
  <2>1. i = 5 \/ i \in 6..(n + 5) \/ i = n + 6 BY <1>1, <1>7
  <2> QED BY <1>1, <1>4, <1>5, <2>1
<1>8. ASSUME NEW i \in 1..4 PROVE L[i] # "("
  <2>1. i = 1 \/ i = 2 \/ i = 3 \/ i = 4 OBVIOUS
  <2> QED BY <1>1, <1>2, <1>5, <2>1, LexemesDiffer
<1>9. L[4] # Blank /\ L[5] # Blank BY <1>1, <1>2, LexemesDiffer
<1> QED BY <1>6, <1>7, <1>8, <1>9 DEF n, L

(* A part of a line is the part of the text where the line is. *)
LEMMA TextOfLine ==
  ASSUME NEW c \in Calls, NEW a \in Nat \ {0}, LineAt(buffer, a, c), buffer \in Seq(Lexemes),
         NEW x \in 1..Len(CallLine(c)), NEW y \in x..Len(CallLine(c))
  PROVE  Text(a + x - 1, a + y) = SubSeq(CallLine(c), x, y)
<1>. DEFINE L == CallLine(c)  p == a + x - 1  q == a + y - 1
            s == SubSeq(buffer, p, q)  t == SubSeq(L, x, y)
<1>1. /\ L \in Seq(Lexemes) /\ Len(L) \in Nat /\ x \in Nat /\ y \in Nat /\ x <= y
      /\ y <= Len(L) /\ x >= 1
  BY LineShape
<1>2. \A i \in 1..Len(L) : buffer[a + i - 1] = L[i] BY DEF LineAt
<1> HIDE DEF L
<1>3. \A i \in x..y : L[i] \in Lexemes BY <1>1
<1>4. /\ t \in Seq(Lexemes) /\ Len(t) = y - x + 1
      /\ \A i \in 1..(y - x + 1) : t[i] = L[x + i - 1]
  BY <1>1, <1>3, SubSeqProperties
<1>5. p \in Int /\ q \in Int /\ p <= q /\ q - p + 1 = y - x + 1 BY <1>1
<1>6. \A i \in p..q : buffer[i] \in Lexemes
  <2>1. ASSUME NEW i \in p..q PROVE i - a + 1 \in x..y /\ i - a + 1 \in 1..Len(L) /\ a + (i - a + 1) - 1 = i
    BY <1>1
  <2> QED BY <1>2, <1>3, <2>1
<1>7. /\ s \in Seq(Lexemes) /\ Len(s) = y - x + 1
      /\ \A i \in 1..(y - x + 1) : s[i] = buffer[p + i - 1]
  <2> HIDE DEF p, q
  <2> QED BY <1>5, <1>6, SubSeqProperties
<1>8. \A i \in 1..(y - x + 1) : s[i] = t[i]
  <2>1. ASSUME NEW i \in 1..(y - x + 1)
        PROVE  x + i - 1 \in 1..Len(L) /\ a + (x + i - 1) - 1 = p + i - 1
    BY <1>1
  <2> HIDE DEF p, s, t
  <2> QED BY <1>2, <1>4, <1>7, <2>1
<1>9. s = t
  <2> HIDE DEF s, t
  <2> QED BY <1>1, <1>4, <1>7, <1>8, SeqEqual
<1>10. Text(a + x - 1, a + y) = s BY DEF Text
<1> QED BY <1>9, <1>10 DEF L

LEMMA CallTextSub ==
  ASSUME NEW c \in Calls
  PROVE  CallText(c) = SubSeq(CallLine(c), 5, Len(c.args) + 6)
<1>. DEFINE n == Len(c.args)  L == CallLine(c)  t == SubSeq(L, 5, n + 6)  y == CallText(c)
<1>1. /\ n \in Nat /\ L \in Seq(Lexemes) /\ Len(L) = n + 11
      /\ L[5] = "(" /\ L[n + 6] = ")" /\ \A i \in 1..n : L[5 + i] = c.args[i]
  BY LineShape
<1>2. /\ y \in Seq(Lexemes) /\ Len(y) = n + 2 /\ y[1] = "(" /\ y[n + 2] = ")"
      /\ \A i \in 1..n : y[1 + i] = c.args[i]
  BY CallTextShape
<1> HIDE DEF n, L, y
<1>3. \A i \in 5..(n + 6) : L[i] \in Lexemes BY <1>1
<1>4. 5 \in Int /\ n + 6 \in Int /\ 5 <= n + 6 /\ n + 6 - 5 + 1 = n + 2 BY <1>1
<1>5. /\ t \in Seq(Lexemes) /\ Len(t) = n + 2
      /\ \A i \in 1..(n + 2) : t[i] = L[5 + i - 1]
  <2>. DEFINE p == 5  q == n + 6
  <2>1. /\ p \in Int /\ q \in Int /\ p <= q /\ q - p + 1 = n + 2
        /\ \A i \in p..q : L[i] \in Lexemes
    <3>1. p \in Int /\ q \in Int /\ p <= q /\ q - p + 1 = n + 2 BY <1>1
    <3>2. \A i \in p..q : L[i] \in Lexemes BY <1>3
    <3> QED BY <3>1, <3>2
  <2> HIDE DEF p, q
  <2>2. /\ SubSeq(L, p, q) \in Seq(Lexemes) /\ Len(SubSeq(L, p, q)) = n + 2
        /\ \A i \in 1..(n + 2) : SubSeq(L, p, q)[i] = L[p + i - 1]
    BY <2>1, SubSeqProperties
  <2> QED BY <2>2 DEF p, q
<1> HIDE DEF t
<1>6. ASSUME NEW i \in 1..(n + 2) PROVE y[i] = t[i]
  <2>1. i = 1 \/ i = n + 2 \/ i - 1 \in 1..n BY <1>1
  <2>2. CASE i = 1
    <3>1. 5 + 1 - 1 = 5 OBVIOUS
    <3> QED BY <1>1, <1>2, <1>5, <2>2, <3>1
  <2>3. CASE i = n + 2
    <3>1. 5 + (n + 2) - 1 = n + 6 BY <1>1
    <3> QED BY <1>1, <1>2, <1>5, <2>3, <3>1
  <2>4. CASE i - 1 \in 1..n
    <3>1. 1 + (i - 1) = i /\ 5 + (i - 1) = 5 + i - 1 BY <1>1
    <3>2. y[1 + (i - 1)] = c.args[i - 1] BY <1>2, <2>4
    <3>3. L[5 + (i - 1)] = c.args[i - 1] BY <1>1, <2>4
    <3> QED BY <1>5, <3>1, <3>2, <3>3
  <2> QED BY <2>1, <2>2, <2>3, <2>4
<1>7. y = t BY <1>2, <1>5, <1>6, SeqEqual
<1> QED BY <1>7 DEF y, t, L, n

(***************************************************************************)
(* The next substring is the next line.                                    *)
(***************************************************************************)
(* The substring is at the line of call n, or before the first.            *)
CutAt(st, n) ==
  IF n = 0 THEN sub = NoSub ELSE sub = [start |-> st[n], end |-> st[n + 1]]

LEMMA NextOffset ==
  ASSUME TextInv, NEW st, Layout(buffer, calls, st), NEW n \in 0..(Len(calls) - 1), CutAt(st, n)
  PROVE  Offset = st[n + 1]
<1>1. Len(calls) \in Nat /\ Len(buffer) \in Nat /\ n \in Nat BY DEF TextInv
<1>2. \A j \in 1..(Len(calls) + 1) : st[j] \in 1..(Len(buffer) + 1) BY DEF Layout
<1>3. CASE n # 0
  <2>1. sub = [start |-> st[n], end |-> st[n + 1]] BY <1>3 DEF CutAt
  <2>2. st[n] # 0
    <3>1. n \in 1..(Len(calls) + 1) BY <1>1, <1>3
    <3> QED BY <1>1, <1>2, <3>1
  <2> QED BY <2>1, <2>2 DEF Offset
<1>4. CASE n = 0
  <2>1. sub.start = 0 BY <1>4 DEF CutAt, NoSub
  <2>2. 1 \in 1..Len(calls) /\ 1 \in 1..(Len(calls) + 1) /\ 1 + 1 = 2 /\ 2 \in 1..(Len(calls) + 1)
    BY <1>1, <1>4
  <2>3. calls[1] \in Calls BY <2>2, ElementOfSeq DEF TextInv
  <2>4. st[2] = st[1] + Len(CallLine(calls[1])) /\ LineAt(buffer, st[1], calls[1])
    BY <2>2 DEF Layout
  <2>5. Len(CallLine(calls[1])) \in Nat /\ Len(CallLine(calls[1])) >= 11
    BY <2>3, LineShape, SMTT(30)
  <2>6. st[1] \in Nat /\ st[1] + 10 <= Len(buffer) BY <1>1, <1>2, <2>2, <2>4, <2>5
  <2>7. CASE st[1] = 1
    <3>1. 2 \in 1..Len(CallLine(calls[1])) /\ 1 + 2 - 1 = 2 BY <2>5
    <3>2. buffer[2] = "<@>" BY <2>3, <2>4, <2>7, <3>1, LineShape DEF LineAt
    <3>3. ~HasDecl BY <3>2 DEF HasDecl
    <3> QED BY <1>4, <2>1, <2>7, <3>3 DEF Offset
  <2>8. CASE st[1] = 12 /\ \A i \in 1..11 : buffer[i] = DeclLine[i]
    <3>1. 11 \in 2..Len(buffer) /\ Len(buffer) > 1 BY <1>1, <2>6, <2>8, SMTT(30)
    <3>2. buffer[2] = "<function_decl>" /\ buffer[11] = "\n" BY <2>8, DeclFacts
    <3>3. \A i \in 2..10 : buffer[i] # "\n" BY <2>8, DeclFacts
    <3>4. strchr(2, "\n") = 11
      <4>1. \A i \in 2..(11 - 1) : buffer[i] # "\n" BY <3>3
      <4>. DEFINE p == 11  f == 2
      <4>2. p \in f..Len(buffer) /\ buffer[p] = "\n" /\ f \in Nat \ {0} BY <3>1, <3>2
      <4>3. \A i \in f..(p - 1) : buffer[i] # "\n" BY <4>1
      <4> HIDE DEF p, f
      <4>4. strchr(f, "\n") = p BY <1>1, <4>2, <4>3, FoundAt
      <4> QED BY <4>4 DEF p, f
    <3>5. HasDecl BY <3>1, <3>2 DEF HasDecl
    <3> QED BY <1>4, <2>1, <2>8, <3>4, <3>5 DEF Offset
  <2> QED BY <2>7, <2>8 DEF Layout
<1> QED BY <1>3, <1>4

LEMMA NextCut ==
  ASSUME TextInv, NEW st, Layout(buffer, calls, st), NEW n \in 0..(Len(calls) - 1), CutAt(st, n),
         PlainCall(calls[n + 1])
  PROVE  LET c == calls[n + 1] IN
         /\ c \in Calls /\ Found
         /\ NextSub = [start |-> st[n + 1], end |-> st[n + 2]]
         /\ strchr(NextSub.start, "(") # 0
         /\ extract_fnname(NextSub) = <<c.name>>
         /\ ArgsOf(NextSub) = CallText(c)
         /\ AllOf(NextSub) = LineText(c)
         /\ Text(NextSub.start, NextSub.end) = CallLine(c)
<1>. DEFINE c == calls[n + 1]  L == CallLine(c)  k == Len(c.args)  a == st[n + 1]
<1>1. /\ Len(calls) \in Nat /\ Len(buffer) \in Nat /\ n \in Nat
      /\ buffer \in Seq(Lexemes) /\ calls \in Seq(Calls)
      /\ n + 1 \in 1..Len(calls) /\ n + 1 \in 1..(Len(calls) + 1) /\ n + 2 \in 1..(Len(calls) + 1)
      /\ (n + 1) + 1 = n + 2
  BY DEF TextInv
<1>2. c \in Calls BY <1>1, ElementOfSeq
<1>3. /\ a \in 1..(Len(buffer) + 1) /\ st[n + 2] \in 1..(Len(buffer) + 1)
      /\ st[n + 2] = a + Len(L) /\ LineAt(buffer, a, c)
  BY <1>1 DEF Layout
<1> HIDE DEF c
<1>4. k \in Nat /\ Len(L) = k + 11 /\ L \in Seq(Lexemes) BY <1>2, LineShape
<1>5. a \in Nat /\ a >= 1 /\ a + k + 10 <= Len(buffer) BY <1>1, <1>3, <1>4, SMTT(30)
<1>6. ASSUME NEW i \in 1..(k + 11) PROVE buffer[a + i - 1] = L[i] /\ a + i - 1 \in 1..Len(buffer)
  <2>1. i \in 1..Len(L) /\ a + i - 1 \in 1..Len(buffer) BY <1>1, <1>4, <1>5, SMTT(30)
  <2>2. buffer[a + i - 1] = L[i] BY <1>3, <2>1 DEF LineAt
  <2> QED BY <2>1, <2>2
<1>7. /\ L[3] = Blank /\ L[4] = c.name /\ L[5] = "(" /\ L[k + 8] = "[" /\ L[k + 10] = "]"
  BY <1>2, LineShape
<1>8. PlainCall(c) BY DEF c
<1>9. /\ \A i \in 1..(k + 9) : L[i] # "]"
      /\ \A i \in 5..(k + 7) : L[i] # "["
      /\ \A i \in 1..4 : L[i] # "("
      /\ L[4] # Blank /\ L[5] # Blank
  <2>1. L[k + 7] = Blank BY <1>2, LineShape
  <2> QED BY <1>2, <1>8, <2>1, LineSpots, LexemesDiffer
<1>10. Offset = a BY NextOffset
<1> HIDE DEF L, k, a
(* A place of the line in the buffer. *)
<1>11. strchr(a, "]") = a + k + 9
  <2>1. k + 10 \in 1..(k + 11) /\ a + (k + 10) - 1 = a + k + 9 BY <1>4, <1>5
  <2>2. buffer[a + k + 9] = "]"
    <3>1. buffer[a + (k + 10) - 1] = L[k + 10] BY <1>6, <2>1
    <3> QED BY <1>7, <2>1, <3>1
  <2>3. ASSUME NEW i \in a..(a + k + 8) PROVE buffer[i] # "]"
    <3>1. i - a + 1 \in 1..(k + 9) /\ i - a + 1 \in 1..(k + 11) /\ a + (i - a + 1) - 1 = i
      BY <1>4, <1>5
    <3> QED BY <1>6, <1>9, <3>1
  <2>. DEFINE p == a + k + 9
  <2>4. p - 1 = a + k + 8 BY <1>4, <1>5
  <2>5. \A i \in a..(p - 1) : buffer[i] # "]" BY <2>3, <2>4
  <2>6. p \in a..Len(buffer) /\ buffer[p] = "]" /\ a \in Nat \ {0} BY <1>1, <1>4, <1>5, <2>2
  <2> HIDE DEF p
  <2>7. strchr(a, "]") = p BY <1>1, <2>5, <2>6, FoundAt
  <2> QED BY <2>7 DEF p
<1>12. strchr(a, "(") = a + 4
  <2>1. 5 \in 1..(k + 11) /\ a + 5 - 1 = a + 4 BY <1>4, <1>5
  <2>2. buffer[a + 4] = "("
    <3>1. buffer[a + 5 - 1] = L[5] BY <1>6, <2>1
    <3> QED BY <1>7, <2>1, <3>1
  <2>3. ASSUME NEW i \in a..(a + 3) PROVE buffer[i] # "("
    <3>1. i - a + 1 \in 1..4 /\ i - a + 1 \in 1..(k + 11) /\ a + (i - a + 1) - 1 = i
      BY <1>4, <1>5
    <3> QED BY <1>6, <1>9, <3>1
  <2>. DEFINE p == a + 4
  <2>4. p - 1 = a + 3 BY <1>5
  <2>5. \A i \in a..(p - 1) : buffer[i] # "(" BY <2>3, <2>4
  <2>6. p \in a..Len(buffer) /\ buffer[p] = "(" /\ a \in Nat \ {0} BY <1>1, <1>4, <1>5, <2>2
  <2> HIDE DEF p
  <2>7. strchr(a, "(") = p BY <1>1, <2>5, <2>6, FoundAt
  <2> QED BY <2>7 DEF p
<1>13. strchr(a + 4, "[") = a + k + 7
  <2>1. k + 8 \in 1..(k + 11) /\ a + (k + 8) - 1 = a + k + 7 BY <1>4, <1>5
  <2>. DEFINE p == a + k + 7  f == a + 4
  <2>2. buffer[p] = "[" /\ p \in f..Len(buffer)
    <3>1. buffer[a + (k + 8) - 1] = L[k + 8] BY <1>6, <2>1
    <3>2. buffer[p] = "[" BY <1>7, <2>1, <3>1
    <3>3. p \in f..Len(buffer) BY <1>1, <1>4, <1>5
    <3> QED BY <3>2, <3>3
  <2>3. ASSUME NEW i \in f..(p - 1) PROVE buffer[i] # "["
    <3>1. i - a + 1 \in 5..(k + 7) /\ i - a + 1 \in 1..(k + 11) /\ a + (i - a + 1) - 1 = i
      BY <1>4, <1>5
    <3> QED BY <1>6, <1>9, <3>1
  <2>4. f \in Nat \ {0} BY <1>5
  <2> HIDE DEF p, f
  <2>5. strchr(f, "[") = p BY <1>1, <2>2, <2>3, <2>4, FoundAt
  <2> QED BY <2>5 DEF p, f
<1>14. Found BY <1>4, <1>5, <1>10, <1>11 DEF Found
<1>15. NextSub = [start |-> a, end |-> st[n + 2]]
  <2>. DEFINE e == st[n + 2]
  <2>1. next_fncall_to_substring = [start |-> a, end |-> e]
    <3>1. EndOf(a + k + 9) = e BY <1>3, <1>4, <1>5 DEF EndOf
    <3>2. a + k + 9 # 0 BY <1>4, <1>5
    <3> QED BY <1>10, <1>11, <3>1, <3>2 DEF next_fncall_to_substring
  <2>2. ~(e <= Len(buffer) /\ buffer[e] = "\n")
    <3>1. SUFFICES ASSUME e <= Len(buffer) PROVE buffer[e] # "\n" OBVIOUS
    <3>2. e # Len(buffer) + 1 BY <1>1, <1>3, <3>1
    <3>3. n + 2 # Len(calls) + 1 BY <3>2 DEF Layout
    <3>4. n + 2 \in 1..Len(calls) BY <1>1, <3>3
    <3>5. LineAt(buffer, e, calls[n + 2]) /\ calls[n + 2] \in Calls
      BY <1>1, <3>4, ElementOfSeq DEF Layout
    <3>6. /\ CallLine(calls[n + 2])[1] = Blank /\ Len(CallLine(calls[n + 2])) \in Nat
          /\ Len(CallLine(calls[n + 2])) >= 11
      BY <3>5, LineShape, SMTT(30)
    <3>7. 1 \in 1..Len(CallLine(calls[n + 2])) /\ e + 1 - 1 = e BY <1>3, <3>6
    <3>8. buffer[e] = Blank BY <3>5, <3>6, <3>7 DEF LineAt
    <3> QED BY <3>8, LexemesDiffer
  <2> HIDE DEF e
  <2>3. WithNewline([start |-> a, end |-> e]) = [start |-> a, end |-> e]
    BY <2>2 DEF WithNewline
  <2> QED BY <1>14, <2>1, <2>3 DEF NextSub, e
<1>16. extract_fnname(NextSub) = <<c.name>>
  <2>1. NextSub.start = a BY <1>15
  <2>. DEFINE q == a + 4  p == a + 2
  <2>2. /\ q \in 1..Len(buffer) /\ p \in 1..q /\ p + 1 = a + 3 BY <1>4, <1>5
  <2>3. /\ 3 \in 1..(k + 11) /\ a + 3 - 1 = p /\ 4 \in 1..(k + 11) /\ a + 4 - 1 = a + 3
        /\ 5 \in 1..(k + 11) /\ a + 5 - 1 = q
    BY <1>4, <1>5
  <2>4. buffer[p] = L[3] /\ buffer[a + 3] = L[4] /\ buffer[q] = L[5] BY <1>6, <2>3
  <2>5. \A i \in (p + 1)..q : i = a + 3 \/ i = q BY <1>5
  <2>6. \A i \in (p + 1)..q : buffer[i] # Blank BY <1>9, <2>4, <2>5
  <2>7. buffer[p] = Blank BY <1>7, <2>4
  <2>8. strchr(a, "(") = q BY <1>12
  <2>9. Text(p + 1, q) = <<c.name>>
    <3>1. p + 1 = a + 4 - 1 /\ q = a + 4 BY <1>5
    <3>2. 4 \in 1..Len(L) /\ 4 \in 4..Len(L) /\ a \in Nat \ {0} BY <1>4, <1>5
    <3>3. Text(a + 4 - 1, a + 4) = SubSeq(L, 4, 4)
      BY <1>1, <1>2, <1>3, <3>2, TextOfLine DEF L
    <3>4. SubSeq(L, 4, 4) = <<L[4]>>
      <4>1. SubSeq(L, 4, 4) = SubSeq(L, 4, 4 - 1) \o <<L[4]>>
        BY <1>4, <3>2, SubSeqRecursiveSecond
      <4>2. SubSeq(L, 4, 4 - 1) = <<>> BY SubSeqEmpty
      <4>3. <<L[4]>> \in Seq({L[4]}) OBVIOUS
      <4> QED BY <4>1, <4>2, <4>3, ConcatEmptySeq
    <3> QED BY <1>7, <3>1, <3>3, <3>4
  <2> HIDE DEF p, q
  <2>10. SelectLastInSubSeq(buffer, 1, q, LAMBDA x : x = Blank) = p
    BY <1>1, <2>2, <2>6, <2>7, LastBlankAt
  <2> QED BY <2>1, <2>8, <2>9, <2>10 DEF extract_fnname
<1>17. ArgsOf(NextSub) = CallText(c)
  <2>. DEFINE p == a + 4  q == a + k + 7
  <2>1. NextSub.start = a /\ strchr(a, "(") = p /\ strchr(p, "[") = q BY <1>12, <1>13, <1>15
  <2>2. q - 1 = a + (k + 6) /\ p = a + 5 - 1 BY <1>4, <1>5
  <2>3. 5 \in 1..Len(L) /\ k + 6 \in 5..Len(L) /\ a \in Nat \ {0} BY <1>4, <1>5
  <2>4. Text(a + 5 - 1, a + (k + 6)) = SubSeq(L, 5, k + 6)
    BY <1>1, <1>2, <1>3, <2>3, TextOfLine DEF L
  <2>5. CallText(c) = SubSeq(L, 5, k + 6) BY <1>2, CallTextSub DEF L, k
  <2> HIDE DEF p, q
  <2>6. ArgsOf(NextSub) = Text(p, q - 1) BY <2>1 DEF ArgsOf
  <2> QED BY <2>2, <2>4, <2>5, <2>6
<1>18. AllOf(NextSub) = LineText(c)
  <2>1. NextSub.start = a BY <1>15
  <2>2. a + k + 9 = a + (k + 9) /\ a = a + 1 - 1 /\ Len(L) - 2 = k + 9 BY <1>4, <1>5
  <2>3. 1 \in 1..Len(L) /\ k + 9 \in 1..Len(L) /\ a \in Nat \ {0} BY <1>4, <1>5
  <2>4. Text(a + 1 - 1, a + (k + 9)) = SubSeq(L, 1, k + 9)
    BY <1>1, <1>2, <1>3, <2>3, TextOfLine DEF L
  <2>5. AllOf(NextSub) = Text(a, a + k + 9) BY <1>11, <2>1 DEF AllOf
  <2>6. LineText(c) = SubSeq(L, 1, k + 9) BY <2>2 DEF LineText, L
  <2> QED BY <2>2, <2>4, <2>5, <2>6
<1>19. Text(NextSub.start, NextSub.end) = L
  <2>1. NextSub.start = a /\ NextSub.end = st[n + 2] BY <1>15
  <2>2. st[n + 2] = a + Len(L) /\ a = a + 1 - 1 BY <1>3, <1>5
  <2>3. 1 \in 1..Len(L) /\ Len(L) \in 1..Len(L) /\ a \in Nat \ {0} BY <1>4, <1>5
  <2>4. Text(a + 1 - 1, a + Len(L)) = SubSeq(L, 1, Len(L))
    BY <1>1, <1>2, <1>3, <2>3, TextOfLine DEF L
  <2>5. SubSeq(L, 1, Len(L)) = L BY <1>4, SubSeqFull
  <2> QED BY <2>1, <2>2, <2>4, <2>5
<1>20. strchr(NextSub.start, "(") # 0 BY <1>5, <1>12, <1>15
<1> QED BY <1>2, <1>14, <1>15, <1>16, <1>17, <1>18, <1>19, <1>20 DEF c, L, a

(***************************************************************************)
(* What entries say.                                                       *)
(***************************************************************************)
What == Seq(Lexemes) \cup Seq(STRING)

Says(entries, t) ==
  [j \in DOMAIN entries |->
     IF entries[j].table = t /\ entries[j].kind # "decl" THEN <<entries[j].what>> ELSE <<>>]

LEMMA SaysType ==
  ASSUME NEW a \in Seq(Entries), NEW t
  PROVE  /\ Says(a, t) \in Seq(Seq(What)) /\ Len(Says(a, t)) = Len(a)
         /\ SaidIn(a, t) = FlattenSeq(Says(a, t)) /\ SaidIn(a, t) \in Seq(What)
<1>. DEFINE n == Len(a)  r == Says(a, t)
<1>1. n \in Nat /\ DOMAIN a = 1..n BY LenProperties
<1>2. ASSUME NEW j \in 1..n PROVE r[j] \in Seq(What)
  <2>1. a[j] \in Entries BY ElementOfSeq
  <2>2. a[j].what \in What BY <2>1 DEF Entries, What
  <2>3. r[j] = <<a[j].what>> \/ r[j] = <<>> BY <1>1 DEF Says
  <2>4. <<a[j].what>> \in Seq(What) BY <2>2
  <2>5. <<>> \in Seq(What) OBVIOUS
  <2> HIDE DEF r
  <2> QED BY <2>3, <2>4, <2>5
<1>3. r = [j \in 1..n |-> r[j]] BY <1>1 DEF Says
<1> HIDE DEF n, r
<1>4. r \in Seq(Seq(What)) /\ Len(r) = n BY <1>1, <1>2, <1>3
<1>5. FlattenSeq(r) \in Seq(What) BY <1>4, FlattenType
<1>6. SaidIn(a, t) = FlattenSeq(r) BY DEF SaidIn, Says, r
<1> QED BY <1>4, <1>5, <1>6 DEF n, r

LEMMA SaidConcat ==
  ASSUME NEW a \in Seq(Entries), NEW b \in Seq(Entries), NEW t
  PROVE  SaidIn(a \o b, t) = SaidIn(a, t) \o SaidIn(b, t)
<1>. DEFINE n == Len(a)  m == Len(b)  c == a \o b
            x == Says(a, t)  y == Says(b, t)  z == Says(c, t)  u == x \o y
<1>1. /\ n \in Nat /\ m \in Nat /\ DOMAIN a = 1..n /\ DOMAIN b = 1..m BY LenProperties
<1>2. /\ c \in Seq(Entries) /\ Len(c) = n + m
      /\ \A i \in 1..(n + m) : c[i] = IF i <= n THEN a[i] ELSE b[i - n]
  BY ConcatProperties
<1> HIDE DEF c
<1>3. DOMAIN c = 1..(n + m) BY <1>2, LenProperties
<1>4. /\ x \in Seq(Seq(What)) /\ Len(x) = n /\ y \in Seq(Seq(What)) /\ Len(y) = m
      /\ z \in Seq(Seq(What)) /\ Len(z) = n + m
  BY <1>2, SaysType
<1>5. /\ \A i \in 1..n : x[i] = IF a[i].table = t /\ a[i].kind # "decl" THEN <<a[i].what>> ELSE <<>>
      /\ \A i \in 1..m : y[i] = IF b[i].table = t /\ b[i].kind # "decl" THEN <<b[i].what>> ELSE <<>>
      /\ \A i \in 1..(n + m) :
           z[i] = IF c[i].table = t /\ c[i].kind # "decl" THEN <<c[i].what>> ELSE <<>>
  BY <1>1, <1>3 DEF Says
<1> HIDE DEF n, m, x, y, z
<1>6. /\ u \in Seq(Seq(What)) /\ Len(u) = Len(x) + Len(y)
      /\ \A i \in 1..(Len(x) + Len(y)) : u[i] = IF i <= Len(x) THEN x[i] ELSE y[i - Len(x)]
  BY <1>4, ConcatProperties
<1> HIDE DEF u
<1>7. ASSUME NEW i \in 1..(n + m) PROVE u[i] = z[i]
  <2>1. CASE i <= n
    <3>1. i \in 1..n /\ c[i] = a[i] /\ u[i] = x[i] BY <1>1, <1>2, <1>4, <1>6, <2>1
    <3> QED BY <1>5, <3>1
  <2>2. CASE ~(i <= n)
    <3>1. i - n \in 1..m /\ c[i] = b[i - n] /\ u[i] = y[i - n] BY <1>1, <1>2, <1>4, <1>6, <2>2
    <3> QED BY <1>5, <3>1
  <2> QED BY <2>1, <2>2
<1>8. u = z BY <1>4, <1>6, <1>7, SeqEqual
<1>9. FlattenSeq(x \o y) = FlattenSeq(x) \o FlattenSeq(y) BY <1>4, FlattenConcat
<1>10. SaidIn(a, t) = FlattenSeq(x) /\ SaidIn(b, t) = FlattenSeq(y) BY SaysType DEF x, y
<1>11. SaidIn(c, t) = FlattenSeq(z) BY <1>2, SaysType DEF z
<1> QED BY <1>8, <1>9, <1>10, <1>11 DEF u, c

LEMMA SaidOne ==
  ASSUME NEW e \in Entries, NEW t
  PROVE  SaidIn(<<e>>, t) = IF e.table = t /\ e.kind # "decl" THEN <<e.what>> ELSE <<>>
<1>. DEFINE x == IF e.table = t /\ e.kind # "decl" THEN <<e.what>> ELSE <<>>
<1>1. e.what \in What BY DEF Entries, What
<1>2. x \in Seq(What) BY <1>1
<1>3. Says(<<e>>, t) = <<x>>
  <2>1. DOMAIN <<e>> = {1} /\ <<e>>[1] = e OBVIOUS
  <2>2. Says(<<e>>, t) = [j \in {1} |-> x] BY <2>1 DEF Says
  <2> HIDE DEF x
  <2>3. <<x>> = [j \in {1} |-> x] OBVIOUS
  <2> QED BY <2>2, <2>3
<1> HIDE DEF x
<1>4. FlattenSeq(<<x>>) = x
  <2>1. <<x>> = Append(<<>>, x) /\ <<>> \in Seq(Seq(What)) OBVIOUS
  <2>2. FlattenSeq(Append(<<>>, x)) = FlattenSeq(<<>>) \o x BY <1>2, <2>1, FlattenAppend
  <2> QED BY <1>2, <2>1, <2>2, FlattenEmpty, ConcatEmptySeq
<1>5. <<e>> \in Seq(Entries) OBVIOUS
<1>6. SaidIn(<<e>>, t) = FlattenSeq(Says(<<e>>, t)) BY <1>5, SaysType
<1> QED BY <1>3, <1>4, <1>6 DEF x

LEMMA SaidEmpty == \A t : SaidIn(<<>>, t) = <<>>
<1> TAKE t
<1>1. <<>> \in Seq(Entries) OBVIOUS
<1>2. Says(<<>>, t) \in Seq(Seq(What)) /\ Len(Says(<<>>, t)) = 0 BY <1>1, SaysType
<1>3. Says(<<>>, t) = <<>>
  <2>. DEFINE r == Says(<<>>, t)
  <2> HIDE DEF r
  <2> QED BY <1>2, EmptySeq DEF r
<1> QED BY <1>1, <1>3, SaysType, FlattenEmpty

(* What joined entries say is what they say, joined. *)
LEMMA SaidFlatten ==
  ASSUME NEW ss \in Seq(Seq(Entries)), NEW t
  PROVE  /\ [k \in 1..Len(ss) |-> SaidIn(ss[k], t)] \in Seq(Seq(What))
         /\ SaidIn(FlattenSeq(ss), t) = FlattenSeq([k \in 1..Len(ss) |-> SaidIn(ss[k], t)])
<1>. DEFINE n == Len(ss)
            xs == [k \in 1..n |-> SaidIn(ss[k], t)]
            First(m) == FlattenSeq(SubSeq(ss, 1, m))
            Joined(m) == FlattenSeq(SubSeq(xs, 1, m))
            T == {m \in 0..n : SaidIn(First(m), t) = Joined(m)}
<1>1. n \in Nat /\ \A k \in 1..n : ss[k] \in Seq(Entries) BY ElementOfSeq
<1>2. \A k \in 1..n : SaidIn(ss[k], t) \in Seq(What) BY <1>1, SaysType
<1>3. xs \in Seq(Seq(What)) /\ Len(xs) = n /\ \A k \in 1..n : xs[k] = SaidIn(ss[k], t)
  BY <1>1, <1>2
<1> HIDE DEF xs
<1>4. 0 \in T
  <2>1. First(0) = <<>> /\ Joined(0) = <<>>
    <3>1. SubSeq(ss, 1, 0) = <<>> /\ SubSeq(xs, 1, 0) = <<>> BY SubSeqEmpty
    <3> QED BY <3>1, FlattenEmpty
  <2> HIDE DEF First, Joined
  <2>2. SaidIn(First(0), t) = Joined(0) BY <2>1, SaidEmpty
  <2> QED BY <1>1, <2>2
<1>5. ASSUME NEW k \in 1..n, k - 1 \in T PROVE k \in T
  <2>1. First(k) = First(k - 1) \o ss[k] /\ First(k - 1) \in Seq(Entries) BY FlattenFront
  <2>2. Joined(k) = Joined(k - 1) \o xs[k] BY <1>3, FlattenFront
  <2>3. SaidIn(First(k - 1), t) = Joined(k - 1) BY <1>5
  <2> HIDE DEF First, Joined
  <2>4. SaidIn(First(k - 1) \o ss[k], t) = SaidIn(First(k - 1), t) \o SaidIn(ss[k], t)
    BY <1>1, <2>1, SaidConcat
  <2>5. SaidIn(First(k), t) = Joined(k) BY <1>3, <2>1, <2>2, <2>3, <2>4
  <2>6. k \in 0..n BY <1>1
  <2> QED BY <2>5, <2>6
<1>6. 0..n \subseteq T
  <2> HIDE DEF T
  <2> QED BY <1>1, <1>4, <1>5, UpTo
<1>7. n \in T
  <2> HIDE DEF T
  <2> QED BY <1>1, <1>6
<1>8. SubSeq(ss, 1, n) = ss /\ SubSeq(xs, 1, n) = xs BY <1>3, SubSeqFull
<1>9. SaidIn(FlattenSeq(ss), t) = FlattenSeq(xs) BY <1>7, <1>8
<1> QED BY <1>3, <1>9 DEF xs

(* The entries of the matcher, one by one. *)
LEMMA DeclSays ==
  ASSUME buffer \in Seq(Lexemes), NEW t \in Tables, NEW u
  PROVE  SaidIn(dump_decl_output(t), u) = <<>>
<1>. DEFINE d == dump_decl_output(t)
<1>1. /\ d \in Seq(Entries)
      /\ d = <<>> \/ (Len(d) = 1 /\ d[1].kind = "decl")
  <2>1. ~HasDecl => d = <<>> BY DeclEntry
  <2>2. HasDecl => Len(d) = 1 /\ d[1].kind = "decl" BY DeclEntry
  <2>3. d \in Seq(Entries) BY DeclEntry
  <2> QED BY <2>1, <2>2, <2>3
<1> HIDE DEF d
<1>2. CASE d = <<>> BY <1>2, SaidEmpty DEF d
<1>3. CASE Len(d) = 1 /\ d[1].kind = "decl"
  <2>0. 1 \in 1..Len(d) BY <1>3
  <2>1. d[1] \in Entries /\ d = <<d[1]>>
    <3>1. d[1] \in Entries BY <1>1, <2>0, ElementOfSeq
    <3>2. <<d[1]>> \in Seq(Entries) /\ Len(<<d[1]>>) = 1 /\ <<d[1]>>[1] = d[1] BY <3>1
    <3>3. \A i \in 1..1 : i = 1 OBVIOUS
    <3> QED BY <1>1, <1>3, <3>1, <3>2, <3>3, SeqEqual
  <2>2. SaidIn(<<d[1]>>, u) = <<>> BY <1>3, <2>1, SaidOne
  <2> QED BY <2>1, <2>2 DEF d
<1> QED BY <1>1, <1>2, <1>3

LEMMA RawSays ==
  ASSUME buffer \in Seq(Lexemes), NEW t \in Tables, NEW s \in Subs,
         1 <= s.start, s.end <= Len(buffer) + 1, NEW u
  PROVE  SaidIn(substring_write(t, s), u) = IF u = t THEN <<Text(s.start, s.end)>> ELSE <<>>
<1>. DEFINE w == substring_write(t, s)  x == Text(s.start, s.end)  e == Entry(t, "raw", x, <<>>)
<1>1. w \in Seq(Entries) /\ Len(w) = 1 /\ w[1] = e BY RawEntry
<1>2. e.table = t /\ e.kind = "raw" /\ e.what = x BY DEF Entry
<1>3. w = <<e>> BY DEF substring_write
<1> HIDE DEF w, e, x
<1>4. e \in Entries
  <2>1. 1 \in 1..Len(w) BY <1>1
  <2>2. w[1] \in Entries BY <1>1, <2>1, ElementOfSeq
  <2> QED BY <1>1, <2>2
<1>5. SaidIn(<<e>>, u) = IF e.table = u /\ e.kind # "decl" THEN <<e.what>> ELSE <<>>
  BY <1>4, SaidOne
<1> QED BY <1>2, <1>3, <1>5 DEF w, x

LEMMA MessageSays ==
  ASSUME tables \in Builds, buffer \in Seq(Lexemes), NEW t \in Tables,
         NEW i \in DOMAIN tables[t], NEW k \in DOMAIN Patterns(t, i),
         NEW s \in Subs, 1 <= s.start, NEW u
  PROVE  SaidIn(output_fncall_results(t, i, k, s), u)
           = IF u # t \/ Message(t, i, k, s) = Null THEN <<>> ELSE <<<<Message(t, i, k, s)>>>>
<1>. DEFINE r == output_fncall_results(t, i, k, s)  m == Message(t, i, k, s)
            e == Entry(t, "message", <<m>>, extract_location(s))
<1>1. r \in Seq(Entries) BY MessageEntry
<1>2. r = IF m = Null THEN <<>> ELSE <<e>> BY DEF output_fncall_results
<1>3. e.table = t /\ e.kind = "message" /\ e.what = <<m>> BY DEF Entry
<1> HIDE DEF e, m, r
<1>4. CASE m = Null BY <1>2, <1>4, SaidEmpty DEF m, r
<1>5. CASE m # Null
  <2>1. r = <<e>> BY <1>2, <1>5
  <2>2. e \in Entries
    <3>1. <<e>> \in Seq(Entries) /\ Len(<<e>>) = 1 /\ <<e>>[1] = e BY <1>1, <2>1
    <3>2. 1 \in 1..Len(<<e>>) BY <3>1
    <3> QED BY <3>1, <3>2, ElementOfSeq
  <2>3. SaidIn(<<e>>, u) = IF e.table = u /\ e.kind # "decl" THEN <<e.what>> ELSE <<>>
    BY <2>2, SaidOne
  <2> QED BY <1>3, <1>5, <2>1, <2>3 DEF m, r
<1> QED BY <1>4, <1>5

(***************************************************************************)
(* A step of the loop says of the next call what the table says of it.     *)
(***************************************************************************)
(* No table of the repository has an expression over the whole call.       *)
NothingOverAll ==
  \A b \in Builds : \A t \in Tables : \A i \in DOMAIN b[t] :
    \A k \in DOMAIN b[t][i].patterns : b[t][i].patterns[k].all = NoRegex

(* The next substring is the line of call c. *)
AtCall(c) ==
  /\ c \in Calls /\ Found
  /\ NextSub \in Subs /\ 1 <= NextSub.start /\ NextSub.end <= Len(buffer) + 1
  /\ strchr(NextSub.start, "(") # 0
  /\ extract_fnname(NextSub) = <<c.name>>
  /\ ArgsOf(NextSub) = CallText(c)
  /\ AllOf(NextSub) = LineText(c)
  /\ Text(NextSub.start, NextSub.end) = CallLine(c)

LEMMA CallAsked ==
  ASSUME NothingOverAll, tables \in Builds, LoadInv, Loaded, NEW c, AtCall(c),
         NEW t \in Tables, NEW i \in DOMAIN tables[t], NEW k \in DOMAIN Patterns(t, i)
  PROVE  /\ Match(t, i, k, NextSub) <=> Asked(Patterns(t, i)[k], c)
         /\ Message(t, i, k, NextSub) = Verdict(Patterns(t, i)[k], c)
<1>. DEFINE pm == Patterns(t, i)[k]  s == NextSub  x == CallText(c)  y == LineText(c)
<1>1. ArgsOf(s) = x /\ AllOf(s) = y BY DEF AtCall
<1>2. pm.all = NoRegex BY DEF NothingOverAll, Patterns
<1>3. <<t, i, k, "all">> \notin compiled BY DEF LoadInv
<1>4. <<t, i, k, "args">> \in compiled <=> pm.args # NoRegex
  <2>1. pm.args # NoRegex => <<t, i, k, "args">> \in compiled BY DEF Loaded, ArgsCompiled
  <2>2. <<t, i, k, "args">> \in compiled => pm.args # NoRegex BY DEF LoadInv
  <2> QED BY <2>1, <2>2
<1>5. /\ regexp_match_cargs(t, i, k, s) <=>
           x \in DOMAIN pm.match_args_func \/ (<<t, i, k, "args">> \in compiled /\ x \in pm.args.matches)
      /\ regexp_match_call(t, i, k, s) <=>
           y \in DOMAIN pm.match_all_func \/ (<<t, i, k, "all">> \in compiled /\ y \in pm.all.matches)
  BY <1>1 DEF regexp_match_cargs, regexp_match_call
<1>6. Match(t, i, k, s) <=>
        pm.force_match \/ regexp_match_cargs(t, i, k, s) \/ regexp_match_call(t, i, k, s)
  BY DEF Match
<1>7. msg_extra(t, i, k, s)
        = IF pm.force_match THEN Null
          ELSE IF x \in DOMAIN pm.match_args_func THEN pm.match_args_func[x]
          ELSE IF regexp_match_cargs(t, i, k, s) THEN Null
          ELSE IF y \in DOMAIN pm.match_all_func THEN pm.match_all_func[y] ELSE Null
  BY <1>1 DEF msg_extra
<1>8. Message(t, i, k, s)
        = IF ~Match(t, i, k, s) THEN pm.msg_nomatch
          ELSE IF msg_extra(t, i, k, s) # Null THEN msg_extra(t, i, k, s) ELSE pm.msg
  BY DEF Message
<1> HIDE DEF pm, s, x, y
<1>9. /\ Asked(pm, c) <=>
           \/ pm.force_match
           \/ x \in DOMAIN pm.match_args_func \/ (pm.args # NoRegex /\ x \in pm.args.matches)
           \/ y \in DOMAIN pm.match_all_func \/ (pm.all # NoRegex /\ y \in pm.all.matches)
      /\ Reason(pm, c)
           = IF pm.force_match THEN Null
             ELSE IF x \in DOMAIN pm.match_args_func THEN pm.match_args_func[x]
             ELSE IF (pm.args # NoRegex /\ x \in pm.args.matches) \/ y \notin DOMAIN pm.match_all_func
             THEN Null ELSE pm.match_all_func[y]
  BY DEF Asked, Reason, Accepts, x, y
<1>10. Match(t, i, k, s) <=> Asked(pm, c) BY <1>2, <1>3, <1>4, <1>5, <1>6, <1>9
<1>11. msg_extra(t, i, k, s) = Reason(pm, c) BY <1>4, <1>5, <1>7, <1>9
<1>12. Message(t, i, k, s) = Verdict(pm, c) BY <1>8, <1>10, <1>11 DEF Verdict
<1> QED BY <1>10, <1>12 DEF pm, s

LEMMA VerdictType ==
  ASSUME NEW pm, IsPattern(pm), NEW c
  PROVE  Verdict(pm, c) \in STRING \cup {Null}
<1>1. Reason(pm, c) \in STRING \cup {Null} BY DEF Reason, IsPattern
<1> QED BY <1>1 DEF Verdict, IsPattern

LEMMA OfPatternType ==
  ASSUME NEW t, NEW pm, IsPattern(pm), NEW c \in Calls
  PROVE  OfPattern(t, pm, c) \in Seq(What)
<1>. DEFINE v == Verdict(pm, c)
<1>1. <<CallLine(c)>> \in Seq(What)
  <2>1. CallLine(c) \in What BY LineShape DEF What
  <2> QED BY <2>1
<1>2. v # Null => <<<<v>>>> \in Seq(What)
  <2>1. v # Null => v \in STRING BY VerdictType
  <2> HIDE DEF v
  <2>2. ASSUME v \in STRING PROVE <<<<v>>>> \in Seq(What)
    <3>0. ASSUME NEW S, NEW x \in S PROVE <<x>> \in Seq(S) OBVIOUS
    <3>1. <<v>> \in Seq(STRING) BY <2>2, <3>0
    <3>2. <<v>> \in What BY <3>1 DEF What
    <3> QED BY <3>2
  <2> QED BY <2>1, <2>2
<1>3. <<>> \in Seq(What) OBVIOUS
<1> QED BY <1>1, <1>2, <1>3 DEF OfPattern

LEMMA PatternSays ==
  ASSUME NothingOverAll, SafeInv, LoadInv, Loaded, NEW c, AtCall(c),
         NEW t \in Tables, NEW i \in DOMAIN tables[t], NEW k \in DOMAIN Patterns(t, i), NEW u
  PROVE  SaidIn(process_pattern(t, i, k, NextSub), u)
           = IF u = t THEN OfPattern(t, Patterns(t, i)[k], c) ELSE <<>>
<1>. DEFINE pm == Patterns(t, i)[k]  s == NextSub
            d == dump_decl_output(t)  w == substring_write(t, s)  m == output_fncall_results(t, i, k, s)
            r == process_pattern(t, i, k, s)
<1>0. tables \in Builds /\ buffer \in Seq(Lexemes) BY DEF SafeInv, TextInv
<1>1. s \in Subs /\ 1 <= s.start /\ s.end <= Len(buffer) + 1 /\ Text(s.start, s.end) = CallLine(c)
  BY DEF AtCall
<1>2. /\ Match(t, i, k, s) <=> Asked(pm, c)
      /\ Message(t, i, k, s) = Verdict(pm, c)
  BY <1>0, CallAsked
<1>3. r = IF ~Silent(pm) THEN m
          ELSE IF ~RawCall(t, i, k, s) THEN <<>>
          ELSE IF \E j \in 1..(k - 1) : RawCall(t, i, j, s) THEN w ELSE d \o w
  BY DEF process_pattern
<1>4. RawCall(t, i, k, s) <=> Silent(pm) /\ t = REPORTS_ID /\ Match(t, i, k, s) BY DEF RawCall
<1>5. SaidIn(w, u) = IF u = t THEN <<CallLine(c)>> ELSE <<>> BY <1>0, <1>1, RawSays
<1>6. SaidIn(d \o w, u) = SaidIn(w, u)
  <2>1. d \in Seq(Entries) /\ w \in Seq(Entries) BY <1>0, <1>1, DeclEntry, RawEntry
  <2>2. SaidIn(d, u) = <<>> BY <1>0, DeclSays
  <2> HIDE DEF d, w
  <2>3. SaidIn(w, u) \in Seq(What) BY <2>1, SaysType
  <2>4. SaidIn(d \o w, u) = SaidIn(d, u) \o SaidIn(w, u) BY <2>1, SaidConcat
  <2> QED BY <2>2, <2>3, <2>4, ConcatEmptySeq
<1>7. SaidIn(m, u) = IF u # t \/ Message(t, i, k, s) = Null THEN <<>> ELSE <<<<Message(t, i, k, s)>>>>
  BY <1>0, <1>1, MessageSays
<1>8. OfPattern(t, pm, c)
        = IF Silent(pm)
          THEN IF t = REPORTS_ID /\ Asked(pm, c) THEN <<CallLine(c)>> ELSE <<>>
          ELSE IF Verdict(pm, c) = Null THEN <<>> ELSE <<<<Verdict(pm, c)>>>>
  BY DEF OfPattern
<1> HIDE DEF pm, s, d, w, m, r
<1>9. CASE ~Silent(pm) BY <1>2, <1>3, <1>7, <1>8, <1>9 DEF r, pm, s
<1>10. CASE Silent(pm) /\ ~RawCall(t, i, k, s)
  BY <1>2, <1>3, <1>4, <1>8, <1>10, SaidEmpty DEF r, pm, s
<1>11. CASE RawCall(t, i, k, s)
  <2>1. SaidIn(r, u) = SaidIn(w, u) BY <1>3, <1>4, <1>6, <1>11
  <2> QED BY <1>2, <1>4, <1>5, <1>8, <1>11, <2>1 DEF r, pm, s
<1> QED BY <1>9, <1>10, <1>11

LEMMA FncallSays ==
  ASSUME NothingOverAll, SafeInv, LoadInv, Loaded, NEW c, AtCall(c),
         NEW t \in Tables, NEW i \in DOMAIN tables[t], NEW u
  PROVE  SaidIn(process_fncall(t, i, NextSub), u)
           = IF u = t
             THEN FlattenSeq([k \in DOMAIN Patterns(t, i) |-> OfPattern(t, Patterns(t, i)[k], c)])
             ELSE <<>>
<1>. DEFINE P == DOMAIN Patterns(t, i)  n == Len(Patterns(t, i))
            ps == [k \in P |-> process_pattern(t, i, k, NextSub)]
            xs == [k \in 1..Len(ps) |-> SaidIn(ps[k], u)]
<1>0. tables \in Builds /\ buffer \in Seq(Lexemes) BY DEF SafeInv, TextInv
<1>1. n \in Nat /\ P = 1..n BY <1>0, TableFacts
<1>2. ps \in Seq(Seq(Entries)) BY <1>0, FncallEntries DEF AtCall
<1>3. \A k \in P : ps[k] = process_pattern(t, i, k, NextSub) OBVIOUS
<1>5. process_fncall(t, i, NextSub) = FlattenSeq(ps) BY DEF process_fncall
<1>6. \A k \in P : SaidIn(process_pattern(t, i, k, NextSub), u)
                     = IF u = t THEN OfPattern(t, Patterns(t, i)[k], c) ELSE <<>>
  BY PatternSays
<1> HIDE DEF ps, P, n
<1>7. Len(ps) = n
  <2>1. ps = [k \in 1..n |-> process_pattern(t, i, k, NextSub)] BY <1>1 DEF ps
  <2> QED BY <1>1, <2>1
<1>8. SaidIn(FlattenSeq(ps), u) = FlattenSeq(xs) BY <1>2, SaidFlatten
<1>9. xs = [k \in P |-> IF u = t THEN OfPattern(t, Patterns(t, i)[k], c) ELSE <<>>]
  BY <1>1, <1>3, <1>6, <1>7
<1>10. CASE u = t
  <2>1. xs = [k \in P |-> OfPattern(t, Patterns(t, i)[k], c)] BY <1>9, <1>10
  <2> HIDE DEF xs
  <2> QED BY <1>5, <1>8, <1>10, <2>1 DEF P
<1>11. CASE u # t
  <2>1. xs = [k \in 1..n |-> <<>>] BY <1>1, <1>9, <1>11
  <2>2. [k \in 1..n |-> <<>>] \in Seq({<<>>}) BY <1>1
  <2> HIDE DEF xs
  <2>3. FlattenSeq(xs) = <<>> BY <2>1, <2>2, FlattenNothing
  <2> QED BY <1>5, <1>8, <1>11, <2>3
<1> QED BY <1>10, <1>11


LEMMA AddedSays ==
  ASSUME NothingOverAll, SafeInv, LoadInv, Loaded, h \in Tables, NEW c, AtCall(c), NEW u
  PROVE  SaidIn(Added, u) = IF u = h THEN OfCall(h, c) ELSE <<>>
<1>. DEFINE s == NextSub  i == Lookup(h, <<c.name>>)
            d == IF print_decl THEN dump_decl_output(h) ELSE <<>>  w == substring_write(h, s)
<1>0. tables \in Builds /\ buffer \in Seq(Lexemes) /\ print_decl \in BOOLEAN
  BY DEF SafeInv, TextInv, LogInv
<1>1. s \in Subs /\ 1 <= s.start /\ s.end <= Len(buffer) + 1 /\ Text(s.start, s.end) = CallLine(c)
  BY DEF AtCall
<1>2. Target = i BY DEF AtCall, Target
<1>3. i = 0 \/ i \in DOMAIN tables[h] BY <1>0, LookupFacts
<1>4. Listed <=> i # 0 /\ h = REPORTS_ID /\ Patterns(h, i) = <<>> BY <1>2 DEF Listed
<1>5. Added = IF i = 0 THEN <<>> ELSE IF Listed THEN d \o w ELSE process_fncall(h, i, s)
  BY <1>2 DEF Added
<1>6. SaidIn(d \o w, u) = IF u = h THEN <<CallLine(c)>> ELSE <<>>
  <2>1. d \in Seq(Entries) /\ w \in Seq(Entries)
    <3>1. dump_decl_output(h) \in Seq(Entries) BY <1>0, DeclEntry
    <3>2. w \in Seq(Entries) BY <1>0, <1>1, RawEntry
    <3> QED BY <3>1, <3>2, EmptySeq
  <2>2. SaidIn(d, u) = <<>> BY <1>0, DeclSays, SaidEmpty
  <2>5. SaidIn(w, u) = IF u = h THEN <<CallLine(c)>> ELSE <<>> BY <1>0, <1>1, RawSays
  <2> HIDE DEF d, w
  <2>3. SaidIn(w, u) \in Seq(What) BY <2>1, SaysType
  <2>4. SaidIn(d \o w, u) = SaidIn(d, u) \o SaidIn(w, u) BY <2>1, SaidConcat
  <2> QED BY <2>2, <2>3, <2>4, <2>5, ConcatEmptySeq
<1>7. OfCall(h, c)
        = IF i = 0 THEN <<>>
          ELSE IF Patterns(h, i) = <<>>
          THEN IF h = REPORTS_ID THEN <<CallLine(c)>> ELSE <<>>
          ELSE FlattenSeq([k \in DOMAIN Patterns(h, i) |-> OfPattern(h, Patterns(h, i)[k], c)])
  BY DEF OfCall
<1>8. CASE i = 0 BY <1>5, <1>7, <1>8, SaidEmpty
<1>9. CASE i # 0 /\ Listed
  <2> HIDE DEF d, w, i
  <2> QED BY <1>4, <1>5, <1>6, <1>7, <1>9
<1>10. CASE i # 0 /\ ~Listed
  <2>1. SaidIn(process_fncall(h, i, s), u)
          = IF u = h
            THEN FlattenSeq([k \in DOMAIN Patterns(h, i) |-> OfPattern(h, Patterns(h, i)[k], c)])
            ELSE <<>>
    BY <1>3, <1>10, FncallSays
  <2>2. Patterns(h, i) = <<>> =>
          FlattenSeq([k \in DOMAIN Patterns(h, i) |-> OfPattern(h, Patterns(h, i)[k], c)]) = <<>>
    <3>1. Patterns(h, i) = <<>> => DOMAIN Patterns(h, i) = {} OBVIOUS
    <3>2. [k \in {} |-> OfPattern(h, Patterns(h, i)[k], c)] = <<>> OBVIOUS
    <3> QED BY <3>1, <3>2, FlattenEmpty
  <2>. DEFINE z == FlattenSeq([k \in DOMAIN Patterns(h, i) |-> OfPattern(h, Patterns(h, i)[k], c)])
  <2>3. /\ SaidIn(process_fncall(h, i, s), u) = IF u = h THEN z ELSE <<>>
        /\ Patterns(h, i) = <<>> => z = <<>>
        /\ OfCall(h, c)
             = IF Patterns(h, i) = <<>>
               THEN IF h = REPORTS_ID THEN <<CallLine(c)>> ELSE <<>> ELSE z
    BY <1>7, <1>10, <2>1, <2>2
  <2> HIDE DEF z, i, s
  <2> QED BY <1>4, <1>5, <1>10, <2>3
<1> QED BY <1>8, <1>9, <1>10

(***************************************************************************)
(* What a table has to say of the first n calls.                           *)
(***************************************************************************)
ExpectedTo(t, n) == FlattenSeq([j \in 1..n |-> OfCall(t, calls[j])])

LEMMA OfCallType ==
  ASSUME tables \in Builds, NEW t \in Tables, NEW c \in Calls
  PROVE  OfCall(t, c) \in Seq(What)
<1>. DEFINE i == Lookup(t, <<c.name>>)  n == Len(Patterns(t, i))
            xs == [k \in DOMAIN Patterns(t, i) |-> OfPattern(t, Patterns(t, i)[k], c)]
<1>1. OfCall(t, c) = IF i = 0 THEN <<>>
                     ELSE IF Patterns(t, i) = <<>>
                     THEN IF t = REPORTS_ID THEN <<CallLine(c)>> ELSE <<>>
                     ELSE FlattenSeq(xs)
  BY DEF OfCall
<1>2. <<CallLine(c)>> \in Seq(What)
  <2>1. CallLine(c) \in What BY LineShape DEF What
  <2> QED BY <2>1
<1>3. <<>> \in Seq(What) OBVIOUS
<1>4. i # 0 => FlattenSeq(xs) \in Seq(What)
  <2> SUFFICES ASSUME i # 0 PROVE FlattenSeq(xs) \in Seq(What) OBVIOUS
  <2>1. i \in DOMAIN tables[t] BY LookupFacts
  <2> HIDE DEF i
  <2>2. /\ n \in Nat /\ DOMAIN Patterns(t, i) = 1..n
        /\ \A k \in 1..n : IsPattern(Patterns(t, i)[k])
    BY <2>1, TableFacts
  <2>3. \A k \in 1..n : OfPattern(t, Patterns(t, i)[k], c) \in Seq(What) BY <2>2, OfPatternType
  <2> HIDE DEF n
  <2>4. xs \in Seq(Seq(What)) BY <2>2, <2>3
  <2> HIDE DEF xs
  <2> QED BY <2>4, FlattenType
<1> HIDE DEF i, xs
<1> QED BY <1>1, <1>2, <1>3, <1>4

LEMMA ExpectedNext ==
  ASSUME TextInv, NEW t \in Tables, NEW n \in 0..(Len(calls) - 1)
  PROVE  /\ ExpectedTo(t, n) \in Seq(What)
         /\ ExpectedTo(t, n + 1) = ExpectedTo(t, n) \o OfCall(t, calls[n + 1])
<1>. DEFINE f == [j \in 1..n |-> OfCall(t, calls[j])]
            g == [j \in 1..(n + 1) |-> OfCall(t, calls[j])]
            x == OfCall(t, calls[n + 1])
<1>1. Len(calls) \in Nat /\ n \in Nat BY DEF TextInv
<1>2. \A j \in 1..(n + 1) : OfCall(t, calls[j]) \in Seq(What)
  <2>1. \A j \in 1..(n + 1) : j \in 1..Len(calls) BY <1>1
  <2>2. \A j \in 1..(n + 1) : calls[j] \in Calls BY <2>1, ElementOfSeq DEF TextInv
  <2> QED BY <2>2, OfCallType DEF TextInv
<1>3. /\ f \in Seq(Seq(What)) /\ Len(f) = n /\ x \in Seq(What)
      /\ \A j \in 1..n : f[j] = OfCall(t, calls[j])
  BY <1>1, <1>2
<1>4. /\ g \in Seq(Seq(What)) /\ Len(g) = n + 1
      /\ \A j \in 1..n : g[j] = OfCall(t, calls[j])
      /\ g[n + 1] = x
  BY <1>1, <1>2
<1> HIDE DEF f, g, x
<1>5. g = Append(f, x)
  <2>1. /\ Append(f, x) \in Seq(Seq(What)) /\ Len(Append(f, x)) = n + 1
        /\ Append(f, x)[n + 1] = x /\ \A j \in 1..n : Append(f, x)[j] = f[j]
    BY <1>1, <1>3, AppendProperties
  <2>2. \A j \in 1..(n + 1) : j \in 1..n \/ j = n + 1 BY <1>1
  <2>3. \A j \in 1..(n + 1) : g[j] = Append(f, x)[j] BY <1>3, <1>4, <2>1, <2>2
  <2> QED BY <1>4, <2>1, <2>3, SeqEqual
<1>6. FlattenSeq(f) \in Seq(What) /\ FlattenSeq(Append(f, x)) = FlattenSeq(f) \o x
  BY <1>3, FlattenAppend
<1>7. ExpectedTo(t, n) = FlattenSeq(f) /\ ExpectedTo(t, n + 1) = FlattenSeq(g)
  BY DEF ExpectedTo, f, g
<1> QED BY <1>5, <1>6, <1>7 DEF x

LEMMA ExpectedNone == \A t : ExpectedTo(t, 0) = <<>>
<1> TAKE t
<1>1. [j \in 1..0 |-> OfCall(t, calls[j])] = <<>> OBVIOUS
<1> QED BY <1>1, FlattenEmpty DEF ExpectedTo

LEMMA ExpectedPrefix ==
  ASSUME TextInv, NEW t \in Tables, NEW n \in 0..Len(calls)
  PROVE  /\ IsPrefix(ExpectedTo(t, n), Expected(t))
         /\ n = Len(calls) => ExpectedTo(t, n) = Expected(t)
<1>. DEFINE m == Len(calls)
            f == [j \in 1..n |-> OfCall(t, calls[j])]
            g == [j \in 1..m |-> OfCall(t, calls[j])]
            r == [j \in 1..(m - n) |-> OfCall(t, calls[n + j])]
<1>1. m \in Nat /\ n \in Nat /\ m - n \in Nat /\ DOMAIN calls = 1..m BY LenProperties DEF TextInv
<1>2. \A j \in 1..m : OfCall(t, calls[j]) \in Seq(What)
  <2>1. \A j \in 1..m : calls[j] \in Calls BY ElementOfSeq DEF TextInv
  <2> QED BY <2>1, OfCallType DEF TextInv
<1>3. Expected(t) = FlattenSeq(g) /\ ExpectedTo(t, n) = FlattenSeq(f)
  BY <1>1 DEF Expected, ExpectedTo
<1> HIDE DEF m
<1>4. f \in Seq(Seq(What)) /\ Len(f) = n /\ \A j \in 1..n : f[j] = OfCall(t, calls[j])
  <2>1. \A j \in 1..n : j \in 1..m BY <1>1 DEF m
  <2> QED BY <1>1, <1>2, <2>1
<1>5. g \in Seq(Seq(What)) /\ Len(g) = m /\ \A j \in 1..m : g[j] = OfCall(t, calls[j])
  BY <1>1, <1>2
<1>6. r \in Seq(Seq(What)) /\ Len(r) = m - n
      /\ \A j \in 1..(m - n) : r[j] = OfCall(t, calls[n + j])
  <2>1. \A j \in 1..(m - n) : n + j \in 1..m BY <1>1
  <2> QED BY <1>1, <1>2, <2>1
<1> HIDE DEF f, g, r
<1>7. g = f \o r
  <2>1. /\ f \o r \in Seq(Seq(What)) /\ Len(f \o r) = Len(f) + Len(r)
        /\ \A j \in 1..(Len(f) + Len(r)) :
             (f \o r)[j] = IF j <= Len(f) THEN f[j] ELSE r[j - Len(f)]
    BY <1>4, <1>6, ConcatProperties
  <2>2. Len(f) + Len(r) = m BY <1>1, <1>4, <1>6
  <2>3. ASSUME NEW j \in 1..m PROVE g[j] = (f \o r)[j]
    <3>1. CASE j <= n
      <4>1. j \in 1..n BY <1>1, <3>1
      <4> QED BY <1>4, <1>5, <2>1, <2>2, <3>1, <4>1
    <3>2. CASE ~(j <= n)
      <4>1. j - n \in 1..(m - n) /\ n + (j - n) = j BY <1>1, <3>2
      <4>2. (f \o r)[j] = r[j - n] BY <1>4, <2>1, <2>2, <3>2
      <4>3. r[j - n] = OfCall(t, calls[n + (j - n)]) BY <1>6, <4>1
      <4> QED BY <1>5, <4>1, <4>2, <4>3
    <3> QED BY <3>1, <3>2
  <2> QED BY <1>5, <2>1, <2>2, <2>3, SeqEqual
<1>8. FlattenSeq(f) \in Seq(What) /\ FlattenSeq(r) \in Seq(What) BY <1>4, <1>6, FlattenType
<1>9. FlattenSeq(g) = FlattenSeq(f) \o FlattenSeq(r) BY <1>4, <1>6, <1>7, FlattenConcat
<1>10. ASSUME NEW a \in Seq(What), NEW b \in Seq(What) PROVE IsPrefix(a, a \o b)
  <2>1. /\ a \o b \in Seq(What) /\ Len(a \o b) = Len(a) + Len(b)
        /\ \A j \in 1..(Len(a) + Len(b)) : (a \o b)[j] = IF j <= Len(a) THEN a[j] ELSE b[j - Len(a)]
    BY ConcatProperties
  <2>2. Len(a) \in Nat /\ Len(b) \in Nat OBVIOUS
  <2>3. \A j \in 1..Len(a) : j \in 1..(Len(a) + Len(b)) /\ j <= Len(a) BY <2>2
  <2>4. \A j \in 1..Len(a) : (a \o b)[j] = a[j] BY <2>1, <2>3
  <2>. DEFINE z == a \o b  l == Len(a)
  <2> HIDE DEF z
  <2>5. l <= Len(z) /\ z \in Seq(What) /\ \A j \in 1..l : z[j] = a[j] BY <2>1, <2>2, <2>4 DEF z
  <2>6. /\ SubSeq(z, 1, l) \in Seq(What) /\ Len(SubSeq(z, 1, l)) = l
        /\ \A j \in 1..l : SubSeq(z, 1, l)[j] = z[j]
    BY <2>2, <2>5
  <2>7. SubSeq(a, 1, l) = a BY SubSeqFull
  <2>8. SubSeq(z, 1, l) = a BY <2>2, <2>5, <2>6, SeqEqual
  <2> QED BY <2>5, <2>7, <2>8 DEF IsPrefix, z
<1>11. n = m => f = g
  <2> SUFFICES ASSUME n = m PROVE f = g OBVIOUS
  <2> QED BY DEF f, g
<1> QED BY <1>3, <1>8, <1>9, <1>10, <1>11 DEF m

(* A table without targets says nothing. *)
LEMMA ExpectedEmpty ==
  ASSUME NEW t \in Tables, tables[t] = <<>>, NEW n \in Nat
  PROVE  ExpectedTo(t, n) = <<>>
<1>1. \A j \in 1..n : OfCall(t, calls[j]) = <<>> BY NoTargetsNoMatch DEF OfCall
<1>2. [j \in 1..n |-> OfCall(t, calls[j])] = [j \in 1..n |-> <<>>] BY <1>1
<1>3. [j \in 1..n |-> <<>>] \in Seq({<<>>}) OBVIOUS
<1> QED BY <1>2, <1>3, FlattenNothing DEF ExpectedTo

(***************************************************************************)
(* The invariant of the output: done has how many calls of the function    *)
(* each table has answered for.                                            *)
(***************************************************************************)
Alone(t) == \A u \in Tables \ {t} : tables[u] = <<>>

Matched(st, done) ==
  /\ Layout(buffer, calls, st)
  /\ done \in [Tables -> Nat] /\ \A t \in Tables : done[t] <= Len(calls)
  /\ Plain => \A t \in Tables : Said(t) = ExpectedTo(t, done[t])
  /\ \A t \in Tables : Alone(t) => NoTargets \/ done[t] + mcounter[t] = Len(calls)
  /\ phase = "walking" => \A t \in Tables : done[t] = 0
  /\ phase = "output" =>
       /\ ~NoTargets
       /\ \A t \in Tables : done[t] + mcounter[t] <= Len(calls)
       /\ \A t \in Tables : t > h => done[t] = 0
       /\ h \in Tables /\ Plain => CutAt(st, done[h])

MatchInv == \E st, done : Matched(st, done)

(* The reference depends on the tables and the calls alone. *)
LEMMA ExpectedKept ==
  ASSUME UNCHANGED <<tables, calls>>, NEW t, NEW n
  PROVE  ExpectedTo(t, n)' = ExpectedTo(t, n)
<1>1. \A u, text : Lookup(u, text)' = Lookup(u, text) BY DEF Lookup, SelectInSeq
<1>2. \A u, i : Patterns(u, i)' = Patterns(u, i) BY DEF Patterns
<1>3. \A u, c : OfCall(u, c)' = OfCall(u, c) BY <1>1, <1>2 DEF OfCall
<1> QED BY <1>3 DEF ExpectedTo

LEMMA MatchInit == Init => MatchInv
<1> SUFFICES ASSUME Init PROVE MatchInv OBVIOUS
<1>0. /\ phase = "off" /\ buffer = <<>> /\ calls = <<>> /\ log = <<>>
      /\ mcounter = [t \in Tables |-> 0]
  BY DEF Init
<1>. DEFINE st == [j \in 1..1 |-> 1]  done == [t \in Tables |-> 0]
<1>1. Layout(buffer, calls, st) BY <1>0 DEF Layout
<1>2. /\ done \in [Tables -> Nat]
      /\ \A t \in Tables : done[t] = 0 /\ mcounter[t] = 0 /\ done[t] + mcounter[t] = 0
  BY <1>0
<1>3. Len(calls) = 0 BY <1>0
<1>4. \A t \in Tables : Said(t) = ExpectedTo(t, 0) BY <1>0, SaidEmpty, ExpectedNone DEF Said
<1> HIDE DEF st, done
<1>5. Matched(st, done) BY <1>0, <1>1, <1>2, <1>3, <1>4 DEF Matched
<1> QED BY <1>5 DEF MatchInv

(* Loading, and steps that do nothing. *)
LEMMA MatchKept ==
  ASSUME MatchInv, UNCHANGED <<tables, buffer, mcounter, h, sub, log, calls>>,
         phase' = phase \/ phase' \notin {"walking", "output"}
  PROVE  MatchInv'
<1>1. PICK st, done : Matched(st, done) BY DEF MatchInv
<1>2. \A t \in Tables : /\ ExpectedTo(t, done[t])' = ExpectedTo(t, done[t])
                        /\ Said(t)' = Said(t) /\ Alone(t)' = Alone(t)
  BY ExpectedKept DEF Said, Alone
<1>3. Plain' = Plain /\ NoTargets' = NoTargets BY DEF Plain, NoTargets
<1>4. CutAt(st, done[h])' = CutAt(st, done[h]) BY DEF CutAt
<1>5. Matched(st, done)' BY <1>1, <1>2, <1>3, <1>4 DEF Matched
<1> QED BY <1>5 DEF MatchInv

LEMMA MatchStart == SafeInv /\ StartFunction => MatchInv'
<1> SUFFICES ASSUME SafeInv, StartFunction PROVE MatchInv' OBVIOUS
<1>0. /\ phase = "ready" /\ phase' = "walking" /\ buffer' \in {DeclLine, <<>>}
      /\ calls' = <<>> /\ log' = <<>> /\ mcounter' = mcounter
  BY DEF StartFunction, setup
<1>1. PICK st : st = [j \in 1..1 |-> IF buffer' = DeclLine THEN 12 ELSE 1] OBVIOUS
<1>2. PICK done : done = [t \in Tables |-> 0] OBVIOUS
<1>3. Layout(buffer', calls', st)
  <2>1. Len(calls') = 0 BY <1>0
  <2>2. CASE buffer' = DeclLine
    <3>1. Len(buffer') = 11 BY <2>2, DeclFacts
    <3>2. st = [j \in 1..1 |-> 12] BY <1>1, <2>2
    <3> QED BY <2>1, <2>2, <3>1, <3>2 DEF Layout
  <2>3. CASE buffer' = <<>> /\ buffer' # DeclLine
    <3>1. Len(buffer') = 0 BY <2>3
    <3>2. st = [j \in 1..1 |-> 1] BY <1>1, <2>3
    <3> QED BY <2>1, <3>1, <3>2 DEF Layout
  <2> QED BY <1>0, <2>2, <2>3
<1>4. ASSUME NEW t \in Tables
      PROVE  /\ done[t] = 0 /\ done[t] + mcounter[t] = 0
             /\ Said(t)' = ExpectedTo(t, 0)'
  <2>1. mcounter[t] = 0 BY <1>0 DEF SafeInv, CountInv
  <2>2. [j \in 1..0 |-> OfCall(t, calls[j])'] = <<>> OBVIOUS
  <2>3. ExpectedTo(t, 0)' = <<>> BY <2>2, FlattenEmpty DEF ExpectedTo
  <2> QED BY <1>0, <1>2, <2>1, <2>3, SaidEmpty DEF Said
<1>5. done \in [Tables -> Nat] /\ Len(calls') = 0 BY <1>0, <1>2
<1>6. Matched(st, done)' BY <1>0, <1>3, <1>4, <1>5 DEF Matched
<1> QED BY <1>6 DEF MatchInv

LEMMA MatchWalk == SafeInv /\ MatchInv /\ WalkCall => MatchInv'
<1> SUFFICES ASSUME SafeInv, MatchInv, WalkCall PROVE MatchInv' OBVIOUS
<1>0. /\ phase = "walking" /\ phase' = phase /\ log = <<>> /\ log' = log
      /\ tables' = tables
  BY DEF WalkCall, SafeInv, LogInv, setup
<1>1. PICK st, done : Matched(st, done) BY DEF MatchInv
<1> DEFINE Walked(name, args, c) ==
             /\ c = [name |-> name, args |-> args, loc |-> Locs[Len(calls) + 1]]
             /\ NoTargets \/ match_function_name(name) # {}
             /\ mcounter' = [t \in Tables |->
                  mcounter[t] + IF t \in match_function_name(name) THEN 1 ELSE 0]
             /\ calls' = Append(calls, c)
             /\ buffer' = buffer \o CallLine(c)
<1>w. PICK name \in Names, args \in Args :
        Walked(name, args, [name |-> name, args |-> args, loc |-> Locs[Len(calls) + 1]])
  BY Zenon DEF WalkCall
<1> HIDE DEF Walked
<1>x. PICK c : Walked(name, args, c) BY <1>w
<1> USE DEF Walked
<1>2. Walked(name, args, c) BY <1>x
<1>3. c \in Calls
  <2>1. calls \in Seq(Calls) /\ IsSequence(Locs) BY TextsAssumption DEF SafeInv, TextInv
  <2>2. Len(calls) < Len(Locs) BY DEF WalkCall
  <2>3. Len(calls) + 1 \in DOMAIN Locs BY <2>1, <2>2 DEF IsSequence
  <2> QED BY <1>2, <2>3 DEF Calls, LocSet
<1>4. calls \in Seq(Calls) /\ buffer \in Seq(Lexemes) /\ Len(calls) \in Nat
  BY DEF SafeInv, TextInv
<1>5. Len(calls') = Len(calls) + 1 BY <1>2, <1>3, <1>4
<1>6. PICK r : Layout(buffer', calls', r)
  <2>1. \E r : Layout(buffer \o CallLine(c), Append(calls, c), r)
    BY <1>1, <1>3, <1>4, LayoutAppend DEF Matched
  <2> QED BY <1>2, <2>1
<1>7. done \in [Tables -> Nat] /\ \A t \in Tables : done[t] = 0 BY <1>0, <1>1 DEF Matched
<1>8. ASSUME NEW t \in Tables PROVE Said(t)' = ExpectedTo(t, 0)'
  <2>1. [j \in 1..0 |-> OfCall(t, calls[j])'] = <<>> OBVIOUS
  <2>2. ExpectedTo(t, 0)' = <<>> BY <2>1, FlattenEmpty DEF ExpectedTo
  <2> QED BY <1>0, <2>2, SaidEmpty DEF Said
<1>9. ASSUME NEW t \in Tables, Alone(t), ~NoTargets
      PROVE  done[t] + mcounter'[t] = Len(calls')
  <2>1. \A u \in Tables : u # t => u \notin match_function_name(name)
    BY <1>9, NoTargetsNoMatch DEF Alone, match_function_name
  <2>2. match_function_name(name) # {} /\ match_function_name(name) \subseteq Tables
    BY <1>2, <1>9 DEF match_function_name
  <2>3. t \in match_function_name(name) BY <2>1, <2>2
  <2>4. mcounter'[t] = mcounter[t] + 1 BY <1>2, <2>3
  <2>5. done[t] + mcounter[t] = Len(calls) BY <1>1, <1>9 DEF Matched
  <2>6. mcounter[t] \in Nat BY DEF SafeInv, CountInv
  <2> QED BY <1>4, <1>5, <1>7, <2>4, <2>5, <2>6
<1>10. NoTargets' = NoTargets /\ \A t \in Tables : Alone(t)' = Alone(t)
  BY <1>0 DEF NoTargets, Alone
<1>11. Matched(r, done)'
  <2>1. \A t \in Tables : done[t] <= Len(calls') BY <1>4, <1>5, <1>7
  <2>2. \A t \in Tables : Alone(t)' => NoTargets' \/ done[t] + mcounter'[t] = Len(calls')
    BY <1>9, <1>10
  <2>3. phase' # "output" BY <1>0
  <2>4. \A t \in Tables : Said(t)' = ExpectedTo(t, done[t])' BY <1>7, <1>8
  <2> QED BY <1>6, <1>7, <2>1, <2>2, <2>3, <2>4 DEF Matched
<1> QED BY <1>11 DEF MatchInv

(* The steps of match_output that cut nothing. *)
LEMMA MatchOutput ==
  SafeInv /\ MatchInv /\ (output_buffer_write \/ match_output \/ NextTable \/ OutputDone)
    => MatchInv'
<1> SUFFICES ASSUME SafeInv, MatchInv,
                    output_buffer_write \/ match_output \/ NextTable \/ OutputDone
             PROVE  MatchInv'
  OBVIOUS
<1>0. UNCHANGED <<tables, buffer, mcounter, calls>>
  BY DEF output_buffer_write, match_output, NextTable, OutputDone, setup
<1>1. PICK st, done : Matched(st, done) BY DEF MatchInv
<1>2. \A t \in Tables : /\ ExpectedTo(t, done[t])' = ExpectedTo(t, done[t])
                        /\ Alone(t)' = Alone(t)
  BY <1>0, ExpectedKept DEF Alone
<1>3. Plain' = Plain /\ NoTargets' = NoTargets BY <1>0 DEF Plain, NoTargets
<1>4. CASE output_buffer_write
  <2>1. phase = "walking" /\ phase' = "ready" /\ log' = <<Entry(0, "raw", buffer, <<>>)>>
    BY <1>4 DEF output_buffer_write
  <2>2. ASSUME NEW t \in Tables PROVE Said(t)' = ExpectedTo(t, done[t])
    <3>. DEFINE e == Entry(0, "raw", buffer, <<>>)
    <3>1. done[t] = 0 BY <1>1, <2>1 DEF Matched
    <3>2. e \in Entries BY DEF SafeInv, TextInv, Entries, Entry
    <3>3. e.table # t BY DEF Entry, Tables
    <3>4. Said(t)' = SaidIn(<<e>>, t) BY <2>1 DEF Said
    <3> HIDE DEF e
    <3>5. SaidIn(<<e>>, t) = <<>> BY <3>2, <3>3, SaidOne
    <3> QED BY <3>1, <3>4, <3>5, ExpectedNone
  <2>3. Matched(st, done)' BY <1>0, <1>1, <1>2, <1>3, <2>1, <2>2 DEF Matched
  <2> QED BY <2>3 DEF MatchInv
<1>5. CASE match_output
  <2>1. phase = "walking" /\ phase' = "output" /\ ~NoTargets /\ UNCHANGED <<h, sub, log>>
    BY <1>5 DEF match_output
  <2>2. sub = NoSub /\ h = 1 /\ h \in Tables
    BY <2>1 DEF SafeInv, CutInv, CountInv, Tables
  <2>3. \A t \in Tables : done[t] = 0 /\ mcounter[t] \in Nat /\ mcounter[t] <= Len(calls)
    BY <1>1, <2>1 DEF Matched, SafeInv, CountInv
  <2>4. \A t \in Tables : done[t] + mcounter[t] <= Len(calls) BY <2>3
  <2>5. CutAt(st, done[h])' BY <2>1, <2>2, <2>3 DEF CutAt
  <2>6. \A t \in Tables : Said(t)' = Said(t) BY <2>1 DEF Said
  <2>7. Matched(st, done)' BY <1>0, <1>1, <1>2, <1>3, <2>1, <2>3, <2>4, <2>5, <2>6 DEF Matched
  <2> QED BY <2>7 DEF MatchInv
<1>6. CASE NextTable
  <2>1. /\ phase = "output" /\ h \in Tables /\ phase' = phase
        /\ h' = h + 1 /\ sub' = NoSub /\ log' = log
    BY <1>6 DEF NextTable
  <2>2. h' \in Tables => done[h'] = 0
    <3>1. h' > h BY <2>1 DEF Tables
    <3> QED BY <1>1, <2>1, <3>1 DEF Matched
  <2>3. h' \in Tables => CutAt(st, done[h])' BY <2>1, <2>2 DEF CutAt
  <2>4. \A t \in Tables : t > h' => t > h BY <2>1 DEF Tables
  <2>5. \A t \in Tables : Said(t)' = Said(t) BY <2>1 DEF Said
  <2>6. Matched(st, done)' BY <1>0, <1>1, <1>2, <1>3, <2>1, <2>3, <2>4, <2>5 DEF Matched
  <2> QED BY <2>6 DEF MatchInv
<1>7. CASE OutputDone
  <2>1. phase' = "ready" /\ UNCHANGED <<h, sub, log>> BY <1>7 DEF OutputDone
  <2> QED BY <1>0, <2>1, MatchKept
<1> QED BY <1>4, <1>5, <1>6, <1>7

LEMMA CallReached ==
  ASSUME SafeInv, NEW st, Layout(buffer, calls, st), NEW n \in 0..(Len(calls) - 1),
         CutAt(st, n), Plain
  PROVE  /\ AtCall(calls[n + 1])
         /\ NextSub = [start |-> st[n + 1], end |-> st[n + 2]]
<1>1. TextInv BY DEF SafeInv
<1>2. PlainCall(calls[n + 1])
  <2>1. n + 1 \in DOMAIN calls
    <3>1. DOMAIN calls = 1..Len(calls) /\ Len(calls) \in Nat
      BY <1>1, LenProperties DEF TextInv
    <3> QED BY <3>1
  <2> QED BY <2>1 DEF Plain, PlainCall
<1>3. /\ calls[n + 1] \in Calls /\ Found
      /\ NextSub = [start |-> st[n + 1], end |-> st[n + 2]]
      /\ strchr(NextSub.start, "(") # 0
      /\ extract_fnname(NextSub) = <<calls[n + 1].name>>
      /\ ArgsOf(NextSub) = CallText(calls[n + 1])
      /\ AllOf(NextSub) = LineText(calls[n + 1])
      /\ Text(NextSub.start, NextSub.end) = CallLine(calls[n + 1])
  BY <1>1, <1>2, NextCut
<1>4. NextSub \in Subs /\ 1 <= NextSub.start /\ NextSub.end <= Len(buffer) + 1
  BY <1>3, CutGood
<1> QED BY <1>3, <1>4 DEF AtCall

LEMMA MatchProcess ==
  NothingOverAll /\ SafeInv /\ LoadInv /\ MatchInv /\ process_output => MatchInv'
<1> SUFFICES ASSUME NothingOverAll, SafeInv, LoadInv, MatchInv, process_output PROVE MatchInv'
  OBVIOUS
<1>0. /\ phase = "output" /\ h \in Tables /\ mcounter[h] > 0
      /\ mcounter' = [mcounter EXCEPT ![h] = @ - 1]
      /\ sub' = NextSub /\ log' = log \o Added
      /\ UNCHANGED <<tables, phase, buffer, h, calls>>
  BY StepShape DEF setup
<1>1. PICK st, done : Matched(st, done) BY DEF MatchInv
<1>2. /\ Layout(buffer, calls, st) /\ done \in [Tables -> Nat] /\ ~NoTargets
      /\ \A t \in Tables : done[t] <= Len(calls)
      /\ \A t \in Tables : done[t] + mcounter[t] <= Len(calls)
      /\ \A t \in Tables : t > h => done[t] = 0
      /\ \A t \in Tables : Alone(t) => done[t] + mcounter[t] = Len(calls)
      /\ Plain => CutAt(st, done[h]) /\ \A t \in Tables : Said(t) = ExpectedTo(t, done[t])
  BY <1>0, <1>1 DEF Matched
<1>3. PICK n, d : n = done[h] /\ d = [done EXCEPT ![h] = @ + 1] OBVIOUS
<1>4. mcounter \in [Tables -> Nat] /\ Len(calls) \in Nat /\ log \in Seq(Entries)
  BY DEF SafeInv, CountInv, TextInv, LogInv
<1>5. n \in 0..(Len(calls) - 1)
  <2>1. n \in Nat /\ mcounter[h] \in Nat /\ n + mcounter[h] <= Len(calls) BY <1>0, <1>2, <1>3, <1>4
  <2> QED BY <1>0, <1>4, <2>1
<1>6. /\ d \in [Tables -> Nat] /\ d[h] = n + 1 /\ mcounter'[h] = mcounter[h] - 1
      /\ \A t \in Tables : t # h => d[t] = done[t] /\ mcounter'[t] = mcounter[t]
  BY <1>0, <1>2, <1>3, <1>4
<1>7. ASSUME NEW t \in Tables
      PROVE  d[t] <= Len(calls) /\ d[t] + mcounter'[t] = done[t] + mcounter[t]
  <2>1. CASE t = h
    <3>. DEFINE m == mcounter[h]  l == Len(calls)  e == mcounter'[h]
    <3>1. /\ m \in Nat /\ l \in Nat /\ n \in 0..(l - 1) /\ e = m - 1
          /\ d[t] = n + 1 /\ done[t] = n /\ mcounter[t] = m /\ mcounter'[t] = e
      BY <1>0, <1>3, <1>4, <1>5, <1>6, <2>1
    <3> HIDE DEF m, l, e
    <3>2. n + 1 <= l /\ (n + 1) + (m - 1) = n + m BY <3>1
    <3> QED BY <3>1, <3>2 DEF l
  <2>2. CASE t # h BY <1>2, <1>6, <2>2
  <2> QED BY <2>1, <2>2
<1>8. ASSUME Plain
      PROVE  /\ CutAt(st, d[h])'
             /\ \A t \in Tables : Said(t)' = ExpectedTo(t, d[t])'
  <2>1. AtCall(calls[n + 1]) /\ NextSub = [start |-> st[n + 1], end |-> st[n + 2]]
    BY <1>2, <1>3, <1>5, <1>8, CallReached
  <2>2. CutAt(st, d[h])'
    <3>1. n + 1 # 0 /\ (n + 1) + 1 = n + 2 BY <1>5
    <3>2. sub' = [start |-> st[n + 1], end |-> st[(n + 1) + 1]] BY <1>0, <2>1, <3>1
    <3> QED BY <1>0, <1>6, <3>1, <3>2 DEF CutAt
  <2>3. Loaded BY <1>0 DEF LoadInv
  <2>4. Added \in Seq(Entries) BY <1>0, AddedGood
  <2>5. ASSUME NEW t \in Tables PROVE Said(t)' = ExpectedTo(t, d[t])'
    <3>1. Said(t)' = SaidIn(log, t) \o SaidIn(Added, t)
      <4>1. SaidIn(log \o Added, t) = SaidIn(log, t) \o SaidIn(Added, t)
        BY <1>4, <2>4, SaidConcat
      <4>2. Said(t)' = SaidIn(log', t) BY DEF Said
      <4> QED BY <1>0, <4>1, <4>2
    <3>2. SaidIn(log, t) = ExpectedTo(t, done[t]) /\ SaidIn(log, t) \in Seq(What)
      BY <1>2, <1>4, <1>8, SaysType DEF Said
    <3>3. SaidIn(Added, t) = IF t = h THEN OfCall(h, calls[n + 1]) ELSE <<>>
      BY <1>0, <2>1, <2>3, AddedSays
    <3>4. ExpectedTo(t, d[t])' = ExpectedTo(t, d[t]) BY <1>0, ExpectedKept
    <3>5. CASE t = h
      <4>1. ExpectedTo(h, n + 1) = ExpectedTo(h, n) \o OfCall(h, calls[n + 1])
        BY <1>0, <1>5, ExpectedNext DEF SafeInv
      <4> QED BY <1>3, <1>6, <3>1, <3>2, <3>3, <3>4, <3>5, <4>1
    <3>6. CASE t # h
      <4>1. Said(t)' = SaidIn(log, t) \o <<>> BY <3>1, <3>3, <3>6
      <4>2. Said(t)' = SaidIn(log, t) BY <3>2, <4>1, ConcatEmptySeq
      <4> QED BY <1>6, <3>2, <3>4, <3>6, <4>2
    <3> QED BY <3>5, <3>6
  <2> QED BY <2>2, <2>5
<1>9. Plain' = Plain /\ NoTargets' = NoTargets /\ \A t \in Tables : Alone(t)' = Alone(t)
  BY <1>0 DEF Plain, NoTargets, Alone
<1>10. \A t \in Tables : t > h => d[t] = 0
  <2>1. ~(h > h) BY <1>0 DEF Tables
  <2> QED BY <1>2, <1>6, <2>1
<1>11. Layout(buffer, calls, st)' BY <1>0, <1>2
<1>12. Matched(st, d)'
  <2>1. /\ \A t \in Tables : Alone(t)' => d[t] + mcounter'[t] = Len(calls)
        /\ \A t \in Tables : d[t] + mcounter'[t] <= Len(calls)
    BY <1>2, <1>7, <1>9
  <2> QED BY <1>0, <1>2, <1>6, <1>7, <1>8, <1>9, <1>10, <1>11, <2>1 DEF Matched
<1> QED BY <1>12 DEF MatchInv

LEMMA MatchNext ==
  NothingOverAll /\ SafeInv /\ LoadInv /\ MatchInv /\ [Next]_vars => MatchInv'
<1> SUFFICES ASSUME NothingOverAll, SafeInv, LoadInv, MatchInv, [Next]_vars PROVE MatchInv'
  OBVIOUS
<1>1. CASE init_hash \/ populate_hash_target \/ fncalls_match_init \/ fncalls_match_finish
  <2>1. /\ UNCHANGED <<tables, buffer, mcounter, h, sub, log, calls>>
        /\ phase' = phase \/ phase' \in {"failed", "ready", "finished"}
    BY <1>1 DEF init_hash, populate_hash_target, fncalls_match_init, fncalls_match_finish, setup
  <2> QED BY <2>1, MatchKept
<1>2. CASE StartFunction BY <1>2, MatchStart
<1>3. CASE WalkCall BY <1>3, MatchWalk
<1>4. CASE output_buffer_write \/ match_output \/ NextTable \/ OutputDone BY <1>4, MatchOutput
<1>5. CASE process_output BY <1>5, MatchProcess
<1>6. CASE UNCHANGED vars BY <1>6, MatchKept DEF vars, setup
<1> QED BY <1>1, <1>2, <1>3, <1>4, <1>5, <1>6 DEF Next

LEMMA MatchImplies == SafeInv /\ MatchInv => OutputIsRight /\ OneTableComplete
<1> SUFFICES ASSUME SafeInv, MatchInv, phase = "ready", Plain, NEW t \in Tables
             PROVE  /\ IsPrefix(Said(t), Expected(t))
                    /\ (\A u \in Tables \ {t} : tables[u] = <<>>) => Said(t) = Expected(t)
  BY DEF OutputIsRight, OneTableComplete
<1>1. PICK st, done : Matched(st, done) BY DEF MatchInv
<1>2. /\ done[t] \in Nat /\ done[t] <= Len(calls)
      /\ Said(t) = ExpectedTo(t, done[t])
      /\ Alone(t) => NoTargets \/ done[t] + mcounter[t] = Len(calls)
  BY <1>1 DEF Matched
<1>3. Len(calls) \in Nat /\ mcounter[t] = 0 BY DEF SafeInv, TextInv, CountInv
<1>4. done[t] \in 0..Len(calls) BY <1>2, <1>3
<1>5. /\ IsPrefix(ExpectedTo(t, done[t]), Expected(t))
      /\ done[t] = Len(calls) => ExpectedTo(t, done[t]) = Expected(t)
  BY <1>4, ExpectedPrefix DEF SafeInv
<1>6. ASSUME Alone(t) PROVE Said(t) = Expected(t)
  <2>1. CASE NoTargets
    <3>1. tables[t] = <<>> BY <2>1 DEF NoTargets
    <3>2. ExpectedTo(t, done[t]) = <<>> /\ ExpectedTo(t, Len(calls)) = <<>>
      BY <1>2, <1>3, <3>1, ExpectedEmpty
    <3>3. Len(calls) \in 0..Len(calls) BY <1>3
    <3>4. ExpectedTo(t, Len(calls)) = Expected(t) BY <3>3, ExpectedPrefix DEF SafeInv
    <3> QED BY <1>2, <3>2, <3>4
  <2>2. CASE done[t] + mcounter[t] = Len(calls)
    <3>1. done[t] = Len(calls) BY <1>2, <1>3, <2>2
    <3> QED BY <1>2, <1>5, <3>1
  <2> QED BY <1>2, <1>6, <2>1, <2>2
<1> QED BY <1>2, <1>5, <1>6 DEF Alone

(* What a table puts out is about the first calls of the function, in      *)
(* order, with what its patterns say of each; and where a build has one    *)
(* table, about all of them.  The hypothesis is what the repository's      *)
(* tables keep to: an expression over the whole call is never compiled,    *)
(* so that a pattern with one would be silently ignored.                   *)
THEOREM OutputRight ==
  ASSUME NothingOverAll
  PROVE  Spec => [](OutputIsRight /\ OneTableComplete)
<1>1. Init => SafeInv /\ LoadInv /\ MatchInv BY SafeInit, LoadInit, MatchInit
<1>2. SafeInv /\ LoadInv /\ MatchInv /\ [Next]_vars => (SafeInv /\ LoadInv /\ MatchInv)'
  BY SafeNext, LoadNext, MatchNext
<1>3. SafeInv /\ LoadInv /\ MatchInv => OutputIsRight /\ OneTableComplete BY MatchImplies
<1> QED BY <1>1, <1>2, <1>3, PTL DEF Spec
=============================================================================
