---------------------------- MODULE LogFileProofs ----------------------------
(***************************************************************************)
(* Logs do not mix, and stay under their names, for every set of           *)
(* compilations, names and texts, every interleaving, and every failure of *)
(* a system call; also while the checker reads them.                       *)
(*                                                                         *)
(* The invariants are not inductive.  What keeps two compilations from     *)
(* sharing a file is where they are in open_log (Alone, Unowned, Unshared) *)
(* and to which name a file belongs (NamesFit).  That the checker tells a  *)
(* check where its call is rests on the types of all it reads, a line      *)
(* being never empty (ReaderInv).  That it checks what was printed rests   *)
(* on where it is in the file it reads: behind some of the functions that  *)
(* were written, whose checks it has made, and some lines of the next one  *)
(* (FollowInv).                                                            *)
(***************************************************************************)
EXTENDS LogChecker, SequenceLemmas, SequenceTheorems, TLAPS

Lexeme == STRING \X STRING

(* Past the lstat of open_log, in front of its open. *)
Inside == {"unlink", "open"}

(* The name a file is made under. *)
NameOf(f) == IF f \in Names THEN f ELSE LogName(f)

(* A file is found only under its own name; one that a compilation made is *)
(* that compilation's own.                                                 *)
NamesFit ==
  /\ \A n \in Names :
       /\ entry[n] \in Files => NameOf(entry[n]) = n
       /\ entry[n] \in Procs => file[entry[n]] = entry[n]
  /\ \A p \in Procs :
       /\ file[p] # NoFile => NameOf(file[p]) = LogName(p)
       /\ file[p] \in Procs => file[file[p]] = file[p]

(* A compilation that met no other is alone inside open_log. *)
Alone ==
  \A p \in Procs \ clash : \A q \in Procs \ {p} :
    LogName(q) = LogName(p) /\ pc[p] \in Inside => pc[q] \notin Inside

(* Whoever was the last to begin has met those that are still inside. *)
LastAlone ==
  \A p \in Procs \ clash : \A q \in Procs \ {p} :
    LogName(q) = LogName(p) /\ last[LogName(p)] = p => pc[q] \notin Inside

(* What a compilation that met no other is about to open is nobody's log. *)
Unowned ==
  \A p \in Procs \ clash : \A q \in Procs :
    pc[p] = "open" /\ file[q] # NoFile => file[q] # entry[LogName(p)]

(* What any compilation is about to open is no log of one that met none. *)
Unshared ==
  \A p \in Procs \ clash : \A q \in Procs :
    pc[q] = "open" /\ file[p] # NoFile => file[p] # entry[LogName(q)]

(* A compilation that met no other is the only one with its file. *)
OwnFile ==
  \A p \in Procs \ clash : \A q \in Procs \ {p} :
    file[p] # NoFile => file[q] # file[p]

(* The texts; before it has a log a compilation has written nothing. *)
Texts ==
  /\ content \in [Files -> Seq(Lexeme)]
  /\ sent \in [Procs -> Seq(Lexeme)]
  /\ \A p \in Procs : file[p] = NoFile => sent[p] = <<>> /\ offset[p] = 0
  /\ next \in [Procs -> Nat \ {0}]

IInv ==
  /\ TypeOK /\ NamesFit /\ Alone /\ LastAlone /\ Unowned /\ Unshared /\ OwnFile
  /\ Texts /\ LogIsOwn /\ NameHoldsLog

(* What a write leaves is a text. *)
LEMMA OverwriteType ==
  ASSUME NEW s \in Seq(Lexeme), NEW at \in Nat, NEW t \in Seq(Lexeme)
  PROVE  Overwrite(s, at, t) \in Seq(Lexeme)
<1>. DEFINE n == Larger(Len(s), at + Len(t))
<1>1. n \in Nat BY DEF Larger
<1>2. ASSUME NEW i \in 1..n
      PROVE  (IF i \in (at + 1)..(at + Len(t)) THEN t[i - at]
              ELSE IF i <= Len(s) THEN s[i] ELSE Nul) \in Lexeme
  <2>1. CASE i \in (at + 1)..(at + Len(t))
    <3>1. i - at \in 1..Len(t) BY <2>1
    <3>2. t[i - at] \in Lexeme BY <3>1, ElementOfSeq
    <3> QED BY <2>1, <3>2
  <2>2. CASE i \notin (at + 1)..(at + Len(t)) /\ i <= Len(s)
    <3>1. i \in 1..Len(s) BY <1>1, <2>2
    <3>2. s[i] \in Lexeme BY <3>1, ElementOfSeq
    <3> QED BY <2>2, <3>2
  <2>3. CASE i \notin (at + 1)..(at + Len(t)) /\ ~(i <= Len(s))
    <3>1. Nul \in Lexeme BY LogFileAssumption DEF Lexeme
    <3> QED BY <2>3, <3>1
  <2> QED BY <2>1, <2>2, <2>3
<1>3. Overwrite(s, at, t) \in [1..n -> Lexeme]
  <2> HIDE DEF n
  <2>1. [i \in 1..n |-> IF i \in (at + 1)..(at + Len(t)) THEN t[i - at]
              ELSE IF i <= Len(s) THEN s[i] ELSE Nul] \in [1..n -> Lexeme]
    BY <1>2
  <2> QED BY <2>1 DEF Overwrite, n
<1> QED
  <2> HIDE DEF n
  <2> QED BY <1>1, <1>3

(* A write at the end of a file appends to it. *)
LEMMA OverwriteAppends ==
  ASSUME NEW s \in Seq(Lexeme), NEW t \in Seq(Lexeme)
  PROVE  Overwrite(s, Len(s), t) = s \o t
<1>1. Larger(Len(s), Len(s) + Len(t)) = Len(s) + Len(t) BY DEF Larger
<1>2. /\ s \o t \in Seq(Lexeme) /\ Len(s \o t) = Len(s) + Len(t)
      /\ \A i \in 1..(Len(s) + Len(t)) :
           (s \o t)[i] = IF i <= Len(s) THEN s[i] ELSE t[i - Len(s)]
  BY ConcatProperties
<1>3. s \o t = [i \in 1..(Len(s) + Len(t)) |-> (s \o t)[i]]
  BY <1>2, LenProperties
<1>4. Overwrite(s, Len(s), t) = [i \in 1..(Len(s) + Len(t)) |->
        IF i \in (Len(s) + 1)..(Len(s) + Len(t)) THEN t[i - Len(s)]
        ELSE IF i <= Len(s) THEN s[i] ELSE Nul]
  BY <1>1 DEF Overwrite
<1>5. \A i \in 1..(Len(s) + Len(t)) :
        (IF i \in (Len(s) + 1)..(Len(s) + Len(t)) THEN t[i - Len(s)]
         ELSE IF i <= Len(s) THEN s[i] ELSE Nul)
        = (s \o t)[i]
  BY <1>2
<1> QED BY <1>3, <1>4, <1>5

(* What write takes of a text is a front of it. *)
LEMMA TakenFront ==
  ASSUME NEW text \in Seq(Lexeme), NEW n \in Taken(text)
  PROVE  n \in 0..Len(text) /\ SubSeq(text, 1, n) \in Seq(Lexeme)
         /\ Len(SubSeq(text, 1, n)) = n
<1>1. n \in 0..Len(text) BY DEF Taken
<1>2. SubSeq(text, 1, n) \in Seq(Lexeme) BY <1>1
<1>3. Len(SubSeq(text, 1, n)) = n BY <1>1
<1> QED BY <1>1, <1>2, <1>3

(* No compilation has begun.                                               *)
LEMMA InitIInv == Init => IInv
<1> SUFFICES ASSUME Init PROVE IInv OBVIOUS
<1>1. \A n \in Names : entry[n] \in {n, NoFile, Link}
  BY LogFileAssumption DEF Init
<1>2. NoFile \notin Files /\ Link \notin Files BY LogFileAssumption
<1>3. TypeOK BY <1>1 DEF Init, TypeOK, States
<1>4. NamesFit
  BY <1>1, LogFileAssumption DEF Init, NamesFit, NameOf, Files
<1>5. Alone /\ LastAlone /\ Unowned /\ Unshared /\ OwnFile /\ LogIsOwn /\ NameHoldsLog
  BY DEF Init, Alone, LastAlone, Unowned, Unshared, OwnFile, LogIsOwn, NameHoldsLog, Inside
<1>6. Texts
  <2>1. ASSUME NEW f \in Files PROVE content[f] \in Seq(Lexeme)
    BY LogFileAssumption DEF Init, Lexeme
  <2>2. content \in [Files -> Seq(Lexeme)] BY <2>1 DEF Init
  <2> QED BY <2>2 DEF Init, Texts
<1> QED BY <1>3, <1>4, <1>5, <1>6 DEF IInv

------------------------------------------------------------------------------
(* The steps of open_log.                                                  *)
LEMMA LstatIInv ==
  ASSUME IInv, NEW p \in Procs, open_log_lstat(p)
  PROVE  IInv'
<1>. DEFINE n == LogName(p)
<1>1. n \in Names BY LogFileAssumption
<1>2. /\ pc[p] = "begin" /\ last' = [last EXCEPT ![n] = p]
      /\ pc' = [pc EXCEPT ![p] = IF entry[n] # NoFile THEN "unlink" ELSE "open"]
      /\ UNCHANGED <<entry, content, file, offset, next, sent, torn>>
  BY DEF open_log_lstat, Goto
<1>3. /\ clash' = IF Between(p) # {} THEN clash \cup Between(p) \cup {p} ELSE clash
      /\ clash \subseteq clash' /\ clash' \subseteq Procs
  BY DEF open_log_lstat, Between, IInv, TypeOK
<1>4. file[p] = NoFile BY <1>2 DEF IInv, TypeOK
<1>5. TypeOK'
  BY <1>1, <1>2, <1>3, <1>4 DEF IInv, TypeOK, States
<1>6. NamesFit' BY <1>2 DEF IInv, NamesFit
<1>7. \A q \in Procs \ {p} :
        LogName(q) = n /\ pc[q] \in Inside => q \in clash' /\ p \in clash'
  BY <1>3 DEF Between, Inside
<1>8. Alone'
  BY <1>2, <1>3, <1>7 DEF IInv, TypeOK, Alone, Inside
<1>9. LastAlone'
  BY <1>1, <1>2, <1>3, <1>7 DEF IInv, TypeOK, LastAlone, Inside
<1>10. Unowned' /\ Unshared'
  BY <1>2, <1>3 DEF IInv, TypeOK, Unowned, Unshared
<1>11. OwnFile' /\ LogIsOwn' BY <1>2, <1>3 DEF IInv, OwnFile, LogIsOwn
<1>12. Texts' BY <1>2 DEF IInv, Texts
<1>13. NameHoldsLog'
  BY <1>1, <1>2, <1>3, <1>4 DEF IInv, TypeOK, NameHoldsLog
<1> QED BY <1>5, <1>6, <1>8, <1>9, <1>10, <1>11, <1>12, <1>13 DEF IInv

(* Behind unlink the name is free: what is opened then is new.             *)
LEMMA UnlinkIInv ==
  ASSUME IInv, NEW p \in Procs, open_log_unlink(p)
  PROVE  IInv'
<1>. DEFINE n == LogName(p)
<1>1. n \in Names BY LogFileAssumption
<1>2. /\ pc[p] = "unlink" /\ pc' = [pc EXCEPT ![p] = "open"]
      /\ entry' = [entry EXCEPT ![n] = NoFile]
      /\ UNCHANGED <<content, file, offset, next, sent, last, clash, torn>>
  BY DEF open_log_unlink, Goto, history
<1>3. entry'[n] = NoFile /\ \A m \in Names \ {n} : entry'[m] = entry[m]
  BY <1>1, <1>2 DEF IInv, TypeOK
<1>4. TypeOK' BY <1>2 DEF IInv, TypeOK, States
<1>5. NamesFit'
  BY <1>2, <1>3, LogFileAssumption DEF IInv, NamesFit, Files
<1>6. Alone' /\ LastAlone'
  BY <1>2 DEF IInv, TypeOK, Alone, LastAlone, Inside
<1>7. Unowned' /\ Unshared'
  BY <1>2, <1>3, LogFileAssumption, SMTT(30) DEF IInv, TypeOK, Unowned, Unshared
<1>8. OwnFile' /\ LogIsOwn' BY <1>2 DEF IInv, OwnFile, LogIsOwn
<1>9. Texts' BY <1>2 DEF IInv, Texts
<1>10. NameHoldsLog'
  <2> SUFFICES ASSUME NEW q \in Procs \ clash, last[LogName(q)] = q, file[q] # NoFile
               PROVE  entry'[LogName(q)] = file[q]
    BY <1>2 DEF NameHoldsLog
  <2>1. q # p BY <1>2 DEF IInv, TypeOK
  <2>2. LogName(q) # n BY <1>2, <2>1 DEF IInv, LastAlone, Inside
  <2>3. LogName(q) \in Names BY LogFileAssumption
  <2> QED BY <1>3, <2>2, <2>3 DEF IInv, NameHoldsLog
<1> QED BY <1>4, <1>5, <1>6, <1>7, <1>8, <1>9, <1>10 DEF IInv

(* When unlink is refused the file may be shared: that is in clash.        *)
LEMMA RefusedIInv ==
  ASSUME IInv, NEW p \in Procs, open_log_unlink_refused(p)
  PROVE  IInv'
<1>. DEFINE n == LogName(p)
            owners == {q \in Procs : file[q] = entry[n]}
<1>1. n \in Names BY LogFileAssumption
<1>2. /\ pc[p] = "unlink" /\ pc' = [pc EXCEPT ![p] = "open"]
      /\ clash' = IF owners # {} THEN clash \cup owners \cup {p} ELSE clash
      /\ UNCHANGED <<entry, content, file, offset, next, sent, last, torn>>
  BY DEF open_log_unlink_refused, Goto
<1>3. clash \subseteq clash' /\ clash' \subseteq Procs
  BY <1>2 DEF IInv, TypeOK
<1>4. TypeOK' BY <1>2, <1>3 DEF IInv, TypeOK, States
<1>5. NamesFit' BY <1>2 DEF IInv, NamesFit
<1>6. Alone' /\ LastAlone'
  BY <1>2, <1>3 DEF IInv, TypeOK, Alone, LastAlone, Inside
<1>7. \A q \in Procs : file[q] = entry[n] => q \in clash' /\ p \in clash'
  BY <1>2
<1>8. Unowned'
  BY <1>2, <1>3, <1>7 DEF IInv, TypeOK, Unowned
<1>9. Unshared'
  BY <1>2, <1>3, <1>7 DEF IInv, TypeOK, Unshared
<1>10. OwnFile' /\ LogIsOwn' /\ NameHoldsLog'
  BY <1>2, <1>3 DEF IInv, OwnFile, LogIsOwn, NameHoldsLog
<1>11. Texts' BY <1>2 DEF IInv, Texts
<1> QED BY <1>4, <1>5, <1>6, <1>8, <1>9, <1>10, <1>11 DEF IInv

(* open: what it truncates belongs to nobody outside clash.                *)
LEMMA OpenIInv ==
  ASSUME IInv, NEW p \in Procs, open_log_open(p)
  PROVE  IInv'
<1>. DEFINE n == LogName(p)
            f == IF entry[n] = NoFile THEN p ELSE entry[n]
<1>1. n \in Names BY LogFileAssumption
<1>2. /\ pc[p] = "open" /\ pc' = [pc EXCEPT ![p] = "header"] /\ entry[n] # Link
      /\ entry' = [entry EXCEPT ![n] = f] /\ content' = [content EXCEPT ![f] = <<>>]
      /\ file' = [file EXCEPT ![p] = f]
      /\ UNCHANGED <<offset, next, sent, last, clash, torn>>
  BY DEF open_log_open, Goto, history
<1>3. file[p] = NoFile /\ f \in Files /\ NoFile \notin Files /\ p \in Files
  BY <1>1, <1>2, LogFileAssumption DEF IInv, TypeOK, Files
<1> HIDE DEF f
<1>4. /\ entry'[n] = f /\ \A m \in Names \ {n} : entry'[m] = entry[m]
      /\ file'[p] = f /\ \A q \in Procs \ {p} : file'[q] = file[q]
      /\ pc'[p] = "header" /\ \A q \in Procs \ {p} : pc'[q] = pc[q]
  BY <1>1, <1>2 DEF IInv, TypeOK
<1>5. TypeOK'
  <2>1. entry' \in [Names -> Files \cup {NoFile, Link}] /\ file' \in [Procs -> Files \cup {NoFile}]
        /\ pc' \in [Procs -> States]
    BY <1>2, <1>3 DEF IInv, TypeOK, States
  <2>2. \A q \in Procs :
          file'[q] = NoFile <=> pc'[q] \in {"begin", "unlink", "open", "failed"}
    BY <1>3, <1>4 DEF IInv, TypeOK
  <2> QED BY <1>2, <2>1, <2>2 DEF IInv, TypeOK
(* The file is new, or the one found under the name. *)
<1>6. NameOf(f) = n /\ (f \in Procs => f = p \/ file[f] = f)
  BY <1>1, <1>2, <1>3, LogFileAssumption DEF f, IInv, TypeOK, NamesFit, NameOf, Files
<1>7. NamesFit'
  <2>1. ASSUME NEW m \in Names, entry'[m] \in Files PROVE NameOf(entry'[m]) = m
    BY <1>4, <1>6, <2>1 DEF IInv, NamesFit
  <2>2. ASSUME NEW m \in Names, entry'[m] \in Procs PROVE file'[entry'[m]] = entry'[m]
    <3>1. CASE m = n
      <4>1. CASE f = p BY <1>4, <3>1, <4>1
      <4>2. CASE f # p BY <1>4, <1>6, <2>2, <3>1, <4>2
      <4> QED BY <4>1, <4>2
    <3>2. CASE m # n
      <4>1. entry'[m] = entry[m] /\ file[entry[m]] = entry[m]
        BY <1>4, <2>2, <3>2 DEF IInv, NamesFit
      <4>2. entry[m] # p BY <1>3, <4>1
      <4> QED BY <1>4, <2>2, <4>1, <4>2
    <3> QED BY <3>1, <3>2
  <2>3. ASSUME NEW q \in Procs, file'[q] # NoFile PROVE NameOf(file'[q]) = LogName(q)
    BY <1>4, <1>6, <2>3 DEF IInv, NamesFit
  <2>4. ASSUME NEW q \in Procs, file'[q] \in Procs PROVE file'[file'[q]] = file'[q]
    <3>1. CASE q = p BY <1>4, <1>6, <2>4, <3>1
    <3>2. CASE q # p
      <4>1. file'[q] = file[q] /\ file[file[q]] = file[q]
        BY <1>4, <2>4, <3>2 DEF IInv, NamesFit
      <4>2. file[q] # p BY <1>3, <4>1
      <4> QED BY <1>4, <2>4, <4>1, <4>2
    <3> QED BY <3>1, <3>2
  <2> QED BY <2>1, <2>2, <2>3, <2>4 DEF NamesFit
<1>8. Alone' /\ LastAlone'
  BY <1>2, <1>4 DEF IInv, Alone, LastAlone, Inside
(* Nobody has a file that has just been made. *)
<1>9. \A q \in Procs : file[q] # NoFile /\ f = p => file[q] # f
  BY <1>3 DEF IInv, NamesFit
<1>10. \A q \in Procs \ clash : file[q] # NoFile => file[q] # f
  BY <1>2, <1>9 DEF f, IInv, Unshared
<1>11. p \notin clash => \A q \in Procs : file[q] # NoFile => file[q] # f
  BY <1>2, <1>9 DEF f, IInv, Unowned
<1>12. Unowned'
  <2> SUFFICES ASSUME NEW q \in Procs \ clash, NEW r \in Procs,
                      pc'[q] = "open", file'[r] # NoFile
               PROVE  file'[r] # entry'[LogName(q)]
    BY <1>2 DEF Unowned
  <2>1. q # p /\ pc[q] = "open" BY <1>4
  <2>2. LogName(q) # n BY <1>2, <2>1 DEF IInv, Alone, Inside
  <2>3. entry'[LogName(q)] = entry[LogName(q)] BY <1>4, <2>2, LogFileAssumption
  <2>4. CASE r = p
    <3>1. entry[LogName(q)] \in Files => NameOf(entry[LogName(q)]) = LogName(q)
      BY LogFileAssumption DEF IInv, NamesFit
    <3> QED BY <1>3, <1>4, <1>6, <2>2, <2>3, <2>4, <3>1
  <2>5. CASE r # p
    BY <1>4, <2>1, <2>3, <2>5 DEF IInv, Unowned
  <2> QED BY <2>4, <2>5
<1>13. Unshared'
  <2> SUFFICES ASSUME NEW q \in Procs \ clash, NEW r \in Procs,
                      pc'[r] = "open", file'[q] # NoFile
               PROVE  file'[q] # entry'[LogName(r)]
    BY <1>2 DEF Unshared
  <2>1. r # p /\ pc[r] = "open" BY <1>4
  <2>2. CASE LogName(r) = n
    <3>1. q # p BY <1>2, <2>1, <2>2 DEF IInv, Alone, Inside
    <3> QED BY <1>4, <1>10, <2>2, <3>1
  <2>3. CASE LogName(r) # n
    <3>1. entry'[LogName(r)] = entry[LogName(r)] BY <1>4, <2>3, LogFileAssumption
    <3>2. entry[LogName(r)] \in Files => NameOf(entry[LogName(r)]) = LogName(r)
      BY LogFileAssumption DEF IInv, NamesFit
    <3>3. CASE q = p BY <1>3, <1>4, <1>6, <2>3, <3>1, <3>2, <3>3
    <3>4. CASE q # p BY <1>4, <2>1, <3>1, <3>4 DEF IInv, Unshared
    <3> QED BY <3>3, <3>4
  <2> QED BY <2>2, <2>3
<1>14. OwnFile'
  BY <1>2, <1>3, <1>4, <1>10, <1>11 DEF IInv, OwnFile
<1>15. Texts'
  <2>1. <<>> \in Seq(Lexeme) OBVIOUS
  <2>2. content' \in [Files -> Seq(Lexeme)] BY <1>2, <2>1 DEF IInv, Texts
  <2> QED BY <1>2, <1>3, <1>4, <2>2 DEF IInv, Texts
<1>16. LogIsOwn'
  <2> SUFFICES ASSUME NEW q \in Procs \ clash, file'[q] # NoFile
               PROVE  content'[file'[q]] = sent[q] /\ offset[q] = Len(sent[q])
    BY <1>2 DEF LogIsOwn
  <2>1. CASE q = p
    <3>1. content'[f] = <<>> BY <1>2, <1>3 DEF IInv, Texts
    <3> QED BY <1>3, <1>4, <2>1, <3>1 DEF IInv, Texts
  <2>2. CASE q # p
    <3>1. file[q] # NoFile /\ file'[q] = file[q] BY <1>4, <2>2
    <3>2. file[q] # f /\ file[q] \in Files BY <1>10, <3>1 DEF IInv, TypeOK
    <3>3. content'[file[q]] = content[file[q]] BY <1>2, <3>2 DEF IInv, Texts
    <3> QED BY <3>1, <3>3 DEF IInv, LogIsOwn
  <2> QED BY <2>1, <2>2
<1>17. NameHoldsLog'
  <2> SUFFICES ASSUME NEW q \in Procs \ clash, last[LogName(q)] = q, file'[q] # NoFile
               PROVE  entry'[LogName(q)] = file'[q]
    BY <1>2 DEF NameHoldsLog
  <2>1. CASE q = p BY <1>4, <2>1
  <2>2. CASE q # p
    <3>1. LogName(q) # n BY <1>2, <2>2 DEF IInv, LastAlone, Inside
    <3> QED BY <1>4, <2>2, <3>1, LogFileAssumption DEF IInv, NameHoldsLog
  <2> QED BY <2>1, <2>2
<1> QED BY <1>5, <1>7, <1>8, <1>12, <1>13, <1>14, <1>15, <1>16, <1>17 DEF IInv

(* A compilation without a log that stops, or one that closes its log.     *)
LEMMA StopIInv ==
  ASSUME IInv, NEW p \in Procs, open_log_fails(p) \/ close_log(p)
  PROVE  IInv'
<1>1. \E to \in States :
        /\ pc' = [pc EXCEPT ![p] = to] /\ to \notin Inside
        /\ to \in {"begin", "unlink", "open", "failed"}
             <=> pc[p] \in {"begin", "unlink", "open", "failed"}
  BY DEF open_log_fails, close_log, Goto, States, Inside
<1>2. UNCHANGED <<entry, content, file, offset, next, sent, last, clash, torn>>
  BY DEF open_log_fails, close_log, history
<1>3. TypeOK' BY <1>1, <1>2 DEF IInv, TypeOK
<1>4. Alone' /\ LastAlone' /\ Unowned' /\ Unshared'
  BY <1>1, <1>2 DEF IInv, TypeOK, Alone, LastAlone, Unowned, Unshared, Inside
<1>5. NamesFit' /\ OwnFile' /\ LogIsOwn' /\ NameHoldsLog' /\ Texts'
  BY <1>2 DEF IInv, NamesFit, OwnFile, LogIsOwn, NameHoldsLog, Texts
<1> QED BY <1>3, <1>4, <1>5 DEF IInv

------------------------------------------------------------------------------
(* Where a compilation is while it has its log open. *)
Writing == {"header", "write", "message", "newline"}

(* Whatever a write puts into a log, nobody else's log changes. *)
LEMMA WriteIInv ==
  ASSUME IInv, NEW p \in Procs, NEW text \in Seq(Lexeme), NEW n \in Taken(text),
         Write(p, text, n), pc[p] \in Writing,
         NEW to \in Writing, pc' = [pc EXCEPT ![p] = to],
         UNCHANGED <<entry, file, last, clash>>, torn' \subseteq Procs,
         next' \in [Procs -> Nat \ {0}]
  PROVE  IInv'
<1>. DEFINE done == SubSeq(text, 1, n)
<1>1. n \in Nat /\ done \in Seq(Lexeme) /\ Len(done) = n BY TakenFront
<1>2. /\ content' = [content EXCEPT ![file[p]] = Overwrite(@, offset[p], done)]
      /\ offset' = [offset EXCEPT ![p] = @ + n]
      /\ sent' = [sent EXCEPT ![p] = @ \o done]
  BY DEF Write
<1> HIDE DEF done
<1>3. file[p] # NoFile /\ file[p] \in Files
  BY DEF Writing, IInv, TypeOK
<1>4. TypeOK' BY <1>1, <1>2 DEF IInv, TypeOK, Writing, States
<1>5. Alone' /\ LastAlone' /\ Unowned' /\ Unshared'
  BY DEF IInv, TypeOK, Alone, LastAlone, Unowned, Unshared, Inside, Writing
<1>6. NamesFit' /\ OwnFile' /\ NameHoldsLog'
  BY DEF IInv, NamesFit, OwnFile, NameHoldsLog
<1>7. /\ sent[p] \in Seq(Lexeme) /\ sent'[p] = sent[p] \o done
      /\ \A q \in Procs \ {p} : sent'[q] = sent[q] /\ offset'[q] = offset[q]
  BY <1>2 DEF IInv, TypeOK, Texts
<1>8. Texts'
  <2>1. sent[p] \o done \in Seq(Lexeme) BY <1>1, <1>7
  <2>2. sent' \in [Procs -> Seq(Lexeme)] BY <1>2, <2>1 DEF IInv, Texts
  <2>3. content[file[p]] \in Seq(Lexeme) /\ offset[p] \in Nat
    BY <1>3 DEF IInv, Texts, TypeOK
  <2>4. Overwrite(content[file[p]], offset[p], done) \in Seq(Lexeme)
    BY <1>1, <2>3, OverwriteType
  <2>5. content' \in [Files -> Seq(Lexeme)] BY <1>2, <2>4 DEF IInv, Texts
  <2> QED BY <1>3, <1>7, <2>2, <2>5 DEF IInv, Texts
<1>9. LogIsOwn'
  <2> SUFFICES ASSUME NEW q \in Procs \ clash, file[q] # NoFile
               PROVE  content'[file[q]] = sent'[q] /\ offset'[q] = Len(sent'[q])
    BY DEF LogIsOwn
  <2>1. CASE q = p
    <3>1. content[file[p]] = sent[p] /\ offset[p] = Len(sent[p])
      BY <1>3, <2>1 DEF IInv, LogIsOwn
    <3>2. content'[file[p]] = Overwrite(content[file[p]], offset[p], done)
      BY <1>2, <1>3 DEF IInv, Texts
    <3>3. content'[file[p]] = sent[p] \o done
      BY <1>1, <1>7, <3>1, <3>2, OverwriteAppends, ZenonT(30)
    <3>4. offset'[p] = Len(sent[p]) + n BY <1>2, <3>1 DEF IInv, TypeOK
    <3>5. Len(sent[p] \o done) = Len(sent[p]) + n BY <1>1, <1>7, ConcatProperties, ZenonT(30)
    <3> QED BY <1>7, <2>1, <3>3, <3>4, <3>5
  <2>2. CASE q # p
    <3>1. file[q] # file[p] BY <2>2 DEF IInv, OwnFile
    <3>2. content'[file[q]] = content[file[q]]
      BY <1>2, <3>1 DEF IInv, Texts, TypeOK
    <3> QED BY <1>7, <2>2, <3>2 DEF IInv, LogIsOwn
  <2> QED BY <2>1, <2>2
<1> QED BY <1>4, <1>5, <1>6, <1>8, <1>9 DEF IInv

(* The writes of the header, of a function and of a report. *)
LEMMA WritesIInv ==
  ASSUME IInv, NEW p \in Procs,
         \/ write_header(p) \/ write_function(p)
         \/ report_prefix(p) \/ report_message(p) \/ report_newline(p)
  PROVE  IInv'
<1>1. next \in [Procs -> Nat \ {0}] BY DEF IInv, Texts
<1>2. {Header, Prefix, Message, Newline} \subseteq Seq(Lexeme)
  BY LogFileAssumption DEF Lexeme
<1>3. CASE write_header(p)
  <2>1. PICK n \in Taken(Header) : Write(p, Header, n) BY <1>3 DEF write_header
  <2>2. /\ pc[p] = "header" /\ pc' = [pc EXCEPT ![p] = "write"]
        /\ UNCHANGED <<entry, file, next, last, clash, torn>>
    BY <1>3 DEF write_header, Goto
  <2> QED BY <1>1, <1>2, <2>1, <2>2, WriteIInv DEF Writing, IInv, TypeOK
<1>4. CASE write_function(p)
  <2>. DEFINE text == Records[p][next[p]]
  <2>1. PICK n \in Taken(text) :
          Write(p, text, n)
          /\ torn' = IF n > 0 /\ n < Len(text) THEN torn \cup {p} ELSE torn
    BY <1>4 DEF write_function
  <2>2. /\ pc[p] = "write" /\ pc' = [pc EXCEPT ![p] = "write"]
        /\ next[p] <= Len(Records[p]) /\ next' = [next EXCEPT ![p] = @ + 1]
        /\ UNCHANGED <<entry, file, last, clash>>
    BY <1>4 DEF write_function, Goto
  <2>3. Records[p] \in Seq(Seq(Lexeme)) BY LogFileAssumption DEF Lexeme
  <2>4. text \in Seq(Lexeme) BY <1>1, <2>2, <2>3
  <2>5. next' \in [Procs -> Nat \ {0}] BY <1>1, <2>2
  <2>6. torn' \subseteq Procs BY <2>1 DEF IInv, TypeOK
  <2> HIDE DEF text
  <2> QED BY <2>1, <2>2, <2>4, <2>5, <2>6, WriteIInv DEF Writing
<1>5. CASE report_prefix(p)
  <2>1. PICK n \in Taken(Prefix) :
          Write(p, Prefix, n) /\ Goto(p, "write", IF n > 0 THEN "message" ELSE "write")
    BY <1>5 DEF report_prefix
  <2>2. UNCHANGED <<entry, file, next, last, clash, torn>> BY <1>5 DEF report_prefix
  <2> QED BY <1>1, <1>2, <2>1, <2>2, WriteIInv DEF Writing, IInv, TypeOK, Goto
<1>6. CASE report_message(p)
  <2>1. PICK n \in Taken(Message) :
          Write(p, Message, n) /\ Goto(p, "message", IF n > 0 THEN "newline" ELSE "write")
    BY <1>6 DEF report_message
  <2>2. UNCHANGED <<entry, file, next, last, clash, torn>> BY <1>6 DEF report_message
  <2> QED BY <1>1, <1>2, <2>1, <2>2, WriteIInv DEF Writing, IInv, TypeOK, Goto
<1>7. CASE report_newline(p)
  <2>1. PICK n \in Taken(Newline) : Write(p, Newline, n) BY <1>7 DEF report_newline
  <2>2. /\ pc[p] = "newline" /\ pc' = [pc EXCEPT ![p] = "write"]
        /\ UNCHANGED <<entry, file, next, last, clash, torn>>
    BY <1>7 DEF report_newline, Goto
  <2> QED BY <1>1, <1>2, <2>1, <2>2, WriteIInv DEF Writing, IInv, TypeOK
<1> QED BY <1>3, <1>4, <1>5, <1>6, <1>7

(* Every step of every compilation keeps the invariant.                    *)
LEMMA NextIInv == IInv /\ [Next]_vars => IInv'
<1> SUFFICES ASSUME IInv, [Next]_vars PROVE IInv' OBVIOUS
<1>1. ASSUME NEW p \in Procs, Step(p) PROVE IInv'
  BY <1>1, LstatIInv, UnlinkIInv, RefusedIInv, OpenIInv, StopIInv, WritesIInv DEF Step
<1>2. CASE UNCHANGED vars
  <2>1. TypeOK' BY <1>2 DEF vars, IInv, TypeOK
  <2>2. NamesFit' /\ Alone' /\ LastAlone' /\ Unowned' /\ Unshared' /\ OwnFile'
    BY <1>2 DEF vars, IInv, NamesFit, Alone, LastAlone, Unowned, Unshared, OwnFile
  <2>3. Texts' /\ LogIsOwn' /\ NameHoldsLog'
    BY <1>2 DEF vars, history, IInv, Texts, LogIsOwn, NameHoldsLog
  <2> QED BY <2>1, <2>2, <2>3 DEF IInv
<1> QED BY <1>1, <1>2 DEF Next

(* However compilations interleave and whatever fails: a log has what its  *)
(* own compilation wrote and nothing else, and the last one to begin finds *)
(* its log under its name, as long as no two are inside open_log at a time.*)
THEOREM LogsSafe == Spec => [](TypeOK /\ LogIsOwn /\ NameHoldsLog)
<1>1. IInv => TypeOK /\ LogIsOwn /\ NameHoldsLog BY DEF IInv
<1> QED BY <1>1, InitIInv, NextIInv, PTL DEF Spec

(* The checker only reads: with it, compilations still do as LogFile says. *)
THEOREM CheckerLeavesLogs == LogsSpec => Spec
<1>1. LogsInit => Init BY DEF LogsInit
<1>2. [LogsNext]_allVars => [Next]_vars BY DEF LogsNext, allVars
<1> QED BY <1>1, <1>2, PTL DEF LogsSpec, Spec

(* So the logs are safe while they are read. *)
THEOREM LogsSafeWhileRead == LogsSpec => [](LogIsOwn /\ NameHoldsLog)
BY LogsSafe, CheckerLeavesLogs, PTL

------------------------------------------------------------------------------
(***************************************************************************)
(* The checker.                                                            *)
(***************************************************************************)
(* What a line of a call or of a declaration is, a function being read,    *)
(* and all that was read of a file.                                        *)
Line == Seq(Lexeme) \ {<<>>}

Reading == [new : BOOLEAN, lines : Seq(Line), subcall : Seq(Lexeme)]

Parsing == [calls : Seq(Seq(Line)), now : Reading]

Hit == [idx : Nat, call : Line]

Result == [file : Files, upto : Nat, calls : Seq(Seq(Line)), hits : Seq(Seq(Hit))]

ReaderInv ==
  /\ status \in {"new", "run", "exit"}
  /\ input \in [name : Arguments \cup {NoFile}, file : Files \cup {NoFile}, pos : Nat]
  /\ input # NoInput => status = "run" /\ input.file \in Files
  /\ todo \subseteq Arguments /\ result \in {-1, 0}
  /\ parsed \in Parsing /\ (~parsed.now.new => parsed.now = NoFunction)
  /\ checked \in Seq(Result) /\ nr_files = Len(checked)
  /\ ChecksSelectedCalls

(* The lexemes of a text behind pos up to e are one line of it.            *)
IsLine(s, pos, line, e) ==
  /\ s \in Seq(Lexeme) /\ line \in Line
  /\ pos \in Nat /\ e \in (pos + 1)..Len(s) /\ Len(line) = e - pos
  /\ \A i \in 1..(e - pos) : line[i] = s[pos + i]
  /\ \A x \in (pos + 1)..(e - 1) : ~EndsLine(s[x])
  /\ e = Len(s) \/ EndsLine(s[e])

LEMMA NextLineIs ==
  ASSUME NEW s \in Seq(Lexeme), NEW pos \in Nat, pos < Len(s)
  PROVE  IsLine(s, pos, NextLine(s, pos), pos + Len(NextLine(s, pos)))
<1>. DEFINE rest == SubSeq(s, pos + 1, Len(s))
            ends == {i \in 1..Len(rest) : EndsLine(rest[i])}
            end == IF ends # {} THEN Min(ends) ELSE 0
            upto == IF end > 0 THEN end ELSE Len(rest)
            n == Len(s)
<1>0. n \in Nat /\ pos < n BY LenProperties
<1>1. /\ rest \in Seq(Lexeme) /\ Len(rest) = n - pos
      /\ \A i \in 1..(n - pos) : rest[i] = s[pos + i]
  <2>1. pos + 1 \in Int /\ n \in Int /\ \A i \in (pos + 1)..n : s[i] \in Lexeme
    BY ElementOfSeq
  <2>2. /\ rest \in Seq(Lexeme) /\ Len(rest) = IF pos + 1 <= n THEN n - (pos + 1) + 1 ELSE 0
        /\ \A i \in 1..(n - (pos + 1) + 1) : rest[i] = s[pos + 1 + i - 1]
    BY <2>1, SubSeqProperties
  <2> HIDE DEF rest
  <2>3. n - (pos + 1) + 1 = n - pos /\ \A i \in 1..(n - pos) : pos + 1 + i - 1 = pos + i
    BY <1>0
  <2>4. PICK r, m : r = rest /\ m = n OBVIOUS
  <2>5. /\ r \in Seq(Lexeme) /\ Len(r) = m - pos
        /\ \A i \in 1..(m - pos) : r[i] = s[pos + i]
    <3>1. m \in Nat /\ pos + 1 <= m BY <1>0, <2>4
    <3>2. Len(r) = m - pos BY <2>2, <2>3, <2>4, <3>1
    <3>3. \A i \in 1..(m - pos) : r[i] = s[pos + 1 + i - 1] BY <2>2, <2>3, <2>4
    <3> QED BY <2>2, <2>3, <2>4, <3>2, <3>3
  <2> HIDE DEF n
  <2> QED BY <2>4, <2>5
<1>2. Len(rest) \in Nat \ {0} BY <1>0, <1>1
<1> HIDE DEF rest
<1>3. /\ end \in 0..Len(rest)
      /\ end = 0 => ends = {}
      /\ end # 0 => end \in ends /\ \A i \in ends : end <= i
  <2>1. CASE ends = {} BY <1>2, <2>1
  <2>2. CASE ends # {}
    <3>1. ends \subseteq Nat BY <1>2
    <3>2. \E i \in ends : \A j \in ends : i <= j
      <4> HIDE DEF ends
      <4> QED BY <2>2, <3>1, LeastNatural
    <3>3. Min(ends) \in ends /\ \A j \in ends : Min(ends) <= j
      <4> HIDE DEF ends
      <4> QED BY <3>2 DEF Min
    <3> QED BY <1>2, <2>2, <3>3
  <2> QED BY <2>1, <2>2
<1>4. SelectInSeq(rest, EndsLine) = end BY DEF SelectInSeq
<1>5. NextLine(s, pos) = SubSeq(rest, 1, upto) BY <1>4 DEF NextLine, rest
<1> HIDE DEF end
<1>6. /\ upto \in 1..Len(rest)
      /\ \A i \in 1..(upto - 1) : ~EndsLine(rest[i])
      /\ upto = Len(rest) \/ EndsLine(rest[upto])
  BY <1>2, <1>3
<1> HIDE DEF upto, ends
<1>7. PICK line : line = SubSeq(rest, 1, upto) OBVIOUS
<1>8. line \in Seq(Lexeme) /\ Len(line) = upto /\ \A i \in 1..upto : line[i] = rest[i]
  <2>1. \A i \in 1..upto : rest[i] \in Lexeme BY <1>1, <1>2, <1>6, ElementOfSeq
  <2>2. /\ line \in Seq(Lexeme) /\ Len(line) = IF 1 <= upto THEN upto - 1 + 1 ELSE 0
        /\ \A i \in 1..(upto - 1 + 1) : line[i] = rest[1 + i - 1]
    BY <1>2, <1>6, <1>7, <2>1, SubSeqProperties
  <2> QED BY <1>6, <2>2
<1>9. line \in Line BY <1>6, <1>8, EmptySeq DEF Line
<1>. DEFINE e == pos + upto
<1>10. e \in (pos + 1)..n /\ e - pos = upto BY <1>0, <1>1, <1>6
<1>11. \A i \in 1..(e - pos) : line[i] = s[pos + i]
  <2> SUFFICES ASSUME NEW i \in 1..(e - pos) PROVE line[i] = s[pos + i] OBVIOUS
  <2> HIDE DEF e, n
  <2>1. i \in 1..upto /\ i \in 1..(n - pos) BY <1>0, <1>1, <1>6, <1>10
  <2> QED BY <1>1, <1>8, <2>1
<1>12. \A x \in (pos + 1)..(e - 1) : ~EndsLine(s[x])
  <2> SUFFICES ASSUME NEW x \in (pos + 1)..(e - 1) PROVE ~EndsLine(s[x]) OBVIOUS
  <2>1. x - pos \in 1..(upto - 1) /\ x - pos \in 1..(n - pos) /\ pos + (x - pos) = x
    BY <1>0, <1>1, <1>6
  <2>2. rest[x - pos] = s[x] BY <1>1, <2>1
  <2> QED BY <1>6, <2>1, <2>2
<1>13. e = n \/ EndsLine(s[e])
  <2>1. upto \in 1..(n - pos) BY <1>0, <1>1, <1>6
  <2>2. rest[upto] = s[e] BY <1>1, <2>1
  <2>3. upto = Len(rest) => e = n BY <1>0, <1>1
  <2> QED BY <1>6, <2>2, <2>3
<1>14. Len(line) = e - pos BY <1>8, <1>10
<1> HIDE DEF e
<1>15. IsLine(s, pos, line, e) BY <1>9, <1>10, <1>11, <1>12, <1>13, <1>14 DEF IsLine, n
<1> QED BY <1>5, <1>7, <1>8, <1>15 DEF e

(* A blank line begins no function. *)
LEMMA BlankIsNoDecl == Blank[1][1] # "decl"
BY DEF Blank

(* Reading keeps the shape of what was read. *)
LEMMA ParseType ==
  ASSUME NEW p \in Parsing, ~p.now.new => p.now = NoFunction, NEW line \in Line
  PROVE  LET q == parse_input_calls(p, line)
         IN q \in Parsing /\ (~q.now.new => q.now = NoFunction)
<1>. DEFINE q == parse_input_calls(p, line)
<1>1. p.now \in Reading /\ p.calls \in Seq(Seq(Line)) /\ line \in Seq(Lexeme) /\ line # <<>>
  BY DEF Parsing, Line
<1>2. p.now.subcall \in Seq(Lexeme) /\ p.now.lines \in Seq(Line) BY <1>1 DEF Reading
<1>3. AddLine(p.now, line) \in Reading /\ AddLine(p.now, line).new
  <2>1. p.now.subcall \o line \in Seq(Lexeme)
        /\ Len(p.now.subcall \o line) = Len(p.now.subcall) + Len(line)
    BY <1>1, <1>2
  <2>2. p.now.subcall \o line \in Line
    BY <1>1, <1>2, <2>1, EmptySeq DEF Line
  <2>3. CASE next_is_subcall(line)
    <3>1. AddLine(p.now, line)
            = [p.now EXCEPT !.new = TRUE, !.subcall = p.now.subcall \o line]
      BY <2>3 DEF AddLine
    <3> QED BY <1>1, <2>1, <3>1 DEF Reading
  <2>4. CASE ~next_is_subcall(line)
    <3>1. AddLine(p.now, line)
            = [new |-> TRUE, lines |-> Append(p.now.lines, p.now.subcall \o line), subcall |-> <<>>]
      BY <2>4 DEF AddLine
    <3>2. Append(p.now.lines, p.now.subcall \o line) \in Seq(Line) BY <1>2, <2>2
    <3> QED BY <3>1, <3>2 DEF Reading
  <2> QED BY <2>3, <2>4
<1>4. NoFunction \in Reading BY DEF NoFunction, Reading
<1>5. CASE p.now.new /\ line = Blank
  <2>1. q = [calls |-> Append(p.calls, p.now.lines), now |-> NoFunction]
    BY <1>5, BlankIsNoDecl DEF parse_input_calls
  <2>2. Append(p.calls, p.now.lines) \in Seq(Seq(Line)) BY <1>1, <1>2
  <2> QED BY <1>4, <2>1, <2>2 DEF Parsing
<1>6. CASE ~(p.now.new /\ line = Blank)
           /\ ((p.now.new /\ line # Blank) \/ line[1][1] = "decl")
  <2>1. q = [p EXCEPT !.now = AddLine(p.now, line)] BY <1>6 DEF parse_input_calls
  <2> HIDE DEF q
  <2>2. q \in Parsing /\ q.now = AddLine(p.now, line) BY <1>3, <2>1 DEF Parsing
  <2> QED BY <1>3, <2>2 DEF q
<1>7. CASE ~(p.now.new /\ line = Blank)
           /\ ~((p.now.new /\ line # Blank) \/ line[1][1] = "decl")
  <2>1. q = p BY <1>7 DEF parse_input_calls
  <2> QED BY <2>1
<1> QED BY <1>5, <1>6, <1>7

(* Which lines name a call that is to be checked. *)
LEMMA CompiledCall ==
  ASSUME NEW line \in Line
  PROVE  is_compiled_call(get_fnname(line)) <=>
           \E name \in Exports :
             /\ line[1] = <<"call", name>>
             /\ Selects(selected, "*") \/ Selects(selected, name)
<1>1. line[1] \in STRING \X STRING
  <2>1. line \in Seq(Lexeme) /\ Len(line) # 0 BY EmptySeq DEF Line
  <2>2. 1 \in 1..Len(line) BY <2>1
  <2>3. line[1] \in Lexeme BY <2>1, <2>2, ElementOfSeq
  <2> QED BY <2>3 DEF Lexeme
<1>. DEFINE kind == line[1][1]
            name == line[1][2]
<1>2. line[1] = <<kind, name>> BY <1>1
<1>3. get_fnname(line) = IF kind = "call" THEN name ELSE "None" BY <1>2 DEF get_fnname
<1>4. CASE kind = "call"
  BY <1>2, <1>3, <1>4 DEF is_compiled_call, ALL_COMPILED_FUNCTIONS
<1>5. CASE kind # "call"
  <2>1. ~is_compiled_call(get_fnname(line))
    BY <1>3, <1>5, CheckerAssumption DEF is_compiled_call
  <2> QED BY <1>2, <1>5, <2>1
<1> QED BY <1>4, <1>5
(* The checks made of a function. *)
RightHits(lines, hits) ==
  /\ \A h \in DOMAIN hits : lines[hits[h].idx + 1] = hits[h].call
  /\ {hits[h].idx : h \in DOMAIN hits} =
       {i \in 1..(Len(lines) - 1) :
          \E name \in Exports :
            /\ lines[i + 1][1] = <<"call", name>>
            /\ Selects(selected, "*") \/ Selects(selected, name)}

LEMMA ChecksRight ==
  ASSUME NEW lines \in Seq(Line)
  PROVE  /\ check_fncalls(lines) \in Seq(Hit)
         /\ RightHits(lines, check_fncalls(lines))
<1>. DEFINE n == Len(lines)
            numbers == [i \in DOMAIN lines |-> i]
            right == {i \in DOMAIN lines \ {1} : is_compiled_call(get_fnname(lines[i]))}
            hits == check_fncalls(lines)
<1>1. n \in Nat /\ DOMAIN lines = 1..n OBVIOUS
<1>2. numbers \in Seq(1..n) /\ Len(numbers) = n /\ {numbers[i] : i \in 1..n} = 1..n
  <2>1. numbers = [i \in 1..n |-> i] BY <1>1
  <2>2. numbers \in [1..n -> 1..n] BY <2>1
  <2>3. {numbers[i] : i \in 1..n} = 1..n BY <2>1
  <2> HIDE DEF numbers, n
  <2> QED BY <1>1, <2>2, <2>3
<1>3. PICK kept : kept = Kept(numbers, right) OBVIOUS
<1>4. kept \in Seq(1..n) /\ {kept[k] : k \in 1..Len(kept)} = right
  <2> HIDE DEF numbers, n
  <2>1. kept \in Seq(1..n) BY <1>2, <1>3, KeptType
  <2>2. ToSet(kept) = ToSet(numbers) \cap right
    <3> HIDE DEF right
    <3> QED BY <1>2, <1>3, KeptElements
  <2>3. ToSet(numbers) = 1..n BY <1>2, SMTT(30) DEF ToSet
  <2>4. ToSet(kept) = {kept[k] : k \in 1..Len(kept)} BY <2>1 DEF ToSet
  <2>5. right \subseteq 1..n BY <1>1
  <2> HIDE DEF right
  <2> QED BY <2>1, <2>2, <2>3, <2>4, <2>5
<1>5. hits = [k \in DOMAIN kept |-> [idx |-> kept[k] - 1, call |-> lines[kept[k]]]]
  BY <1>3 DEF check_fncalls, Compiled
<1>6. DOMAIN kept = 1..Len(kept) /\ Len(kept) \in Nat BY <1>4
<1> HIDE DEF hits, numbers
<1>7. \A k \in 1..Len(kept) : kept[k] \in 1..n /\ lines[kept[k]] \in Line
  <2> HIDE DEF n
  <2>1. \A k \in 1..Len(kept) : kept[k] \in 1..n BY <1>4, ElementOfSeq
  <2>2. \A i \in 1..n : lines[i] \in Line BY ElementOfSeq DEF n
  <2> QED BY <2>1, <2>2
<1>8. hits \in Seq(Hit)
  <2>1. ASSUME NEW k \in 1..Len(kept)
        PROVE  [idx |-> kept[k] - 1, call |-> lines[kept[k]]] \in Hit
    <3>1. kept[k] \in 1..n /\ lines[kept[k]] \in Line BY <1>7
    <3>2. kept[k] - 1 \in Nat BY <1>1, <3>1
    <3> QED BY <3>1, <3>2 DEF Hit
  <2>2. hits \in [1..Len(kept) -> Hit] BY <1>5, <1>6, <2>1
  <2> QED BY <1>6, <2>2
<1>9. ASSUME NEW h \in DOMAIN hits
      PROVE  /\ h \in 1..Len(kept) /\ kept[h] \in Int
             /\ hits[h].idx = kept[h] - 1 /\ hits[h].call = lines[kept[h]]
  <2>1. h \in DOMAIN kept /\ hits[h] = [idx |-> kept[h] - 1, call |-> lines[kept[h]]]
    BY <1>5
  <2> QED BY <1>1, <1>6, <1>7, <2>1
<1>10. \A h \in DOMAIN hits : lines[hits[h].idx + 1] = hits[h].call
  <2> SUFFICES ASSUME NEW h \in DOMAIN hits PROVE lines[hits[h].idx + 1] = hits[h].call
    OBVIOUS
  <2>1. hits[h].idx + 1 = kept[h] BY <1>9
  <2> QED BY <1>9, <2>1
<1>. DEFINE Selected(line) == \E name \in Exports :
                                /\ line[1] = <<"call", name>>
                                /\ Selects(selected, "*") \/ Selects(selected, name)
<1>11. \A i \in 1..n : is_compiled_call(get_fnname(lines[i])) <=> Selected(lines[i])
  <2> SUFFICES ASSUME NEW i \in 1..n
               PROVE  is_compiled_call(get_fnname(lines[i])) <=> Selected(lines[i])
    OBVIOUS
  <2>1. lines[i] \in Line BY <1>1, ElementOfSeq
  <2> QED BY <2>1, CompiledCall
<1> HIDE DEF Selected
<1>12. {hits[h].idx : h \in DOMAIN hits} = {i \in 1..(n - 1) : Selected(lines[i + 1])}
  <2>1. ASSUME NEW h \in DOMAIN hits
        PROVE  hits[h].idx \in {i \in 1..(n - 1) : Selected(lines[i + 1])}
    <3>1. kept[h] \in right BY <1>4, <1>9
    <3>2. kept[h] \in 2..n /\ Selected(lines[kept[h]]) BY <1>1, <1>11, <3>1
    <3>3. PICK i : i = kept[h] OBVIOUS
    <3>4. i - 1 \in 1..(n - 1) /\ (i - 1) + 1 = i BY <1>1, <3>2, <3>3
    <3>5. hits[h].idx = i - 1 BY <1>9, <3>3
    <3> HIDE DEF n
    <3> QED BY <3>2, <3>3, <3>4, <3>5
  <2>2. ASSUME NEW i \in 1..(n - 1), Selected(lines[i + 1])
        PROVE  \E h \in DOMAIN hits : hits[h].idx = i
    <3>1. i + 1 \in 1..n /\ i + 1 # 1 BY <1>1
    <3>2. i + 1 \in right BY <1>1, <1>11, <2>2, <3>1
    <3>3. PICK h \in 1..Len(kept) : kept[h] = i + 1 BY <1>4, <3>2
    <3>4. h \in DOMAIN hits BY <1>5, <1>6
    <3>5. hits[h].idx = kept[h] - 1 BY <1>9, <3>4
    <3> QED BY <1>1, <3>3, <3>4, <3>5
  <2> HIDE DEF n
  <2> QED BY <2>1, <2>2
<1>13. \A i : Selected(lines[i + 1]) <=>
               \E name \in Exports :
                 /\ lines[i + 1][1] = <<"call", name>>
                 /\ Selects(selected, "*") \/ Selects(selected, name)
  BY DEF Selected
<1>14. {hits[h].idx : h \in DOMAIN hits} =
         {i \in 1..(Len(lines) - 1) :
            \E name \in Exports :
              /\ lines[i + 1][1] = <<"call", name>>
              /\ Selects(selected, "*") \/ Selects(selected, name)}
  BY <1>12, <1>13
<1>15. RightHits(lines, hits) BY <1>10, <1>14, Zenon DEF RightHits
<1> QED BY <1>8, <1>15 DEF hits

(* Nothing is read yet. *)
LEMMA InitReader == CheckerInit => ReaderInv
<1> SUFFICES ASSUME CheckerInit PROVE ReaderInv OBVIOUS
<1>1. NoFunction \in Reading BY DEF NoFunction, Reading
<1>2. parsed \in Parsing /\ parsed.now = NoFunction BY <1>1 DEF CheckerInit, Parsing
<1>3. ChecksSelectedCalls BY DEF CheckerInit, ChecksSelectedCalls
<1> QED BY <1>2, <1>3 DEF CheckerInit, ReaderInv, NoInput

(* What was checked stays right: the selected calls do not change. *)
LEMMA SelectedChecks ==
  ChecksSelectedCalls <=>
    \A k \in DOMAIN checked : \A f \in DOMAIN checked[k].calls :
      RightHits(checked[k].calls[f], checked[k].hits[f])
BY Zenon DEF ChecksSelectedCalls, RightHits

LEMMA ChecksStay ==
  ASSUME ChecksSelectedCalls, UNCHANGED <<selected, checked>>
  PROVE  ChecksSelectedCalls'
BY DEF ChecksSelectedCalls, Selects

(* Every step of the checker keeps its invariant.                          *)
LEMMA CheckerReader ==
  ASSUME IInv, ReaderInv, CheckerStep
  PROVE  ReaderInv'
<1>1. /\ status \in {"new", "run", "exit"} /\ todo \subseteq Arguments /\ result \in {-1, 0}
      /\ input \in [name : Arguments \cup {NoFile}, file : Files \cup {NoFile}, pos : Nat]
      /\ input # NoInput => status = "run" /\ input.file \in Files
      /\ parsed \in Parsing /\ (~parsed.now.new => parsed.now = NoFunction)
      /\ checked \in Seq(Result) /\ nr_files = Len(checked) /\ ChecksSelectedCalls
  BY DEF ReaderInv
<1>2. NoFunction \in Reading BY DEF NoFunction, Reading
<1>3. \A f \in Files : content[f] \in Seq(Lexeme) BY DEF IInv, Texts
<1>4. CASE run
  <2>1. /\ todo' \subseteq Arguments /\ result' \in {-1, 0}
        /\ status = "new" /\ status' \in {"run", "exit"}
        /\ UNCHANGED <<selected, input, parsed, nr_files, checked>>
    BY <1>4 DEF run
  <2>2. ChecksSelectedCalls' BY <1>1, <2>1, ChecksStay
  <2> QED BY <1>1, <2>1, <2>2 DEF ReaderInv
<1>5. ASSUME NEW name \in Arguments, open_input(name) PROVE ReaderInv'
  <2>1. /\ status = "run" /\ todo' \subseteq todo
        /\ input' = [name |-> name, file |-> entry[name], pos |-> 0]
        /\ entry[name] \in Files
        /\ parsed' = [calls |-> <<>>, now |-> NoFunction]
        /\ UNCHANGED <<status, selected, nr_files, result, checked>>
    BY <1>5 DEF open_input, IsFile
  <2>2. parsed' \in Parsing /\ parsed'.now = NoFunction BY <1>2, <2>1 DEF Parsing
  <2>3. ChecksSelectedCalls' BY <1>1, <2>1, ChecksStay
  <2> QED BY <1>1, <2>1, <2>2, <2>3 DEF ReaderInv
<1>6. ASSUME NEW name \in Arguments, open_input_fails(name) PROVE ReaderInv'
  <2>1. /\ todo' \subseteq todo
        /\ UNCHANGED <<status, selected, input, parsed, nr_files, result, checked>>
    BY <1>6 DEF open_input_fails
  <2>2. ChecksSelectedCalls' BY <1>1, <2>1, ChecksStay
  <2> QED BY <1>1, <2>1, <2>2 DEF ReaderInv
<1>7. CASE read_line
  <2>. DEFINE line == NextLine(Text, input.pos)
  <2>1. /\ input # NoInput /\ input.pos < Len(Text)
        /\ parsed' = parse_input_calls(parsed, line)
        /\ input' = [input EXCEPT !.pos = @ + Len(line)]
        /\ UNCHANGED <<status, selected, todo, nr_files, result, checked>>
    BY <1>7 DEF read_line
  <2>2. Text \in Seq(Lexeme) /\ input.pos \in Nat BY <1>1, <1>3, <2>1 DEF Text
  <2>3. line \in Line BY <2>1, <2>2, NextLineIs DEF IsLine
  <2>4. Len(line) \in Nat BY <2>3 DEF Line
  <2> HIDE DEF line
  <2>5. /\ parse_input_calls(parsed, line) \in Parsing
        /\ ~parse_input_calls(parsed, line).now.new
             => parse_input_calls(parsed, line).now = NoFunction
    BY <1>1, <2>3, ParseType
  <2>6. parsed' \in Parsing /\ (~parsed'.now.new => parsed'.now = NoFunction)
    BY <2>1, <2>5
  <2>7. /\ input' \in [name : Arguments \cup {NoFile}, file : Files \cup {NoFile}, pos : Nat]
        /\ input'.file = input.file
    BY <1>1, <2>1, <2>2, <2>4, SMTT(30)
  <2>8. ChecksSelectedCalls' BY <1>1, <2>1, ChecksStay
  <2> QED BY <1>1, <2>1, <2>6, <2>7, <2>8 DEF ReaderInv
<1>8. CASE process_fncalls
  <2>. DEFINE hits == [i \in DOMAIN parsed.calls |-> check_fncalls(parsed.calls[i])]
              new == [file |-> input.file, upto |-> input.pos, calls |-> parsed.calls,
                      hits |-> hits]
              n == Len(checked)
  <2>1. /\ input # NoInput /\ checked' = Append(checked, new)
        /\ nr_files' = nr_files + 1 /\ input' = NoInput
        /\ UNCHANGED <<status, selected, todo, parsed, result>>
    BY <1>8 DEF process_fncalls
  <2>2. parsed.calls \in Seq(Seq(Line)) BY <1>1 DEF Parsing
  <2>3. ASSUME NEW i \in DOMAIN parsed.calls
        PROVE  /\ check_fncalls(parsed.calls[i]) \in Seq(Hit)
               /\ RightHits(parsed.calls[i], check_fncalls(parsed.calls[i]))
    <3>1. i \in 1..Len(parsed.calls) BY <2>2
    <3>2. parsed.calls[i] \in Seq(Line) BY <2>2, <3>1, ElementOfSeq
    <3> QED BY <3>2, ChecksRight
  <2>4. hits \in Seq(Seq(Hit)) /\ \A i \in DOMAIN parsed.calls : hits[i] = check_fncalls(parsed.calls[i])
    <3>1. DOMAIN parsed.calls = 1..Len(parsed.calls) /\ Len(parsed.calls) \in Nat BY <2>2
    <3>2. hits \in [1..Len(parsed.calls) -> Seq(Hit)] BY <2>3, <3>1
    <3> QED BY <3>1, <3>2
  <2> HIDE DEF hits
  <2>5. new \in Result BY <1>1, <2>1, <2>2, <2>4 DEF Result
  <2>6. new.calls = parsed.calls /\ new.hits = hits OBVIOUS
  <2> HIDE DEF new
  <2>7. /\ checked' \in Seq(Result) /\ Len(checked') = n + 1 /\ n \in Nat
        /\ DOMAIN checked' = 1..(n + 1) /\ DOMAIN checked = 1..n
        /\ checked'[n + 1] = new /\ \A k \in 1..n : checked'[k] = checked[k]
    BY <1>1, <2>1, <2>5
  <2>8. ChecksSelectedCalls'
    <3>1. selected' = selected BY <2>1
    <3>2. ASSUME NEW k \in DOMAIN checked', NEW f \in DOMAIN checked'[k].calls
          PROVE  RightHits(checked'[k].calls[f], checked'[k].hits[f])
      <4>1. CASE k \in 1..n BY <1>1, <2>7, <3>2, <4>1, SelectedChecks
      <4>2. CASE k = n + 1
        <5>1. f \in DOMAIN parsed.calls BY <2>6, <2>7, <3>2, <4>2
        <5> QED BY <2>3, <2>4, <2>6, <2>7, <4>2, <5>1
      <4> QED BY <2>7, <4>1, <4>2
    <3>3. ASSUME NEW k \in DOMAIN checked', NEW f \in DOMAIN checked'[k].calls
          PROVE  LET lines == checked'[k].calls[f]  hs == checked'[k].hits[f]
                 IN /\ \A h \in DOMAIN hs : lines[hs[h].idx + 1] = hs[h].call
                    /\ {hs[h].idx : h \in DOMAIN hs} =
                         {i \in 1..(Len(lines) - 1) :
                            \E name \in Exports :
                              /\ lines[i + 1][1] = <<"call", name>>
                              /\ Selects(selected', "*") \/ Selects(selected', name)}
      <4>1. RightHits(checked'[k].calls[f], checked'[k].hits[f]) BY <3>2
      <4> QED BY <3>1, <4>1, Zenon DEF RightHits
    <3> QED BY <3>3, Zenon DEF ChecksSelectedCalls
  <2>9. NoInput \in [name : Arguments \cup {NoFile}, file : Files \cup {NoFile}, pos : Nat]
    BY DEF NoInput
  <2>10. nr_files' = Len(checked') BY <1>1, <2>1, <2>7
  <2> QED BY <1>1, <2>1, <2>7, <2>8, <2>9, <2>10 DEF ReaderInv
<1>9. CASE run_returns
  <2>1. /\ input = NoInput /\ status' = "exit" /\ result' \in {-1, 0}
        /\ UNCHANGED <<selected, todo, input, parsed, nr_files, checked>>
    BY <1>9 DEF run_returns
  <2>2. ChecksSelectedCalls' BY <1>1, <2>1, ChecksStay
  <2> QED BY <1>1, <2>1, <2>2 DEF ReaderInv
<1> QED BY <1>4, <1>5, <1>6, <1>7, <1>8, <1>9 DEF CheckerStep

(* Reading while compilations write: the checker reads at most one file at *)
(* a time, and however its reads and their writes interleave, a check is   *)
(* made of the selected calls of a function and of no others, and is told  *)
(* where its call is.                                                      *)
THEOREM CheckerSafe == LogsSpec => [](CheckerTypeOK /\ ChecksSelectedCalls)
<1>. DEFINE Both == IInv /\ ReaderInv
<1>1. LogsInit => Both BY InitIInv, InitReader DEF LogsInit
<1>2. Both /\ [LogsNext]_allVars => Both'
  <2> SUFFICES ASSUME IInv, ReaderInv, [LogsNext]_allVars PROVE IInv' /\ ReaderInv'
    OBVIOUS
  <2>1. [Next]_vars BY DEF LogsNext, allVars
  <2>2. IInv' BY <2>1, NextIInv
  <2>3. CASE UNCHANGED checkerVars
    <3>1. UNCHANGED <<status, selected, todo, input, parsed, nr_files, result, checked>>
      BY <2>3 DEF checkerVars
    <3>2. ChecksSelectedCalls' BY <3>1, ChecksStay DEF ReaderInv
    <3> QED BY <2>2, <3>1, <3>2 DEF ReaderInv
  <2>4. CASE CheckerStep BY <2>2, <2>4, CheckerReader
  <2> QED BY <2>3, <2>4 DEF LogsNext, allVars
<1>3. Both => CheckerTypeOK /\ ChecksSelectedCalls
  BY DEF IInv, ReaderInv, CheckerTypeOK
<1> QED BY <1>1, <1>2, <1>3, PTL DEF LogsSpec

------------------------------------------------------------------------------
(***************************************************************************)
(* The checker finds what was printed.                                     *)
(***************************************************************************)
(* Where the calls of a text end, and what is behind the last of them.     *)
CallEnds(text) == Kept([i \in DOMAIN text |-> i], {i \in DOMAIN text : text[i][1] = "loc"})

Behind(ends) == IF ends = <<>> THEN 0 ELSE ends[Len(ends)]

Rest(text) == SubSeq(text, Behind(CallEnds(text)) + 1, Len(text))

(* One more lexeme. *)
LEMMA EndsAppend ==
  ASSUME NEW t \in Seq(Lexeme), NEW x \in Lexeme
  PROVE  /\ CallEnds(t) \in Seq(1..Len(t))
         /\ CallEnds(Append(t, x))
              = IF x[1] = "loc" THEN Append(CallEnds(t), Len(t) + 1) ELSE CallEnds(t)
<1>. DEFINE n == Len(t)
            u == Append(t, x)
            num == [i \in 1..n |-> i]
            S == {i \in 1..n : t[i][1] = "loc"}
            R == {i \in 1..(n + 1) : u[i][1] = "loc"}
<1>1. /\ n \in Nat /\ DOMAIN t = 1..n /\ DOMAIN u = 1..(n + 1) /\ u[n + 1] = x
      /\ \A i \in 1..n : u[i] = t[i]
  BY LenProperties, AppendProperties
<1>2. num \in Seq(1..n) /\ num \in Seq(Nat) /\ Len(num) = n /\ \A i \in 1..n : num[i] = i
  <2>1. num \in [1..n -> 1..n] BY <1>1
  <2>2. num \in Seq(1..n) /\ Len(num) = n BY <1>1, <2>1
  <2> QED BY <2>2
<1>3. [i \in 1..(n + 1) |-> i] = Append(num, n + 1)
  <2>. DEFINE more == [i \in 1..(n + 1) |-> i]
  <2>1. more \in [1..(n + 1) -> Nat] BY <1>1
  <2>2. more \in Seq(Nat) /\ Len(more) = n + 1 BY <1>1, <2>1
  <2>3. /\ Append(num, n + 1) \in Seq(Nat) /\ Len(Append(num, n + 1)) = n + 1
        /\ \A i \in 1..n : Append(num, n + 1)[i] = num[i]
        /\ Append(num, n + 1)[n + 1] = n + 1
    <3> HIDE DEF num, n
    <3> QED BY <1>1, <1>2, AppendProperties
  <2>4. \A i \in 1..(n + 1) : more[i] = i OBVIOUS
  <2>5. \A i \in 1..(n + 1) : Append(num, n + 1)[i] = i
    <3> HIDE DEF num, n
    <3> QED BY <1>1, <1>2, <2>3
  <2> HIDE DEF num, n, more
  <2> QED BY <1>1, <2>2, <2>3, <2>4, <2>5, SeqEqual
<1>4. CallEnds(t) = Kept(num, S) BY <1>1 DEF CallEnds
<1>5. CallEnds(u) = Kept(Append(num, n + 1), R) BY <1>1, <1>3 DEF CallEnds
<1>6. \A i \in 1..Len(num) : num[i] \in S <=> num[i] \in R BY <1>1, <1>2
<1>7. n + 1 \in R <=> x[1] = "loc" BY <1>1
<1> HIDE DEF num, S, R, u
<1>8. Kept(num, S) \in Seq(1..n) BY <1>2, KeptType
<1>9. Kept(num, S) = Kept(num, R)
  <2> HIDE DEF n
  <2> QED BY <1>2, <1>6, KeptSame
<1>10. Kept(Append(num, n + 1), R) = IF n + 1 \in R THEN Append(Kept(num, R), n + 1) ELSE Kept(num, R)
  <2>1. PICK m : m = n + 1 /\ m \in Nat BY <1>1
  <2> HIDE DEF n
  <2>2. Kept(Append(num, m), R) = IF m \in R THEN Append(Kept(num, R), m) ELSE Kept(num, R)
    <3>1. PICK q, T, V : q = num /\ T = R /\ V = Nat OBVIOUS
    <3>2. q \in Seq(V) /\ m \in V BY <1>2, <2>1, <3>1
    <3>3. Kept(Append(q, m), T) = IF m \in T THEN Append(Kept(q, T), m) ELSE Kept(q, T)
      BY <3>2, KeptAppend
    <3> QED BY <3>1, <3>3
  <2> QED BY <2>1, <2>2
<1> QED BY <1>4, <1>5, <1>7, <1>8, <1>9, <1>10 DEF u

LEMMA EndsEmpty == CallEnds(<<>>) = <<>> /\ Calls(<<>>) = <<>> /\ Rest(<<>>) = <<>>
<1>1. [i \in DOMAIN <<>> |-> i] = <<>> OBVIOUS
<1>2. CallEnds(<<>>) = <<>> BY <1>1, KeptEmpty DEF CallEnds
<1>3. Calls(<<>>) = <<>> BY <1>2 DEF Calls, CallEnds
<1> QED BY <1>2, <1>3, SubSeqEmpty DEF Rest, Behind

(* The place where call k begins. *)
LEMMA CallsAre ==
  ASSUME NEW t \in Seq(Lexeme)
  PROVE  Calls(t) = [k \in DOMAIN CallEnds(t) |->
           SubSeq(t, IF k = 1 THEN 1 ELSE CallEnds(t)[k - 1] + 1, CallEnds(t)[k])]
BY DEF Calls, CallEnds

(* Parts of two sequences that agree. *)
LEMMA SubSeqSame ==
  ASSUME NEW V, NEW s, NEW t, NEW a \in Int, NEW b \in Int,
         \A i \in a..b : s[i] \in V /\ s[i] = t[i]
  PROVE  SubSeq(s, a, b) \in Seq(V) /\ SubSeq(s, a, b) = SubSeq(t, a, b)
<1>1. /\ SubSeq(s, a, b) \in Seq(V)
      /\ Len(SubSeq(s, a, b)) = IF a <= b THEN b - a + 1 ELSE 0
      /\ \A i \in 1..(b - a + 1) : SubSeq(s, a, b)[i] = s[a + i - 1]
  BY SubSeqProperties
<1>2. \A i \in a..b : t[i] \in V OBVIOUS
<1>3. /\ SubSeq(t, a, b) \in Seq(V)
      /\ Len(SubSeq(t, a, b)) = IF a <= b THEN b - a + 1 ELSE 0
      /\ \A i \in 1..(b - a + 1) : SubSeq(t, a, b)[i] = t[a + i - 1]
  BY <1>2, SubSeqProperties
<1>4. ASSUME NEW i \in 1..Len(SubSeq(s, a, b)) PROVE SubSeq(s, a, b)[i] = SubSeq(t, a, b)[i]
  <2>1. i \in 1..(b - a + 1) /\ a + i - 1 \in a..b BY <1>1
  <2> QED BY <1>1, <1>3, <2>1
<1> QED BY <1>1, <1>3, <1>4, SeqEqual

(* The calls of a text one lexeme longer, and what is behind them.         *)
LEMMA CallsAppend ==
  ASSUME NEW t \in Seq(Lexeme), NEW x \in Lexeme
  PROVE  /\ Calls(t) \in Seq(Seq(Lexeme)) /\ Rest(t) \in Seq(Lexeme)
         /\ Calls(Append(t, x))
              = IF x[1] = "loc" THEN Append(Calls(t), Append(Rest(t), x)) ELSE Calls(t)
         /\ Rest(Append(t, x)) = IF x[1] = "loc" THEN <<>> ELSE Append(Rest(t), x)
<1>. DEFINE n == Len(t)
            u == Append(t, x)
            from(e, k) == IF k = 1 THEN 1 ELSE e[k - 1] + 1
            cut(s, e, k) == SubSeq(s, from(e, k), e[k])
<1>1. /\ n \in Nat /\ Len(u) = n + 1 /\ u \in Seq(Lexeme) /\ u[n + 1] = x
      /\ \A i \in 1..n : u[i] = t[i] /\ t[i] \in Lexeme
  BY LenProperties, AppendProperties, ElementOfSeq
<1>2. PICK e, d : /\ e = CallEnds(t) /\ d = CallEnds(u) /\ e \in Seq(1..n)
                  /\ d = IF x[1] = "loc" THEN Append(e, n + 1) ELSE e
  BY EndsAppend
<1>3. /\ Calls(t) = [k \in DOMAIN e |-> cut(t, e, k)]
      /\ Calls(u) = [k \in DOMAIN d |-> cut(u, d, k)]
  BY <1>1, <1>2, CallsAre
<1>4. /\ Rest(t) = SubSeq(t, Behind(e) + 1, n)
      /\ Rest(u) = SubSeq(u, Behind(d) + 1, n + 1)
  BY <1>1, <1>2 DEF Rest
<1> HIDE DEF u, n
<1>5. DOMAIN e = 1..Len(e) /\ Len(e) \in Nat BY <1>2, LenProperties
<1>6. ASSUME NEW k \in 1..Len(e)
      PROVE  /\ cut(t, e, k) \in Seq(Lexeme) /\ cut(u, e, k) = cut(t, e, k)
             /\ e[k] \in 1..n /\ from(e, k) \in Int
  <2>1. e[k] \in 1..n BY <1>2, ElementOfSeq
  <2>2. from(e, k) \in 1..(n + 1)
    <3>1. k - 1 \in 1..Len(e) => e[k - 1] \in 1..n BY <1>2, ElementOfSeq
    <3> QED BY <1>1, <1>5, <3>1
  <2> HIDE DEF from
  <2>3. from(e, k) \in Int /\ e[k] \in Int BY <1>1, <2>1, <2>2
  <2>4. \A i \in from(e, k)..e[k] : t[i] \in Lexeme /\ t[i] = u[i]
    <3>1. from(e, k)..e[k] \subseteq 1..n BY <1>1, <2>1, <2>2
    <3> QED BY <1>1, <3>1
  <2>5. SubSeq(t, from(e, k), e[k]) \in Seq(Lexeme)
        /\ SubSeq(t, from(e, k), e[k]) = SubSeq(u, from(e, k), e[k])
    BY <2>3, <2>4, SubSeqSame
  <2> QED BY <2>1, <2>3, <2>5
<1>7. Behind(e) \in 0..n
  <2>1. e # <<>> => Len(e) \in 1..Len(e) BY <1>2, <1>5, EmptySeq
  <2> QED BY <1>1, <1>2, <2>1, ElementOfSeq DEF Behind
<1>. DEFINE b == Behind(e) + 1
<1>8. b \in 1..(n + 1) BY <1>1, <1>7
<1> HIDE DEF b
<1>9. SubSeq(t, b, n) \in Seq(Lexeme) /\ SubSeq(t, b, n) = SubSeq(u, b, n)
  <2>1. b \in Int /\ n \in Int BY <1>1, <1>8
  <2>2. \A i \in b..n : t[i] \in Lexeme /\ t[i] = u[i] BY <1>1, <1>8
  <2> QED BY <2>1, <2>2, SubSeqSame
<1>10. SubSeq(u, b, n + 1) = Append(SubSeq(t, b, n), x)
  <2>1. b \in 1..Len(u) /\ n + 1 \in b..Len(u) BY <1>1, <1>8
  <2>2. SubSeq(u, b, n + 1) = SubSeq(u, b, (n + 1) - 1) \o <<u[n + 1]>>
    BY <1>1, <2>1, SubSeqRecursiveSecond
  <2>3. (n + 1) - 1 = n BY <1>1
  <2>4. SubSeq(u, b, n + 1) = SubSeq(t, b, n) \o <<x>> BY <1>1, <1>9, <2>2, <2>3
  <2>5. PICK r : r = SubSeq(t, b, n) OBVIOUS
  <2>6. r \in Seq(Lexeme) BY <1>9, <2>5
  <2>7. Append(r, x) = r \o <<x>> BY <2>6, AppendIsConcat
  <2> QED BY <2>4, <2>5, <2>7
<1>11. Calls(t) \in Seq(Seq(Lexeme))
  <2> HIDE DEF cut
  <2>1. Calls(t) \in [1..Len(e) -> Seq(Lexeme)] BY <1>3, <1>5, <1>6
  <2> QED BY <1>5, <2>1
<1>12. CASE x[1] = "loc"
  <2>1. d = Append(e, n + 1) BY <1>2, <1>12
  <2>. DEFINE m == Len(e)
  <2>2. /\ DOMAIN d = 1..(m + 1) /\ d[m + 1] = n + 1 /\ \A k \in 1..m : d[k] = e[k]
        /\ d # <<>> /\ Len(d) = m + 1
    <3>1. e \in Seq(1..(n + 1)) /\ n + 1 \in 1..(n + 1)
      <4>1. 1..n \subseteq 1..(n + 1) /\ n + 1 \in 1..(n + 1) BY <1>1
      <4> QED BY <1>2, <4>1, SeqMonotonic
    <3>2. d \in Seq(1..(n + 1)) BY <2>1, <3>1, AppendProperties
    <3> QED BY <1>5, <2>1, <3>1, <3>2, AppendProperties, LenProperties
  <2>3. \A k \in 1..m : cut(u, d, k) = cut(t, e, k)
    <3> SUFFICES ASSUME NEW k \in 1..m PROVE cut(u, d, k) = cut(t, e, k) OBVIOUS
    <3>1. from(d, k) = from(e, k)
      <4>1. CASE k = 1 BY <4>1
      <4>2. CASE k # 1
        <5>1. k - 1 \in 1..m BY <1>5, <4>2
        <5> QED BY <2>2, <4>2, <5>1
      <4> QED BY <4>1, <4>2
    <3> HIDE DEF from
    <3>2. cut(u, d, k) = cut(u, e, k) BY <2>2, <3>1
    <3> HIDE DEF cut
    <3> QED BY <1>6, <3>2
  <2>4. from(d, m + 1) = b
    <3>1. CASE m = 0
      <4>1. e = <<>> BY <1>2, <3>1, EmptySeq
      <4> QED BY <3>1, <4>1 DEF b, Behind
    <3>2. CASE m # 0
      <4>1. m + 1 # 1 /\ (m + 1) - 1 = m /\ m \in 1..m /\ e # <<>>
        BY <1>2, <1>5, <3>2, EmptySeq
      <4> QED BY <2>2, <4>1 DEF b, Behind
    <3> QED BY <3>1, <3>2
  <2>5. cut(u, d, m + 1) = Append(SubSeq(t, b, n), x)
    <3> HIDE DEF from
    <3> QED BY <1>10, <2>2, <2>4
  <2>6. Append(SubSeq(t, b, n), x) \in Seq(Lexeme) BY <1>9, AppendProperties
  <2>7. PICK r : r = Append(SubSeq(t, b, n), x) OBVIOUS
  <2>8. PICK c : c = Calls(t) OBVIOUS
  <2>9. /\ c \in Seq(Seq(Lexeme)) /\ Len(c) = m /\ \A k \in 1..m : c[k] = cut(t, e, k)
    <3> HIDE DEF cut
    <3> QED BY <1>3, <1>5, <1>11, <2>8
  <2>10. Calls(u) = Append(c, r)
    <3> HIDE DEF cut
    <3>1. /\ Append(c, r) \in Seq(Seq(Lexeme)) /\ Len(Append(c, r)) = m + 1
          /\ Append(c, r)[m + 1] = r /\ \A k \in 1..m : Append(c, r)[k] = c[k]
      BY <2>6, <2>7, <2>9, AppendProperties
    <3>2. Calls(u) = [k \in 1..(m + 1) |-> cut(u, d, k)] BY <1>3, <2>2
    <3>3. \A k \in 1..(m + 1) : Calls(u)[k] = Append(c, r)[k]
      <4> SUFFICES ASSUME NEW k \in 1..(m + 1) PROVE Calls(u)[k] = Append(c, r)[k] OBVIOUS
      <4>1. Calls(u)[k] = cut(u, d, k) BY <3>2
      <4>2. CASE k = m + 1 BY <2>5, <2>7, <3>1, <4>1, <4>2
      <4>3. CASE k # m + 1
        <5>1. k \in 1..m BY <1>5, <4>3
        <5> QED BY <2>3, <2>9, <3>1, <4>1, <5>1
      <4> QED BY <4>2, <4>3
    <3>4. DOMAIN Append(c, r) = 1..(m + 1) /\ Append(c, r) = [k \in 1..(m + 1) |-> Append(c, r)[k]]
      BY <3>1, LenProperties
    <3> HIDE DEF m
    <3> QED BY <3>2, <3>3, <3>4
  <2>11. Rest(u) = <<>>
    <3>1. Behind(d) = n + 1 BY <2>2 DEF Behind
    <3> QED BY <1>1, <1>4, <3>1, SubSeqEmpty
  <2> QED BY <1>4, <1>9, <1>11, <1>12, <2>7, <2>8, <2>10, <2>11 DEF b, u
<1>13. CASE x[1] # "loc"
  <2>1. d = e BY <1>2, <1>13
  <2>2. Calls(u) = Calls(t)
    <3> HIDE DEF cut
    <3> QED BY <1>3, <1>5, <1>6, <2>1
  <2>3. Rest(u) = Append(Rest(t), x) BY <1>4, <1>10, <2>1 DEF b
  <2> QED BY <1>4, <1>9, <1>11, <1>13, <2>2, <2>3 DEF b, u
<1> QED BY <1>12, <1>13

(* The calls of a text a line longer.                                      *)
LEMMA CallsLine ==
  ASSUME NEW t \in Seq(Lexeme), NEW l \in Line,
         \A i \in 1..(Len(l) - 1) : l[i][1] # "loc"
  PROVE  /\ Calls(t \o l) = IF next_is_subcall(l) THEN Calls(t)
                             ELSE Append(Calls(t), Rest(t) \o l)
         /\ Rest(t \o l) = IF next_is_subcall(l) THEN Rest(t) \o l ELSE <<>>
<1>. DEFINE n == Len(l)
            T == {j \in 0..(n - 1) :
                    /\ Calls(t \o SubSeq(l, 1, j)) = Calls(t)
                    /\ Rest(t \o SubSeq(l, 1, j)) = Rest(t) \o SubSeq(l, 1, j)}
<1>1. l \in Seq(Lexeme) /\ n \in Nat \ {0} BY EmptySeq DEF Line
<1>2. Rest(t) \in Seq(Lexeme)
  <2>1. PICK x : x \in Lexeme BY <1>1, ElementOfSeq
  <2> QED BY <2>1, CallsAppend
<1>3. ASSUME NEW j \in 1..n, j - 1 \in T
      PROVE  /\ Calls(t \o SubSeq(l, 1, j))
                  = IF l[j][1] = "loc" THEN Append(Calls(t), Rest(t) \o SubSeq(l, 1, j)) ELSE Calls(t)
             /\ Rest(t \o SubSeq(l, 1, j))
                  = IF l[j][1] = "loc" THEN <<>> ELSE Rest(t) \o SubSeq(l, 1, j)
  <2>1. PICK r, x : r = SubSeq(l, 1, j - 1) /\ x = l[j] OBVIOUS
  <2>2. r \in Seq(Lexeme) /\ x \in Lexeme /\ SubSeq(l, 1, j) = Append(r, x)
    <3> HIDE DEF n, T
    <3> QED BY <1>1, <2>1, FrontAppend DEF n
  <2>3. Calls(t \o r) = Calls(t) /\ Rest(t \o r) = Rest(t) \o r BY <1>3, <2>1
  <2> HIDE DEF n, T
  <2>4. PICK u : u = t \o r OBVIOUS
  <2>5. u \in Seq(Lexeme) /\ t \o Append(r, x) = Append(u, x) BY <2>2, <2>4, AppendBehind
  <2>6. /\ Calls(Append(u, x)) = IF x[1] = "loc" THEN Append(Calls(u), Append(Rest(u), x)) ELSE Calls(u)
        /\ Rest(Append(u, x)) = IF x[1] = "loc" THEN <<>> ELSE Append(Rest(u), x)
    BY <2>2, <2>5, CallsAppend
  <2>7. PICK w : w = Rest(t) OBVIOUS
  <2>8. w \o Append(r, x) = Append(w \o r, x) BY <1>2, <2>2, <2>7, AppendBehind
  <2> QED BY <2>1, <2>2, <2>3, <2>4, <2>5, <2>6, <2>7, <2>8
<1>4. 0 \in T
  <2>1. SubSeq(l, 1, 0) = <<>> BY SubSeqEmpty
  <2>2. t \o <<>> = t /\ Rest(t) \o <<>> = Rest(t) BY <1>2, ConcatEmptySeq
  <2>3. 0 \in 0..(n - 1) BY <1>1
  <2>4. /\ Calls(t \o SubSeq(l, 1, 0)) = Calls(t)
        /\ Rest(t \o SubSeq(l, 1, 0)) = Rest(t) \o SubSeq(l, 1, 0)
    BY <2>1, <2>2
  <2> HIDE DEF n
  <2> QED BY <2>3, <2>4
<1>5. ASSUME NEW j \in 1..(n - 1), j - 1 \in T PROVE j \in T
  <2>1. j \in 1..n /\ j \in 0..(n - 1) /\ l[j][1] # "loc" BY <1>1
  <2> QED BY <1>3, <1>5, <2>1
<1>6. n - 1 \in T
  <2>1. n - 1 \in Nat BY <1>1
  <2>2. 0..(n - 1) \subseteq T
    <3>1. PICK m : m = n - 1 OBVIOUS
    <3> HIDE DEF T, n
    <3> QED BY <1>4, <1>5, <2>1, <3>1, UpTo
  <2>3. n - 1 \in 0..(n - 1) BY <1>1
  <2> HIDE DEF T, n
  <2> QED BY <2>2, <2>3
<1>7. n \in 1..n /\ SubSeq(l, 1, n) = l BY <1>1, SubSeqFull
<1> HIDE DEF T
<1> QED BY <1>3, <1>6, <1>7 DEF next_is_subcall

(* A line added to a function: its lines are still the calls read so far.  *)
LEMMA AddLineCalls ==
  ASSUME NEW t \in Seq(Lexeme), NEW l \in Line,
         \A i \in 1..(Len(l) - 1) : l[i][1] # "loc",
         NEW now \in Reading, now.lines = Calls(t), now.subcall = Rest(t)
  PROVE  LET new == AddLine(now, l)
         IN new.new /\ new.lines = Calls(t \o l) /\ new.subcall = Rest(t \o l)
<1>1. CASE next_is_subcall(l)
  <2>1. AddLine(now, l) = [now EXCEPT !.new = TRUE, !.subcall = now.subcall \o l]
    BY <1>1 DEF AddLine
  <2> QED BY <1>1, <2>1, CallsLine DEF Reading
<1>2. CASE ~next_is_subcall(l)
  <2>1. AddLine(now, l)
          = [new |-> TRUE, lines |-> Append(now.lines, now.subcall \o l), subcall |-> <<>>]
    BY <1>2 DEF AddLine
  <2> QED BY <1>2, <2>1, CallsLine
<1> QED BY <1>1, <1>2

(* Subsequences of sequences that grow.                                    *)
LEMMA SubsequenceEmpty == IsSubsequence(<<>>, <<>>)
<1>. DEFINE at == [i \in {} |-> i]
<1>1. DOMAIN <<>> = {} OBVIOUS
<1>2. at \in [{} -> {}] OBVIOUS
<1> QED BY <1>1, <1>2 DEF IsSubsequence

LEMMA SubsequenceMore ==
  ASSUME NEW V, NEW s \in Seq(V), NEW t \in Seq(V), NEW x \in V, IsSubsequence(s, t)
  PROVE  IsSubsequence(s, Append(t, x))
<1>1. PICK at \in [DOMAIN s -> DOMAIN t] :
        /\ \A i \in DOMAIN s : s[i] = t[at[i]]
        /\ \A i, j \in DOMAIN s : i < j => at[i] < at[j]
  BY DEF IsSubsequence
<1>2. PICK u : u = Append(t, x) OBVIOUS
<1>3. DOMAIN t \subseteq DOMAIN u /\ \A i \in DOMAIN t : u[i] = t[i]
  BY <1>2, AppendProperties, LenProperties
<1>4. at \in [DOMAIN s -> DOMAIN u] BY <1>1, <1>3
<1>5. \A i \in DOMAIN s : s[i] = u[at[i]] BY <1>1, <1>3
<1> QED BY <1>1, <1>2, <1>4, <1>5 DEF IsSubsequence

LEMMA SubsequenceBoth ==
  ASSUME NEW V, NEW s \in Seq(V), NEW t \in Seq(V), NEW x \in V, IsSubsequence(s, t)
  PROVE  IsSubsequence(Append(s, x), Append(t, x))
<1>1. PICK at \in [DOMAIN s -> DOMAIN t] :
        /\ \A i \in DOMAIN s : s[i] = t[at[i]]
        /\ \A i, j \in DOMAIN s : i < j => at[i] < at[j]
  BY DEF IsSubsequence
<1>2. PICK u, v : u = Append(t, x) /\ v = Append(s, x) OBVIOUS
<1>. DEFINE n == Len(s)  m == Len(t)
            to == [i \in 1..(n + 1) |-> IF i = n + 1 THEN m + 1 ELSE at[i]]
<1>3. /\ n \in Nat /\ m \in Nat /\ DOMAIN s = 1..n /\ DOMAIN t = 1..m
      /\ DOMAIN u = 1..(m + 1) /\ DOMAIN v = 1..(n + 1)
      /\ u[m + 1] = x /\ \A i \in 1..m : u[i] = t[i]
      /\ v[n + 1] = x /\ \A i \in 1..n : v[i] = s[i]
  BY <1>2, AppendProperties, LenProperties
<1> HIDE DEF n, m
<1>4. \A i \in 1..n : to[i] = at[i] /\ at[i] \in 1..m BY <1>1, <1>3
<1>5. to[n + 1] = m + 1 BY <1>3
<1>6. to \in [DOMAIN v -> DOMAIN u] BY <1>3, <1>4
<1> HIDE DEF to
<1>7. ASSUME NEW i \in 1..(n + 1) PROVE v[i] = u[to[i]]
  <2>1. CASE i = n + 1 BY <1>3, <1>5, <2>1
  <2>2. CASE i # n + 1
    <3>1. i \in 1..n BY <1>3, <2>2
    <3> QED BY <1>1, <1>3, <1>4, <3>1
  <2> QED BY <2>1, <2>2
<1>8. ASSUME NEW i \in 1..(n + 1), NEW j \in 1..(n + 1), i < j PROVE to[i] < to[j]
  <2>1. i \in 1..n BY <1>3, <1>8
  <2>2. CASE j = n + 1 BY <1>3, <1>4, <1>5, <2>1, <2>2
  <2>3. CASE j # n + 1
    <3>1. j \in 1..n BY <1>3, <2>3
    <3> QED BY <1>1, <1>3, <1>4, <1>8, <2>1, <3>1
  <2> QED BY <2>2, <2>3
<1> QED BY <1>2, <1>3, <1>6, <1>7, <1>8 DEF IsSubsequence

------------------------------------------------------------------------------
(* What a compilation printed: each function lies where printed says,      *)
(* behind the one before it.                                               *)
Piece == [fn : Nat, at : Nat]

FunctionOf(p, r) == Records[p][r.fn]

Fits(p, s, prs) ==
  /\ s \in Seq(Lexeme) /\ prs \in Seq(Piece)
  /\ \A i \in 1..Len(prs) :
       /\ prs[i].fn \in 1..Len(Records[p]) /\ prs[i].at > 0 /\ Ending(p, prs[i]) <= Len(s)
       /\ \A j \in 1..Len(FunctionOf(p, prs[i])) :
            s[prs[i].at + j - 1] = FunctionOf(p, prs[i])[j]
  /\ \A i, j \in 1..Len(prs) : i < j => Ending(p, prs[i]) < prs[j].at

(* A declaration begins one of them. *)
Declares(s, prs) ==
  \A x \in 1..Len(s) : s[x][1] = "decl" => \E i \in 1..Len(prs) : x = prs[i].at

(* What the text of a function is. *)
LEMMA FunctionShape ==
  ASSUME NEW p \in Procs, NEW fn \in 1..Len(Records[p])
  PROVE  LET t == Records[p][fn]  n == Len(t) IN
         /\ t \in Seq(Lexeme) /\ n \in Nat /\ n > 2
         /\ t[1][1] = "decl" /\ t[n - 1][1] = "loc" /\ t[n] = Blank[1]
         /\ \A i \in 2..n : t[i][1] # "decl"
         /\ \A i \in 2..(n - 1) : t[i] = Blank[1] => ~EndsLine(t[i - 1])
<1>. DEFINE t == Records[p][fn]  n == Len(t)
<1>1. Records[p] \in Seq(Seq(Lexeme)) BY LogFileAssumption DEF Lexeme
<1>2. t \in Seq(Lexeme) /\ fn \in DOMAIN Records[p] BY <1>1, ElementOfSeq
<1>3. n \in Nat BY <1>2
<1>4. FunctionText(t) BY <1>2, PrintedAssumption
<1>5. n # 2 BY <1>4 DEF FunctionText
<1> QED BY <1>2, <1>3, <1>4, <1>5 DEF FunctionText

(* One of the functions printed, in the log. *)
LEMMA PieceShape ==
  ASSUME NEW p \in Procs, NEW s, NEW prs, Fits(p, s, prs), NEW i \in 1..Len(prs)
  PROVE  LET r == prs[i]  t == FunctionOf(p, r)  end == Ending(p, r) IN
         /\ r \in Piece /\ r.fn \in 1..Len(Records[p])
         /\ r.at \in Nat \ {0} /\ end \in Nat /\ end > r.at + 1 /\ end <= Len(s)
         /\ t \in Seq(Lexeme) /\ Len(t) = end - r.at + 1
         /\ \A x \in r.at..end : s[x] = t[x - r.at + 1]
         /\ s[r.at][1] = "decl" /\ s[end - 1][1] = "loc" /\ s[end] = Blank[1]
         /\ EndsLine(s[end - 1]) /\ EndsLine(s[end])
         /\ \A x \in (r.at + 1)..(end - 1) : s[x] = Blank[1] => ~EndsLine(s[x - 1])
<1>1. PICK r, t, n : r = prs[i] /\ t = FunctionOf(p, r) /\ n = Len(t) OBVIOUS
<1>2. PICK end : end = Ending(p, r) OBVIOUS
<1>3. r \in Piece BY <1>1, ElementOfSeq DEF Fits
<1>4. /\ r.fn \in 1..Len(Records[p]) /\ r.at > 0 /\ end <= Len(s)
      /\ \A j \in 1..n : s[r.at + j - 1] = t[j]
  BY <1>1, <1>2 DEF Fits
<1>5. r.at \in Nat /\ r.fn \in Nat BY <1>3 DEF Piece
<1>6. /\ t \in Seq(Lexeme) /\ n \in Nat /\ n > 2
      /\ t[1][1] = "decl" /\ t[n - 1][1] = "loc" /\ t[n] = Blank[1]
      /\ \A j \in 2..(n - 1) : t[j] = Blank[1] => ~EndsLine(t[j - 1])
  BY <1>1, <1>4, FunctionShape DEF FunctionOf
<1>7. end = r.at + n - 1 BY <1>1, <1>2 DEF Ending, FunctionOf
<1>8. r.at \in Nat \ {0} /\ end \in Nat /\ end > r.at + 1 /\ n = end - r.at + 1
  <2>1. PICK a : a = r.at OBVIOUS
  <2>2. a \in Nat /\ a > 0 /\ n \in Nat /\ n > 2 /\ end = a + n - 1
    BY <1>4, <1>5, <1>6, <1>7, <2>1
  <2>3. a \in Nat \ {0} /\ end \in Nat /\ end > a + 1 /\ n = end - a + 1 BY <2>2
  <2> QED BY <2>1, <2>3
<1>9. ASSUME NEW x \in r.at..end PROVE s[x] = t[x - r.at + 1] /\ x - r.at + 1 \in 1..n
  <2>1. x - r.at + 1 \in 1..n /\ r.at + (x - r.at + 1) - 1 = x
    <3>1. PICK a : a = r.at OBVIOUS
    <3>2. a \in Nat /\ end \in Nat /\ n = end - a + 1 /\ x \in a..end BY <1>8, <3>1
    <3>3. x - a + 1 \in 1..n /\ a + (x - a + 1) - 1 = x BY <3>2
    <3> QED BY <3>1, <3>3
  <2> QED BY <1>4, <2>1
<1>10. s[r.at][1] = "decl" /\ s[end - 1][1] = "loc" /\ s[end] = Blank[1]
  <2>1. /\ r.at \in r.at..end /\ r.at - r.at + 1 = 1
        /\ end - 1 \in r.at..end /\ (end - 1) - r.at + 1 = n - 1
        /\ end \in r.at..end /\ end - r.at + 1 = n
    BY <1>8
  <2> QED BY <1>6, <1>9, <2>1
<1>11. EndsLine(s[end - 1]) /\ EndsLine(s[end])
  <2>1. EndsLine(Blank[1]) BY DEF EndsLine, Blank
  <2>2. EndsLine(s[end - 1]) BY <1>10 DEF EndsLine
  <2> QED BY <1>10, <2>1, <2>2
<1>12. ASSUME NEW x \in (r.at + 1)..(end - 1), s[x] = Blank[1] PROVE ~EndsLine(s[x - 1])
  <2>1. /\ x \in r.at..end /\ x - 1 \in r.at..end
        /\ x - r.at + 1 \in 2..(n - 1) /\ (x - 1) - r.at + 1 = (x - r.at + 1) - 1
    <3>1. PICK a : a = r.at OBVIOUS
    <3>2. a \in Nat /\ end \in Nat /\ n = end - a + 1 /\ x \in (a + 1)..(end - 1)
      BY <1>8, <3>1
    <3>3. /\ x \in a..end /\ x - 1 \in a..end
          /\ x - a + 1 \in 2..(n - 1) /\ (x - 1) - a + 1 = (x - a + 1) - 1
      BY <3>2
    <3> QED BY <3>1, <3>3
  <2> QED BY <1>6, <1>9, <1>12, <2>1
<1> QED BY <1>1, <1>2, <1>3, <1>4, <1>6, <1>8, <1>9, <1>10, <1>11, <1>12

(* Two of them lie apart. *)
LEMMA PiecesApart ==
  ASSUME NEW p \in Procs, NEW s, NEW prs, Fits(p, s, prs),
         NEW i \in 1..Len(prs), NEW j \in 1..Len(prs), i # j
  PROVE  Ending(p, prs[i]) < prs[j].at \/ Ending(p, prs[j]) < prs[i].at
BY DEF Fits

(* More text behind them changes none of them.                             *)
LEMMA FitsMore ==
  ASSUME NEW p \in Procs, NEW s, NEW prs, Fits(p, s, prs), NEW done \in Seq(Lexeme)
  PROVE  /\ Fits(p, s \o done, prs)
         /\ Declares(s, prs) /\ (\A i \in DOMAIN done : done[i][1] # "decl")
              => Declares(s \o done, prs)
<1>1. s \in Seq(Lexeme) BY DEF Fits
<1>2. PICK u, n, m : u = s \o done /\ n = Len(s) /\ m = Len(done) OBVIOUS
<1>3. /\ n \in Nat /\ m \in Nat /\ u \in Seq(Lexeme) /\ Len(u) = n + m
      /\ DOMAIN done = 1..m
      /\ \A i \in 1..(n + m) : u[i] = IF i <= n THEN s[i] ELSE done[i - n]
  BY <1>1, <1>2, ConcatProperties, LenProperties
<1>4. \A i \in 1..n : u[i] = s[i] BY <1>3
<1>5. ASSUME NEW i \in 1..Len(prs)
      PROVE  /\ prs[i].fn \in 1..Len(Records[p]) /\ prs[i].at > 0 /\ Ending(p, prs[i]) <= Len(u)
             /\ \A j \in 1..Len(FunctionOf(p, prs[i])) :
                  u[prs[i].at + j - 1] = FunctionOf(p, prs[i])[j]
  <2>1. PICK r, t, end : r = prs[i] /\ t = FunctionOf(p, r) /\ end = Ending(p, r) OBVIOUS
  <2>2. /\ r.fn \in 1..Len(Records[p]) /\ r.at \in Nat \ {0}
        /\ end \in Nat /\ end <= n /\ Len(t) = end - r.at + 1
        /\ \A j \in 1..Len(t) : s[r.at + j - 1] = t[j]
    <3>1. /\ r.fn \in 1..Len(Records[p]) /\ r.at \in Nat \ {0}
          /\ end \in Nat /\ end <= n /\ Len(t) = end - r.at + 1
      BY <1>2, <2>1, PieceShape
    <3>2. \A j \in 1..Len(t) : s[r.at + j - 1] = t[j] BY <2>1 DEF Fits
    <3> QED BY <3>1, <3>2
  <2>3. PICK a : a = r.at OBVIOUS
  <2>4. \A j \in 1..Len(t) : a + j - 1 \in 1..n
    <3>1. PICK l : l = Len(t) OBVIOUS
    <3>2. a \in Nat \ {0} /\ end \in Nat /\ end <= n /\ l = end - a + 1
      BY <2>2, <2>3, <3>1
    <3>3. \A j \in 1..l : a + j - 1 \in 1..n BY <1>3, <3>2
    <3> QED BY <3>1, <3>3
  <2>5. end <= Len(u) BY <1>3, <2>2
  <2>6. \A j \in 1..Len(t) : u[a + j - 1] = t[j] BY <1>4, <2>2, <2>3, <2>4
  <2> QED BY <2>1, <2>2, <2>3, <2>5, <2>6
<1>6. Fits(p, u, prs) BY <1>3, <1>5 DEF Fits
<1>7. ASSUME Declares(s, prs), \A i \in DOMAIN done : done[i][1] # "decl",
             NEW x \in 1..Len(u), u[x][1] = "decl"
      PROVE  \E i \in 1..Len(prs) : x = prs[i].at
  <2>1. CASE x <= n
    <3>1. x \in 1..Len(s) /\ s[x][1] = "decl" BY <1>2, <1>3, <1>7, <2>1
    <3> QED BY <1>7, <3>1 DEF Declares
  <2>2. CASE ~(x <= n)
    <3>1. x - n \in DOMAIN done /\ u[x] = done[x - n] BY <1>3, <2>2
    <3> QED BY <1>7, <3>1
  <2> QED BY <2>1, <2>2
<1> QED BY <1>2, <1>6, <1>7 DEF Declares

(* A function more behind them is one more of them.                        *)
LEMMA FitsFunction ==
  ASSUME NEW p \in Procs, NEW s, NEW prs, Fits(p, s, prs), NEW fn \in 1..Len(Records[p])
  PROVE  LET new == [fn |-> fn, at |-> Len(s) + 1] IN
         /\ new \in Piece
         /\ Fits(p, s \o Records[p][fn], Append(prs, new))
         /\ Declares(s, prs) => Declares(s \o Records[p][fn], Append(prs, new))
<1>1. s \in Seq(Lexeme) /\ prs \in Seq(Piece) BY DEF Fits
<1>2. PICK t : t = Records[p][fn] OBVIOUS
<1>3. PICK u, n, m : u = s \o t /\ n = Len(s) /\ m = Len(t) OBVIOUS
<1>4. /\ t \in Seq(Lexeme) /\ m \in Nat /\ m > 2
      /\ \A i \in 2..m : t[i][1] # "decl"
  BY <1>2, <1>3, FunctionShape
<1>5. /\ n \in Nat /\ u \in Seq(Lexeme) /\ Len(u) = n + m
      /\ \A i \in 1..(n + m) : u[i] = IF i <= n THEN s[i] ELSE t[i - n]
  BY <1>1, <1>3, <1>4, ConcatProperties, LenProperties
<1>6. PICK new : new = [fn |-> fn, at |-> n + 1] OBVIOUS
<1>7. new \in Piece /\ new.fn = fn /\ new.at = n + 1 BY <1>5, <1>6 DEF Piece
<1>8. PICK more, k : more = Append(prs, new) /\ k = Len(prs) OBVIOUS
<1>9. /\ more \in Seq(Piece) /\ k \in Nat /\ Len(more) = k + 1 /\ more[k + 1] = new
      /\ \A i \in 1..k : more[i] = prs[i]
  BY <1>1, <1>7, <1>8, AppendProperties, LenProperties
<1>10. Fits(p, u, prs) BY <1>3, <1>4, FitsMore
<1>11. FunctionOf(p, new) = t /\ Ending(p, new) = n + m
  <2>1. Records[p][new.fn] = t BY <1>2, <1>7
  <2>2. Ending(p, new) = (n + 1) + m - 1 BY <1>3, <1>7, <2>1 DEF Ending
  <2> QED BY <1>4, <1>5, <2>1, <2>2 DEF FunctionOf
<1>12. ASSUME NEW i \in 1..(k + 1)
       PROVE  /\ more[i].fn \in 1..Len(Records[p]) /\ more[i].at > 0
              /\ Ending(p, more[i]) <= Len(u)
              /\ \A j \in 1..Len(FunctionOf(p, more[i])) :
                   u[more[i].at + j - 1] = FunctionOf(p, more[i])[j]
  <2>1. CASE i = k + 1
    <3>1. more[i] = new BY <1>9, <2>1
    <3>2. \A j \in 1..m : (n + 1) + j - 1 = n + j BY <1>5
    <3>3. \A j \in 1..m : u[n + j] = t[j]
      <4> SUFFICES ASSUME NEW j \in 1..m PROVE u[n + j] = t[j] OBVIOUS
      <4>1. n + j \in 1..(n + m) /\ ~(n + j <= n) /\ (n + j) - n = j BY <1>4, <1>5
      <4> QED BY <1>5, <4>1
    <3>4. \A j \in 1..m : u[new.at + j - 1] = t[j] BY <1>7, <3>2, <3>3
    <3>5. new.at > 0 /\ Ending(p, new) <= Len(u) BY <1>4, <1>5, <1>7, <1>11
    <3> QED BY <1>3, <1>7, <1>11, <3>1, <3>4, <3>5
  <2>2. CASE i # k + 1
    <3>1. i \in 1..k /\ more[i] = prs[i] BY <1>9, <2>2
    <3> QED BY <1>8, <1>10, <3>1 DEF Fits
  <2> QED BY <2>1, <2>2
<1>13. ASSUME NEW i \in 1..(k + 1), NEW j \in 1..(k + 1), i < j
       PROVE  Ending(p, more[i]) < more[j].at
  <2>1. i \in 1..k /\ more[i] = prs[i] BY <1>9, <1>13
  <2>2. CASE j = k + 1
    <3>1. Ending(p, prs[i]) \in Nat /\ Ending(p, prs[i]) <= n
      BY <1>3, <1>8, <2>1, PieceShape
    <3>2. more[j].at = n + 1 BY <1>7, <1>9, <2>2
    <3> QED BY <1>5, <2>1, <3>1, <3>2
  <2>3. CASE j # k + 1
    <3>1. j \in 1..k /\ more[j] = prs[j] BY <1>9, <2>3
    <3> QED BY <1>8, <1>13, <2>1, <3>1 DEF Fits
  <2> QED BY <2>2, <2>3
<1>14. Fits(p, u, more) BY <1>5, <1>9, <1>12, <1>13 DEF Fits
<1>15. ASSUME Declares(s, prs), NEW x \in 1..Len(u), u[x][1] = "decl"
       PROVE  \E i \in 1..(k + 1) : x = more[i].at
  <2>1. CASE x <= n
    <3>1. x \in 1..Len(s) /\ s[x][1] = "decl" BY <1>3, <1>5, <1>15, <2>1
    <3>2. PICK i \in 1..k : x = prs[i].at BY <1>8, <1>15, <3>1 DEF Declares
    <3>3. i \in 1..(k + 1) /\ more[i] = prs[i] BY <1>9
    <3> QED BY <3>2, <3>3
  <2>2. CASE ~(x <= n)
    <3>1. x - n \in 1..m /\ u[x] = t[x - n] BY <1>4, <1>5, <2>2
    <3>2. x - n = 1 BY <1>4, <1>15, <3>1
    <3>3. x = n + 1 BY <1>5, <3>2
    <3>4. k + 1 \in 1..(k + 1) BY <1>9
    <3> QED BY <1>7, <1>9, <3>3, <3>4
  <2> QED BY <2>1, <2>2
<1>16. Declares(s, prs) => Declares(u, more) BY <1>9, <1>15 DEF Declares
<1> QED BY <1>2, <1>3, <1>6, <1>7, <1>8, <1>14, <1>16

------------------------------------------------------------------------------
(* The functions written whole when the log was upto long are the first.   *)
WrittenOf(p, prs, upto) == Kept(prs, {r \in ToSet(prs) : Ending(p, r) <= upto})

LEMMA WrittenFront ==
  ASSUME NEW p \in Procs, NEW s, NEW prs, Fits(p, s, prs), NEW upto \in Nat,
         NEW k \in 0..Len(prs),
         \A i \in 1..Len(prs) : Ending(p, prs[i]) <= upto <=> i <= k
  PROVE  WrittenOf(p, prs, upto) = SubSeq(prs, 1, k)
<1>1. prs \in Seq(Piece) BY DEF Fits
<1>2. PICK S : S = {r \in ToSet(prs) : Ending(p, r) <= upto} OBVIOUS
<1>3. \A i \in 1..Len(prs) : prs[i] \in ToSet(prs) BY <1>1, LenProperties DEF ToSet
<1>4. \A i \in 1..Len(prs) : prs[i] \in S <=> i <= k BY <1>2, <1>3
<1>5. Kept(prs, S) = SubSeq(prs, 1, k) BY <1>1, <1>4, KeptFront
<1> QED BY <1>2, <1>5 DEF WrittenOf

(* How many that is. *)
LEMMA WrittenCount ==
  ASSUME NEW p \in Procs, NEW s, NEW prs, Fits(p, s, prs), NEW upto \in Nat
  PROVE  \E k \in 0..Len(prs) :
           \A i \in 1..Len(prs) : Ending(p, prs[i]) <= upto <=> i <= k
<1>. DEFINE n == Len(prs)
            Holds(m) == \E k \in 0..m : \A i \in 1..m : Ending(p, prs[i]) <= upto <=> i <= k
            T == {m \in 0..n : Holds(m)}
<1>1. prs \in Seq(Piece) BY DEF Fits
<1>2. n \in Nat BY <1>1, LenProperties
<1>3. 0 \in T
  <2>1. Holds(0) OBVIOUS
  <2> QED BY <1>2, <2>1
<1>4. ASSUME NEW m \in 1..n, m - 1 \in T PROVE m \in T
  <2>1. PICK k \in 0..(m - 1) : \A i \in 1..(m - 1) : Ending(p, prs[i]) <= upto <=> i <= k
    BY <1>4
  <2>2. \A i \in 1..n : Ending(p, prs[i]) \in Nat /\ prs[i].at \in Nat
                       /\ prs[i].at < Ending(p, prs[i])
    <3> SUFFICES ASSUME NEW i \in 1..n
                 PROVE  Ending(p, prs[i]) \in Nat /\ prs[i].at \in Nat
                        /\ prs[i].at < Ending(p, prs[i])
      OBVIOUS
    <3>1. PICK a, e : a = prs[i].at /\ e = Ending(p, prs[i]) OBVIOUS
    <3>2. a \in Nat /\ e \in Nat /\ e > a + 1 BY <3>1, PieceShape
    <3> QED BY <3>1, <3>2
  <2>3. \A i \in 1..(m - 1) : Ending(p, prs[i]) < Ending(p, prs[m])
    <3> SUFFICES ASSUME NEW i \in 1..(m - 1) PROVE Ending(p, prs[i]) < Ending(p, prs[m])
      OBVIOUS
    <3>1. i \in 1..n /\ i < m BY <1>2
    <3>2. Ending(p, prs[i]) < prs[m].at BY <3>1 DEF Fits
    <3> QED BY <2>2, <3>1, <3>2
  <2>4. CASE Ending(p, prs[m]) <= upto
    <3>1. \A i \in 1..m : Ending(p, prs[i]) <= upto
      <4> SUFFICES ASSUME NEW i \in 1..m PROVE Ending(p, prs[i]) <= upto OBVIOUS
      <4>1. i \in 1..(m - 1) \/ i = m BY <1>2
      <4>2. i \in 1..n BY <1>2
      <4> QED BY <2>2, <2>3, <2>4, <4>1, <4>2
    <3>2. m \in 0..m /\ \A i \in 1..m : i <= m BY <1>2
    <3>3. Holds(m) BY <3>1, <3>2
    <3> HIDE DEF Holds
    <3> QED BY <1>2, <3>3
  <2>5. CASE ~(Ending(p, prs[m]) <= upto)
    <3>1. ASSUME NEW i \in 1..m PROVE Ending(p, prs[i]) <= upto <=> i <= k
      <4>1. CASE i = m BY <1>2, <2>1, <2>5, <4>1
      <4>2. CASE i # m
        <5>1. i \in 1..(m - 1) BY <1>2, <4>2
        <5> QED BY <2>1, <5>1
      <4> QED BY <4>1, <4>2
    <3>2. k \in 0..m BY <1>2, <2>1
    <3>3. Holds(m) BY <3>1, <3>2
    <3> HIDE DEF Holds
    <3> QED BY <1>2, <3>3
  <2> QED BY <2>4, <2>5
<1>5. 0..n \subseteq T
  <2> HIDE DEF T, n
  <2> QED BY <1>2, <1>3, <1>4, UpTo
<1>6. Holds(n)
  <2> HIDE DEF Holds
  <2>1. n \in 0..n BY <1>2
  <2> QED BY <1>5, <2>1
<1> QED BY <1>6

PieceOf(p) == {r \in Piece : r.fn \in 1..Len(Records[p])}

LEMMA FitsPieces ==
  ASSUME NEW p \in Procs, NEW s, NEW prs, Fits(p, s, prs)
  PROVE  prs \in Seq(PieceOf(p))
<1>1. prs \in Seq(Piece) BY DEF Fits
<1>2. PICK n : n = Len(prs) OBVIOUS
<1>3. n \in Nat /\ prs = [i \in 1..n |-> prs[i]] BY <1>1, <1>2, LenProperties
<1>4. ASSUME NEW i \in 1..n PROVE prs[i] \in PieceOf(p)
  <2>1. prs[i] \in Piece /\ prs[i].fn \in 1..Len(Records[p]) BY <1>1, <1>2, ElementOfSeq DEF Fits
  <2> QED BY <2>1 DEF PieceOf
<1>5. prs \in [1..n -> PieceOf(p)] BY <1>3, <1>4
<1> QED BY <1>3, <1>5

(* No function ends between.                                               *)
LEMMA WrittenStay ==
  ASSUME NEW p \in Procs, NEW s, NEW prs, Fits(p, s, prs), NEW upto \in Nat, NEW v \in Nat,
         upto <= v,
         \A i \in 1..Len(prs) : Ending(p, prs[i]) <= v => Ending(p, prs[i]) <= upto
  PROVE  WrittenOf(p, prs, v) = WrittenOf(p, prs, upto)
<1>1. PICK k \in 0..Len(prs) : \A i \in 1..Len(prs) : Ending(p, prs[i]) <= upto <=> i <= k
  BY WrittenCount
<1>2. \A i \in 1..Len(prs) : Ending(p, prs[i]) \in Nat BY PieceShape
<1>3. \A i \in 1..Len(prs) : Ending(p, prs[i]) <= v <=> i <= k BY <1>1, <1>2
<1>4. WrittenOf(p, prs, upto) = SubSeq(prs, 1, k) BY <1>1, WrittenFront
<1>5. WrittenOf(p, prs, v) = SubSeq(prs, 1, k) BY <1>3, WrittenFront
<1> QED BY <1>4, <1>5

(* One does.                                                               *)
LEMMA WrittenOne ==
  ASSUME NEW p \in Procs, NEW s, NEW prs, Fits(p, s, prs), NEW upto \in Nat, NEW v \in Nat,
         upto <= v, NEW i \in 1..Len(prs), upto < Ending(p, prs[i]), Ending(p, prs[i]) <= v,
         \A j \in 1..Len(prs) : Ending(p, prs[j]) <= v /\ j # i => Ending(p, prs[j]) <= upto
  PROVE  /\ WrittenOf(p, prs, upto) \in Seq(PieceOf(p))
         /\ WrittenOf(p, prs, v) = Append(WrittenOf(p, prs, upto), prs[i])
<1>1. PICK k \in 0..Len(prs) : \A j \in 1..Len(prs) : Ending(p, prs[j]) <= upto <=> j <= k
  BY WrittenCount
<1>2. PICK n : n = Len(prs) OBVIOUS
<1>3. prs \in Seq(PieceOf(p)) BY FitsPieces
<1>4. n \in Nat BY <1>2, <1>3, LenProperties
<1>5. \A j \in 1..n : Ending(p, prs[j]) \in Nat BY <1>2, PieceShape
<1>6. \A j \in 1..n : j < i => Ending(p, prs[j]) < Ending(p, prs[i])
  <2> SUFFICES ASSUME NEW j \in 1..n, j < i PROVE Ending(p, prs[j]) < Ending(p, prs[i])
    OBVIOUS
  <2>1. Ending(p, prs[j]) < prs[i].at BY <1>2 DEF Fits
  <2>2. PICK a, e : a = prs[i].at /\ e = Ending(p, prs[i]) OBVIOUS
  <2>3. a \in Nat /\ e \in Nat /\ e > a + 1 BY <2>2, PieceShape
  <2>4. PICK d : d = Ending(p, prs[j]) OBVIOUS
  <2>5. d \in Nat BY <1>5, <2>4
  <2> QED BY <2>1, <2>2, <2>3, <2>4, <2>5
<1>7. i = k + 1
  <2>1. i > k BY <1>1, <1>2, <1>4, <1>5
  <2>2. CASE i > k + 1
    <3>1. k + 1 \in 1..n /\ k + 1 < i /\ k + 1 # i BY <1>2, <1>4, <2>2
    <3>2. Ending(p, prs[k + 1]) < Ending(p, prs[i]) BY <1>6, <3>1
    <3>3. Ending(p, prs[k + 1]) <= v BY <1>2, <1>5, <3>1, <3>2
    <3>4. Ending(p, prs[k + 1]) <= upto BY <1>2, <3>1, <3>3
    <3>5. k + 1 <= k BY <1>1, <1>2, <3>1, <3>4
    <3> QED BY <1>2, <1>4, <3>5
  <2> QED BY <1>2, <1>4, <2>1, <2>2
<1>8. \A j \in 1..n : Ending(p, prs[j]) <= v <=> j <= i
  <2> SUFFICES ASSUME NEW j \in 1..n PROVE Ending(p, prs[j]) <= v <=> j <= i
    OBVIOUS
  <2>1. CASE j = i BY <1>4, <2>1
  <2>2. CASE j # i
    <3>1. Ending(p, prs[j]) <= v <=> Ending(p, prs[j]) <= upto BY <1>2, <1>5, <2>2
    <3>2. j <= i <=> j <= k BY <1>2, <1>4, <1>7, <2>2
    <3> QED BY <1>1, <1>2, <3>1, <3>2
  <2> QED BY <2>1, <2>2
<1>9. WrittenOf(p, prs, upto) = SubSeq(prs, 1, i - 1)
  <2>1. i - 1 = k BY <1>2, <1>4, <1>7
  <2> QED BY <1>1, <2>1, WrittenFront
<1>10. WrittenOf(p, prs, v) = SubSeq(prs, 1, i)
  <2>1. i \in 0..Len(prs) BY <1>2, <1>4
  <2>2. \A j \in 1..Len(prs) : Ending(p, prs[j]) <= v <=> j <= i BY <1>2, <1>8
  <2> QED BY <2>1, <2>2, WrittenFront
<1> QED BY <1>3, <1>9, <1>10, FrontAppend

(* None has ended. *)
LEMMA WrittenNone ==
  ASSUME NEW p \in Procs, NEW s, NEW prs, Fits(p, s, prs)
  PROVE  WrittenOf(p, prs, 0) = <<>>
<1>1. prs \in Seq(Piece) BY DEF Fits
<1>2. 0 \in 0..Len(prs) BY <1>1, LenProperties
<1>3. \A i \in 1..Len(prs) : Ending(p, prs[i]) <= 0 <=> i <= 0
  <2> SUFFICES ASSUME NEW i \in 1..Len(prs) PROVE ~(Ending(p, prs[i]) <= 0)
    BY <1>1, LenProperties
  <2>1. PICK a, e : a = prs[i].at /\ e = Ending(p, prs[i]) OBVIOUS
  <2>2. a \in Nat /\ e \in Nat /\ e > a + 1 BY <2>1, PieceShape
  <2> QED BY <2>1, <2>2
<1>4. WrittenOf(p, prs, 0) = SubSeq(prs, 1, 0) BY <1>2, <1>3, WrittenFront
<1> QED BY <1>4, SubSeqEmpty

LEMMA WrittenType ==
  ASSUME NEW p \in Procs, NEW s, NEW prs, Fits(p, s, prs), NEW upto
  PROVE  /\ WrittenOf(p, prs, upto) \in Seq(PieceOf(p))
         /\ \A r \in ToSet(WrittenOf(p, prs, upto)) : r \in ToSet(prs) /\ Ending(p, r) <= upto
<1>1. prs \in Seq(PieceOf(p)) BY FitsPieces
<1>2. PICK S : S = {r \in ToSet(prs) : Ending(p, r) <= upto} OBVIOUS
<1>3. Kept(prs, S) \in Seq(PieceOf(p)) /\ ToSet(Kept(prs, S)) = ToSet(prs) \cap S
  BY <1>1, KeptType, KeptElements
<1> QED BY <1>2, <1>3 DEF WrittenOf

(* One more function behind what was read. *)
LEMMA WrittenMore ==
  ASSUME NEW p \in Procs, NEW s, NEW prs, Fits(p, s, prs), NEW upto \in Nat,
         NEW r \in PieceOf(p), ~(Ending(p, r) <= upto)
  PROVE  WrittenOf(p, Append(prs, r), upto) = WrittenOf(p, prs, upto)
<1>1. prs \in Seq(PieceOf(p)) BY FitsPieces
<1>2. PICK more, n : more = Append(prs, r) /\ n = Len(prs) OBVIOUS
<1>3. /\ more \in Seq(PieceOf(p)) /\ n \in Nat /\ Len(more) = n + 1
      /\ \A i \in 1..n : more[i] = prs[i]
  BY <1>1, <1>2, AppendProperties, LenProperties
<1>4. PICK S, T : /\ S = {x \in ToSet(prs) : Ending(p, x) <= upto}
                  /\ T = {x \in ToSet(more) : Ending(p, x) <= upto}
  OBVIOUS
<1>5. \A i \in 1..n : prs[i] \in ToSet(prs) /\ prs[i] \in ToSet(more)
  <2>1. DOMAIN prs = 1..n /\ DOMAIN more = 1..(n + 1) BY <1>1, <1>2, <1>3, LenProperties
  <2>2. \A i \in 1..n : i \in 1..(n + 1) BY <1>3
  <2> QED BY <1>3, <2>1, <2>2 DEF ToSet
<1>6. \A i \in 1..n : prs[i] \in S <=> prs[i] \in T BY <1>4, <1>5
<1>7. Kept(prs, S) = Kept(prs, T) BY <1>1, <1>2, <1>6, KeptSame
<1>8. r \notin T BY <1>4
<1>9. Kept(more, T) = Kept(prs, T)
  <2>1. Kept(Append(prs, r), T) = IF r \in T THEN Append(Kept(prs, T), r) ELSE Kept(prs, T)
    BY <1>1, KeptAppend
  <2> QED BY <1>2, <1>8, <2>1
<1> QED BY <1>2, <1>4, <1>7, <1>9 DEF WrittenOf

Begins(s, r) == r.at = 1 \/ EndsLine(s[r.at - 1])

BeginsAt(s) == {r \in Piece : Begins(s, r)}

(* What was read of a log has the calls of the functions written by then.  *)
RightCalls(p, s, fns, calls) ==
  /\ IsSubsequence(CallsOf(p, Kept(fns, BeginsAt(s))), calls)
  /\ IsSubsequence(calls, CallsOf(p, fns))

LineCalls == Seq(Seq(Lexeme))

LEMMA PieceText ==
  ASSUME NEW p \in Procs, NEW r \in PieceOf(p)
  PROVE  Records[p][r.fn] \in Seq(Lexeme) /\ Calls(Records[p][r.fn]) \in LineCalls
<1>1. r.fn \in 1..Len(Records[p]) BY DEF PieceOf
<1>2. Records[p][r.fn] \in Seq(Lexeme) /\ Records[p][r.fn][1] \in Lexeme
  <2>1. PICK t, n : t = Records[p][r.fn] /\ n = Len(t) OBVIOUS
  <2>2. t \in Seq(Lexeme) /\ n \in Nat /\ n > 2 BY <1>1, <2>1, FunctionShape
  <2>3. 1 \in 1..n BY <2>2
  <2> QED BY <2>1, <2>2, <2>3, ElementOfSeq
<1> QED BY <1>2, CallsAppend DEF LineCalls

LEMMA CallsOfAppend ==
  ASSUME NEW p \in Procs, NEW fns \in Seq(PieceOf(p)), NEW r \in PieceOf(p)
  PROVE  /\ CallsOf(p, fns) \in Seq(LineCalls)
         /\ CallsOf(p, Append(fns, r)) = Append(CallsOf(p, fns), Calls(Records[p][r.fn]))
<1>1. PICK n, u, c : /\ n = Len(fns) /\ u = Append(fns, r) /\ c = Calls(Records[p][r.fn])
                     /\ c \in LineCalls
  BY PieceText
<1>2. /\ n \in Nat /\ DOMAIN fns = 1..n /\ DOMAIN u = 1..(n + 1) /\ u[n + 1] = r
      /\ \A i \in 1..n : u[i] = fns[i] /\ fns[i] \in PieceOf(p)
  BY <1>1, LenProperties, AppendProperties, ElementOfSeq
<1>3. \A i \in 1..n : Calls(Records[p][fns[i].fn]) \in LineCalls BY <1>2, PieceText
<1>4. PICK old : old = CallsOf(p, fns) OBVIOUS
<1>5. old = [i \in 1..n |-> Calls(Records[p][fns[i].fn])] BY <1>2, <1>4 DEF CallsOf
<1>6. old \in [1..n -> LineCalls] BY <1>3, <1>5
<1>7. old \in Seq(LineCalls) /\ Len(old) = n BY <1>2, <1>6
<1>8. PICK new : new = Append(old, c) OBVIOUS
<1>9. /\ new \in Seq(LineCalls) /\ Len(new) = n + 1 /\ new[n + 1] = c
      /\ \A i \in 1..n : new[i] = old[i]
  BY <1>1, <1>7, <1>8, AppendProperties
<1>10. CallsOf(p, u) = [i \in 1..(n + 1) |-> Calls(Records[p][u[i].fn])]
  BY <1>2 DEF CallsOf
<1>11. \A i \in 1..(n + 1) : CallsOf(p, u)[i] = new[i]
  <2> SUFFICES ASSUME NEW i \in 1..(n + 1) PROVE CallsOf(p, u)[i] = new[i] OBVIOUS
  <2>1. CallsOf(p, u)[i] = Calls(Records[p][u[i].fn]) BY <1>10
  <2>2. CASE i = n + 1 BY <1>1, <1>2, <1>9, <2>1, <2>2
  <2>3. CASE i # n + 1
    <3>1. i \in 1..n BY <1>2, <2>3
    <3>2. old[i] = Calls(Records[p][fns[i].fn]) BY <1>5, <3>1
    <3> QED BY <1>2, <1>9, <2>1, <3>1, <3>2
  <2> QED BY <2>2, <2>3
<1>12. new = [i \in 1..(n + 1) |-> new[i]] BY <1>9, LenProperties
<1>13. CallsOf(p, u) = new BY <1>10, <1>11, <1>12
<1> QED BY <1>1, <1>4, <1>7, <1>8, <1>13

LEMMA CallsOfNone == \A p : CallsOf(p, <<>>) = <<>>
BY DEF CallsOf

(* A function more was written, and read. *)
LEMMA RightRead ==
  ASSUME NEW p \in Procs, NEW s, NEW fns \in Seq(PieceOf(p)), NEW r \in PieceOf(p),
         NEW calls \in Seq(LineCalls), RightCalls(p, s, fns, calls)
  PROVE  RightCalls(p, s, Append(fns, r), Append(calls, Calls(Records[p][r.fn])))
<1>1. PICK S, c : S = BeginsAt(s) /\ c = Calls(Records[p][r.fn]) /\ c \in LineCalls
  BY PieceText
<1>2. PICK k : k = Kept(fns, S) OBVIOUS
<1>3. k \in Seq(PieceOf(p)) BY <1>2, KeptType
<1>4. IsSubsequence(CallsOf(p, k), calls) /\ IsSubsequence(calls, CallsOf(p, fns))
  BY <1>1, <1>2 DEF RightCalls
<1>5. CallsOf(p, k) \in Seq(LineCalls) /\ CallsOf(p, fns) \in Seq(LineCalls)
  BY <1>3, CallsOfAppend
<1>6. CallsOf(p, Append(fns, r)) = Append(CallsOf(p, fns), c) BY <1>1, CallsOfAppend
<1>7. IsSubsequence(Append(calls, c), CallsOf(p, Append(fns, r)))
  BY <1>1, <1>4, <1>5, <1>6, SubsequenceBoth
<1>8. Kept(Append(fns, r), S) = IF r \in S THEN Append(k, r) ELSE k
  <2>1. Kept(Append(fns, r), S) = IF r \in S THEN Append(Kept(fns, S), r) ELSE Kept(fns, S)
    BY KeptAppend
  <2> QED BY <1>2, <2>1
<1>9. IsSubsequence(CallsOf(p, Kept(Append(fns, r), S)), Append(calls, c))
  <2>1. CASE r \in S
    <3>1. CallsOf(p, Append(k, r)) = Append(CallsOf(p, k), c) BY <1>1, <1>3, CallsOfAppend
    <3>2. IsSubsequence(Append(CallsOf(p, k), c), Append(calls, c))
      BY <1>1, <1>4, <1>5, SubsequenceBoth
    <3> QED BY <1>8, <2>1, <3>1, <3>2
  <2>2. CASE r \notin S
    <3>1. IsSubsequence(CallsOf(p, k), Append(calls, c)) BY <1>1, <1>4, <1>5, SubsequenceMore
    <3> QED BY <1>8, <2>2, <3>1
  <2> QED BY <2>1, <2>2
<1> QED BY <1>1, <1>7, <1>9 DEF RightCalls

(* A function more was written, which begins in the middle of a line. *)
LEMMA RightMissed ==
  ASSUME NEW p \in Procs, NEW s, NEW fns \in Seq(PieceOf(p)), NEW r \in PieceOf(p),
         NEW calls \in Seq(LineCalls), RightCalls(p, s, fns, calls), ~Begins(s, r)
  PROVE  RightCalls(p, s, Append(fns, r), calls)
<1>1. PICK S, c : S = BeginsAt(s) /\ c = Calls(Records[p][r.fn]) /\ c \in LineCalls
  BY PieceText
<1>2. r \notin S BY <1>1 DEF BeginsAt
<1>3. Kept(Append(fns, r), S) = Kept(fns, S) BY <1>2, KeptAppend
<1>4. IsSubsequence(calls, CallsOf(p, fns)) /\ CallsOf(p, fns) \in Seq(LineCalls)
  BY CallsOfAppend DEF RightCalls
<1>5. CallsOf(p, Append(fns, r)) = Append(CallsOf(p, fns), c) BY <1>1, CallsOfAppend
<1>6. IsSubsequence(calls, CallsOf(p, Append(fns, r)))
  BY <1>1, <1>4, <1>5, SubsequenceMore
<1> QED BY <1>1, <1>3, <1>6 DEF RightCalls

(* More text behind them. *)
LEMMA RightMore ==
  ASSUME NEW p \in Procs, NEW s \in Seq(Lexeme), NEW done \in Seq(Lexeme),
         NEW fns \in Seq(PieceOf(p)), \A i \in 1..Len(fns) : fns[i].at \in 1..Len(s),
         NEW calls, RightCalls(p, s, fns, calls)
  PROVE  RightCalls(p, s \o done, fns, calls)
<1>1. PICK u, n : u = s \o done /\ n = Len(fns) OBVIOUS
<1>2. \A i \in 1..Len(s) : u[i] = s[i]
  BY <1>1, ConcatProperties, LenProperties
<1>3. ASSUME NEW i \in 1..n PROVE fns[i] \in BeginsAt(s) <=> fns[i] \in BeginsAt(u)
  <2>1. PICK r, a, m : r = fns[i] /\ a = r.at /\ m = Len(s) OBVIOUS
  <2>2. m \in Nat /\ a \in 1..m BY <1>1, <2>1, LenProperties
  <2>3. a # 1 => a - 1 \in 1..m BY <2>2
  <2>4. a # 1 => u[a - 1] = s[a - 1] BY <1>2, <2>1, <2>3
  <2> QED BY <2>1, <2>4 DEF BeginsAt, Begins
<1>4. PICK S, T : S = BeginsAt(s) /\ T = BeginsAt(u) OBVIOUS
<1>5. Kept(fns, S) = Kept(fns, T) BY <1>1, <1>3, <1>4, KeptSame
<1> QED BY <1>1, <1>4, <1>5 DEF RightCalls

(* Nothing was read. *)
LEMMA RightNone == \A p, s : RightCalls(p, s, <<>>, <<>>)
BY KeptEmpty, CallsOfNone, SubsequenceEmpty DEF RightCalls

------------------------------------------------------------------------------
(* Between the declaration of a function and its end.                      *)
Within(p, r, pos) == r.at <= pos /\ pos < Ending(p, r)

ReadOf(p, r, pos) == SubSeq(FunctionOf(p, r), 1, pos - r.at + 1)

(* How far the parser is: the part of a function it read up to a newline,  *)
(* or in no function but one that begins in the middle of a line.          *)
Follows(p, s, prs, pos, now) ==
  IF now.new
  THEN /\ EndsLine(s[pos])
       /\ \E i \in 1..Len(prs) :
            /\ Within(p, prs[i], pos)
            /\ now.lines = Calls(ReadOf(p, prs[i], pos))
            /\ now.subcall = Rest(ReadOf(p, prs[i], pos))
  ELSE \A i \in 1..Len(prs) : Within(p, prs[i], pos) => ~Begins(s, prs[i])

(* A line ends where a function does, or before. *)
LEMMA LineInside ==
  ASSUME NEW p \in Procs, NEW s, NEW prs, Fits(p, s, prs),
         NEW pos, NEW line, NEW e, IsLine(s, pos, line, e),
         NEW i \in 1..Len(prs), pos < Ending(p, prs[i])
  PROVE  /\ e <= Ending(p, prs[i])
         /\ e = Ending(p, prs[i]) /\ prs[i].at <= pos => e = pos + 1
         /\ e = Ending(p, prs[i]) => prs[i].at <= pos
<1>1. PICK a, d : a = prs[i].at /\ d = Ending(p, prs[i]) OBVIOUS
<1>2. a \in Nat /\ d \in Nat /\ d > a + 1 /\ EndsLine(s[d - 1]) /\ EndsLine(s[d])
  BY <1>1, PieceShape
<1>3. pos \in Nat /\ e \in Nat /\ e > pos /\ \A x \in (pos + 1)..(e - 1) : ~EndsLine(s[x])
  BY LenProperties DEF IsLine
<1>4. d \notin (pos + 1)..(e - 1) /\ d - 1 \notin (pos + 1)..(e - 1) BY <1>2, <1>3
<1> QED BY <1>1, <1>2, <1>3, <1>4

(* The part of a function that was read, a line longer.                    *)
LEMMA ReadOfLine ==
  ASSUME NEW p \in Procs, NEW s, NEW prs, Fits(p, s, prs),
         NEW pos, NEW line, NEW e, IsLine(s, pos, line, e),
         NEW i \in 1..Len(prs), prs[i].at <= pos + 1, e <= Ending(p, prs[i])
  PROVE  /\ ReadOf(p, prs[i], pos) \in Seq(Lexeme)
         /\ ReadOf(p, prs[i], e) = ReadOf(p, prs[i], pos) \o line
<1>1. PICK a, d, t, n :
        a = prs[i].at /\ d = Ending(p, prs[i]) /\ t = FunctionOf(p, prs[i]) /\ n = Len(t)
  OBVIOUS
<1>2. /\ a \in Nat \ {0} /\ d \in Nat /\ t \in Seq(Lexeme) /\ n = d - a + 1
      /\ \A x \in a..d : s[x] = t[x - a + 1]
  BY <1>1, PieceShape
<1>3. /\ pos \in Nat /\ e \in Nat /\ e > pos /\ line \in Seq(Lexeme) /\ Len(line) = e - pos
      /\ \A j \in 1..(e - pos) : line[j] = s[pos + j]
  BY LenProperties DEF IsLine, Line
<1>. DEFINE m == pos - a + 1
            k == e - a + 1
            u == SubSeq(t, 1, m)
            v == SubSeq(t, 1, k)
<1>4. m \in Nat /\ k \in Nat /\ m < k /\ k <= n /\ k - m = e - pos
  <2>1. a <= pos + 1 /\ e <= d BY <1>1
  <2> QED BY <1>2, <1>3, <2>1
<1>5. u = ReadOf(p, prs[i], pos) /\ v = ReadOf(p, prs[i], e) BY <1>1 DEF ReadOf
<1>6. /\ u \in Seq(Lexeme) /\ Len(u) = m /\ \A j \in 1..m : u[j] = t[j]
      /\ v \in Seq(Lexeme) /\ Len(v) = k /\ \A j \in 1..k : v[j] = t[j]
  <2> HIDE DEF m, k
  <2>1. \A j \in 1..n : t[j] \in Lexeme BY <1>1, <1>2, ElementOfSeq
  <2>2. 1..m \subseteq 1..n /\ 1..k \subseteq 1..n /\ n \in Int BY <1>2, <1>4
  <2>3. ASSUME NEW h \in Nat, 1..h \subseteq 1..n
        PROVE  LET w == SubSeq(t, 1, h)
               IN w \in Seq(Lexeme) /\ Len(w) = h /\ \A j \in 1..h : w[j] = t[j]
    <3>1. PICK w : w = SubSeq(t, 1, h) OBVIOUS
    <3>2. /\ w \in Seq(Lexeme) /\ Len(w) = IF 1 <= h THEN h - 1 + 1 ELSE 0
          /\ \A j \in 1..(h - 1 + 1) : w[j] = t[1 + j - 1]
      BY <2>1, <2>3, <3>1, SubSeqProperties
    <3> QED BY <3>1, <3>2
  <2> QED BY <1>4, <2>2, <2>3
<1> HIDE DEF u, v, m, k
<1>7. PICK w : w = u \o line OBVIOUS
<1>8. /\ w \in Seq(Lexeme) /\ Len(w) = m + (e - pos)
      /\ \A j \in 1..(m + (e - pos)) : w[j] = IF j <= m THEN u[j] ELSE line[j - m]
  <2>1. PICK x, y : x = u /\ y = line OBVIOUS
  <2>2. x \in Seq(Lexeme) /\ y \in Seq(Lexeme) /\ Len(x) = m /\ Len(y) = e - pos
    BY <1>3, <1>6, <2>1
  <2>3. /\ x \o y \in Seq(Lexeme) /\ Len(x \o y) = Len(x) + Len(y)
        /\ \A j \in 1..(Len(x) + Len(y)) : (x \o y)[j] = IF j <= Len(x) THEN x[j] ELSE y[j - Len(x)]
    BY <2>2, ConcatProperties
  <2> QED BY <1>7, <2>1, <2>2, <2>3
<1>9. ASSUME NEW j \in 1..k PROVE v[j] = w[j]
  <2>1. j \in 1..(m + (e - pos)) BY <1>3, <1>4
  <2>2. CASE j <= m
    <3>1. j \in 1..m BY <1>4, <2>2
    <3> QED BY <1>6, <1>8, <2>1, <2>2, <3>1
  <2>3. CASE ~(j <= m)
    <3>1. j - m \in 1..(e - pos) BY <1>3, <1>4, <2>3
    <3>2. pos + (j - m) = a + j - 1 BY <1>2, <1>3 DEF m
    <3>3. a + j - 1 \in a..d /\ (a + j - 1) - a + 1 = j BY <1>2, <1>4
    <3>4. line[j - m] = t[j] BY <1>2, <1>3, <3>1, <3>2, <3>3
    <3>5. w[j] = line[j - m] BY <1>8, <2>1, <2>3
    <3>6. v[j] = t[j] BY <1>6
    <3> QED BY <3>4, <3>5, <3>6
  <2> QED BY <2>2, <2>3
<1>10. Len(w) = k BY <1>3, <1>4, <1>8
<1>11. v = w
  <2>1. PICK x : x = v OBVIOUS
  <2>2. x \in Seq(Lexeme) /\ w \in Seq(Lexeme) /\ Len(x) = Len(w) BY <1>6, <1>8, <1>10, <2>1
  <2>3. \A j \in 1..Len(x) : x[j] = w[j] BY <1>6, <1>9, <2>1
  <2>4. x = w BY <2>2, <2>3, SeqEqual
  <2> QED BY <2>1, <2>4
<1> QED BY <1>5, <1>6, <1>7, <1>11

(* No function ends inside one that is being read. *)
LEMMA NoOtherEnds ==
  ASSUME NEW p \in Procs, NEW s, NEW prs, Fits(p, s, prs), NEW pos \in Nat, NEW e \in Nat,
         pos <= e, NEW i \in 1..Len(prs), prs[i].at <= pos + 1, e < Ending(p, prs[i])
  PROVE  WrittenOf(p, prs, e) = WrittenOf(p, prs, pos)
<1>1. ASSUME NEW j \in 1..Len(prs), Ending(p, prs[j]) <= e PROVE Ending(p, prs[j]) <= pos
  <2>1. PICK a, b, c, d : /\ a = prs[i].at /\ b = Ending(p, prs[i])
                          /\ c = prs[j].at /\ d = Ending(p, prs[j])
    OBVIOUS
  <2>2. a \in Nat /\ b \in Nat BY <2>1, PieceShape
  <2>3. c \in Nat /\ d \in Nat /\ d > c + 1 BY <2>1, PieceShape
  <2>4. j # i BY <1>1, <2>1, <2>2
  <2>5. b < c \/ d < a BY <2>1, <2>4, PiecesApart
  <2>6. d <= e /\ a <= pos + 1 /\ e < b BY <1>1, <2>1
  <2> QED BY <2>1, <2>2, <2>3, <2>5, <2>6
<1> QED BY <1>1, WrittenStay

(* A line inside a function. *)
LEMMA ReadInside ==
  ASSUME NEW p \in Procs, NEW s, NEW prs, Fits(p, s, prs),
         NEW pos, NEW line, NEW e, IsLine(s, pos, line, e),
         NEW i \in 1..Len(prs), prs[i].at <= pos + 1, e < Ending(p, prs[i]),
         NEW now \in Reading, now.lines = Calls(ReadOf(p, prs[i], pos)),
         now.subcall = Rest(ReadOf(p, prs[i], pos))
  PROVE  Follows(p, s, prs, e, AddLine(now, line)) /\ AddLine(now, line).new
<1>1. PICK a, d, t, r : /\ a = prs[i].at /\ d = Ending(p, prs[i])
                        /\ t = ReadOf(p, prs[i], pos) /\ r = ReadOf(p, prs[i], e)
  OBVIOUS
<1>2. a \in Nat /\ d \in Nat /\ d <= Len(s) BY <1>1, PieceShape
<1>3. /\ pos \in Nat /\ e \in Nat /\ e > pos /\ line \in Line /\ Len(line) = e - pos
      /\ s \in Seq(Lexeme) /\ Len(s) \in Nat
      /\ \A j \in 1..(e - pos) : line[j] = s[pos + j]
      /\ \A x \in (pos + 1)..(e - 1) : ~EndsLine(s[x])
      /\ e = Len(s) \/ EndsLine(s[e])
  BY LenProperties DEF IsLine
<1>4. EndsLine(s[e]) BY <1>1, <1>2, <1>3
<1>5. a <= e /\ e < d BY <1>1, <1>2, <1>3
<1>6. t \in Seq(Lexeme) /\ r = t \o line
  <2>1. e <= Ending(p, prs[i]) BY <1>1, <1>2, <1>3
  <2>2. /\ ReadOf(p, prs[i], pos) \in Seq(Lexeme)
        /\ ReadOf(p, prs[i], e) = ReadOf(p, prs[i], pos) \o line
    <3>1. prs[i].at <= pos + 1 OBVIOUS
    <3> QED BY <2>1, <3>1, ReadOfLine, SMTT(30)
  <2> QED BY <1>1, <2>2
<1>7. \A j \in 1..(Len(line) - 1) : line[j][1] # "loc"
  <2> SUFFICES ASSUME NEW j \in 1..(Len(line) - 1) PROVE line[j][1] # "loc" OBVIOUS
  <2>1. j \in 1..(e - pos) /\ pos + j \in (pos + 1)..(e - 1) BY <1>3
  <2>2. line[j] = s[pos + j] /\ ~EndsLine(s[pos + j]) BY <1>3, <2>1
  <2> QED BY <2>2 DEF EndsLine
<1>8. PICK new : new = AddLine(now, line) OBVIOUS
<1>9. new.new /\ new.lines = Calls(r) /\ new.subcall = Rest(r)
  <2>1. now.lines = Calls(t) /\ now.subcall = Rest(t) BY <1>1
  <2>2. t \in Seq(Lexeme) /\ line \in Line BY <1>3, <1>6
  <2>3. LET after == AddLine(now, line)
        IN after.new /\ after.lines = Calls(t \o line) /\ after.subcall = Rest(t \o line)
    BY <1>7, <2>1, <2>2, AddLineCalls
  <2>4. /\ AddLine(now, line).new
        /\ AddLine(now, line).lines = Calls(t \o line)
        /\ AddLine(now, line).subcall = Rest(t \o line)
    BY <2>3
  <2> QED BY <1>6, <1>8, <2>4
<1>10. Within(p, prs[i], e) BY <1>1, <1>5 DEF Within
<1>11. Follows(p, s, prs, e, new) BY <1>1, <1>4, <1>9, <1>10 DEF Follows
<1> QED BY <1>8, <1>9, <1>11

(* The blank line at the end of one. *)
LEMMA ReadEnd ==
  ASSUME NEW p \in Procs, NEW s, NEW prs, Fits(p, s, prs), NEW pos \in Nat,
         NEW i \in 1..Len(prs), prs[i].at <= pos, pos + 1 = Ending(p, prs[i]),
         NEW calls \in Seq(LineCalls),
         RightCalls(p, s, WrittenOf(p, prs, pos), calls)
  PROVE  /\ RightCalls(p, s, WrittenOf(p, prs, pos + 1),
                       Append(calls, Calls(ReadOf(p, prs[i], pos))))
         /\ Follows(p, s, prs, pos + 1, NoFunction)
<1>1. PICK r, t, n, e : r = prs[i] /\ t = FunctionOf(p, r) /\ n = Len(t) /\ e = pos + 1
  OBVIOUS
<1>2. r \in PieceOf(p) /\ t \in Seq(Lexeme) /\ n \in Nat /\ n > 2 /\ t[n] = Blank[1]
  <2>1. r \in Piece /\ r.fn \in 1..Len(Records[p]) BY <1>1, PieceShape
  <2> QED BY <1>1, <2>1, FunctionShape DEF PieceOf, FunctionOf
<1>3. PICK a : a = r.at /\ a \in Nat /\ n = (pos + 1) - a + 1
  <2>1. prs[i].at \in Nat /\ Len(FunctionOf(p, prs[i])) = Ending(p, prs[i]) - prs[i].at + 1
    BY PieceShape
  <2> QED BY <1>1, <2>1
<1>4. Calls(ReadOf(p, r, pos)) = Calls(t)
  <2>1. pos - a + 1 = n - 1 BY <1>3
  <2>2. PICK u, x : u = SubSeq(t, 1, n - 1) /\ x = t[n] OBVIOUS
  <2>3. ReadOf(p, r, pos) = u BY <1>1, <1>3, <2>1, <2>2 DEF ReadOf
  <2>4. u \in Seq(Lexeme) /\ x \in Lexeme /\ SubSeq(t, 1, n) = Append(u, x)
    <3>1. n \in 1..Len(t) BY <1>1, <1>2
    <3> QED BY <1>2, <2>2, <3>1, FrontAppend
  <2>5. SubSeq(t, 1, n) = t BY <1>1, <1>2, SubSeqFull
  <2>6. x[1] # "loc"
    <3>1. Blank[1][1] # "loc" BY DEF Blank
    <3> QED BY <1>2, <2>2, <3>1
  <2>7. Calls(Append(u, x)) = Calls(u) BY <2>4, <2>6, CallsAppend
  <2> QED BY <2>3, <2>4, <2>5, <2>7
<1>5. \A j \in 1..Len(prs) : Ending(p, prs[j]) <= e /\ j # i => Ending(p, prs[j]) <= pos
  <2> SUFFICES ASSUME NEW j \in 1..Len(prs), Ending(p, prs[j]) <= e, j # i
               PROVE  Ending(p, prs[j]) <= pos
    OBVIOUS
  <2>1. PICK c, d : c = prs[j].at /\ d = Ending(p, prs[j]) OBVIOUS
  <2>2. c \in Nat /\ d \in Nat /\ d > c + 1 BY <2>1, PieceShape
  <2>3. e < c \/ d < a BY <1>1, <1>3, <2>1, PiecesApart
  <2>4. a <= pos /\ d <= e BY <1>1, <1>3, <2>1
  <2> QED BY <1>1, <1>3, <2>1, <2>2, <2>3, <2>4
<1>6. /\ WrittenOf(p, prs, pos) \in Seq(PieceOf(p))
      /\ WrittenOf(p, prs, e) = Append(WrittenOf(p, prs, pos), r)
  <2>1. e \in Nat /\ pos <= e /\ pos < Ending(p, prs[i]) /\ Ending(p, prs[i]) <= e
    BY <1>1
  <2> QED BY <1>1, <1>5, <2>1, WrittenOne
<1>7. RightCalls(p, s, WrittenOf(p, prs, e), Append(calls, Calls(ReadOf(p, r, pos))))
  <2>1. PICK fns : fns = WrittenOf(p, prs, pos) OBVIOUS
  <2>2. RightCalls(p, s, Append(fns, r), Append(calls, Calls(Records[p][r.fn])))
    BY <1>2, <1>6, <2>1, RightRead
  <2> QED BY <1>1, <1>4, <1>6, <2>1, <2>2 DEF FunctionOf
<1>8. \A j \in 1..Len(prs) : ~Within(p, prs[j], e)
  <2> SUFFICES ASSUME NEW j \in 1..Len(prs), Within(p, prs[j], e) PROVE FALSE OBVIOUS
  <2>1. PICK c, d : c = prs[j].at /\ d = Ending(p, prs[j]) OBVIOUS
  <2>2. c \in Nat /\ d \in Nat /\ c <= e /\ e < d BY <2>1, PieceShape DEF Within
  <2>3. j # i BY <1>1, <2>1, <2>2
  <2>4. e < c \/ d < a BY <1>1, <1>3, <2>1, <2>3, PiecesApart
  <2> QED BY <1>1, <1>3, <2>2, <2>4
<1>9. Follows(p, s, prs, e, NoFunction) BY <1>8 DEF Follows, NoFunction
<1> QED BY <1>1, <1>7, <1>9

(* A line outside of all functions, or of one that begins in the middle of *)
(* a line.                                                                 *)
LEMMA ReadOther ==
  ASSUME NEW p \in Procs, NEW s, NEW prs, Fits(p, s, prs),
         NEW pos, NEW line, NEW e, IsLine(s, pos, line, e), line[1][1] # "decl",
         NEW now, ~now.new, Follows(p, s, prs, pos, now),
         NEW calls \in Seq(LineCalls),
         RightCalls(p, s, WrittenOf(p, prs, pos), calls)
  PROVE  /\ RightCalls(p, s, WrittenOf(p, prs, e), calls)
         /\ Follows(p, s, prs, e, now)
<1>1. /\ pos \in Nat /\ e \in Nat /\ e > pos
      /\ \A j \in 1..(e - pos) : line[j] = s[pos + j]
      /\ \A x \in (pos + 1)..(e - 1) : ~EndsLine(s[x])
  BY LenProperties DEF IsLine
<1>2. ASSUME NEW j \in 1..Len(prs), prs[j].at <= e, pos < Ending(p, prs[j])
      PROVE  ~Begins(s, prs[j])
  <2>1. PICK a, d : a = prs[j].at /\ d = Ending(p, prs[j]) OBVIOUS
  <2>2. a \in Nat \ {0} /\ s[a][1] = "decl" BY <2>1, PieceShape
  <2>3. CASE a <= pos
    <3>1. Within(p, prs[j], pos) BY <1>2, <2>1, <2>3 DEF Within
    <3> QED BY <3>1 DEF Follows
  <2>4. CASE a = pos + 1
    <3>1. 1 \in 1..(e - pos) BY <1>1
    <3>2. line[1] = s[a] BY <1>1, <2>4, <3>1
    <3> QED BY <2>2, <3>2
  <2>5. CASE a > pos + 1
    <3>1. a - 1 \in (pos + 1)..(e - 1) /\ a # 1 BY <1>1, <1>2, <2>1, <2>2, <2>5
    <3>2. ~EndsLine(s[a - 1]) BY <1>1, <3>1
    <3> QED BY <2>1, <3>1, <3>2 DEF Begins
  <2> QED BY <1>1, <2>2, <2>3, <2>4, <2>5
<1>3. Follows(p, s, prs, e, now)
  <2>1. ASSUME NEW j \in 1..Len(prs), Within(p, prs[j], e) PROVE ~Begins(s, prs[j])
    <3>1. PICK a, d : a = prs[j].at /\ d = Ending(p, prs[j]) OBVIOUS
    <3>2. a \in Nat /\ d \in Nat BY <3>1, PieceShape
    <3>3. a <= e /\ e < d BY <2>1, <3>1 DEF Within
    <3>4. pos < d BY <1>1, <3>2, <3>3
    <3> QED BY <1>2, <3>1, <3>3, <3>4
  <2> QED BY <2>1 DEF Follows
<1>4. CASE \E j \in 1..Len(prs) : pos < Ending(p, prs[j]) /\ Ending(p, prs[j]) <= e
  <2>1. PICK i \in 1..Len(prs) : pos < Ending(p, prs[i]) /\ Ending(p, prs[i]) <= e
    BY <1>4
  <2>2. PICK a, d, r : r = prs[i] /\ a = r.at /\ d = Ending(p, r) OBVIOUS
  <2>3. a \in Nat /\ d \in Nat /\ d > a + 1 /\ r \in PieceOf(p)
    <3>1. prs[i] \in Piece /\ prs[i].fn \in 1..Len(Records[p]) BY PieceShape
    <3> QED BY <2>2, <3>1, PieceShape DEF PieceOf
  <2>4. d = e
    <3>1. e <= Ending(p, prs[i]) BY <2>1, LineInside
    <3> QED BY <1>1, <2>1, <2>2, <2>3, <3>1
  <2>5. ~Begins(s, r)
    <3>1. a <= e BY <1>1, <2>3, <2>4
    <3> QED BY <1>2, <2>1, <2>2, <3>1
  <2>6. ASSUME NEW j \in 1..Len(prs), Ending(p, prs[j]) <= e, j # i
        PROVE  Ending(p, prs[j]) <= pos
    <3>1. PICK b, c : b = prs[j].at /\ c = Ending(p, prs[j]) OBVIOUS
    <3>2. b \in Nat /\ c \in Nat /\ c > b + 1 BY <3>1, PieceShape
    <3>3. c < b \/ c < a \/ d < b BY <2>2, <2>6, <3>1, PiecesApart
    <3>4. ~(pos < c)
      <4>1. pos < Ending(p, prs[j]) => e <= Ending(p, prs[j]) BY LineInside
      <4> QED BY <1>1, <2>3, <2>4, <2>6, <3>1, <3>2, <3>3, <4>1
    <3> QED BY <1>1, <3>1, <3>2, <3>4
  <2>7. /\ WrittenOf(p, prs, pos) \in Seq(PieceOf(p))
        /\ WrittenOf(p, prs, e) = Append(WrittenOf(p, prs, pos), r)
    <3>1. pos <= e BY <1>1
    <3> QED BY <1>1, <2>1, <2>2, <2>6, <3>1, WrittenOne
  <2>8. PICK fns : fns = WrittenOf(p, prs, pos) OBVIOUS
  <2>9. RightCalls(p, s, Append(fns, r), calls) BY <2>3, <2>5, <2>7, <2>8, RightMissed
  <2> QED BY <1>3, <2>7, <2>8, <2>9
<1>5. CASE ~\E j \in 1..Len(prs) : pos < Ending(p, prs[j]) /\ Ending(p, prs[j]) <= e
  <2>1. \A j \in 1..Len(prs) : Ending(p, prs[j]) <= e => Ending(p, prs[j]) <= pos
    <3>1. \A j \in 1..Len(prs) : Ending(p, prs[j]) \in Nat BY PieceShape
    <3> QED BY <1>1, <1>5, <3>1
  <2>2. pos <= e BY <1>1
  <2>3. WrittenOf(p, prs, e) = WrittenOf(p, prs, pos) BY <1>1, <2>1, <2>2, WrittenStay
  <2> QED BY <1>3, <2>3
<1> QED BY <1>4, <1>5

(* Reading a line, whatever it is. *)
LEMMA ReadLine ==
  ASSUME NEW p \in Procs, NEW s, NEW prs, Fits(p, s, prs), Declares(s, prs),
         NEW pos, NEW line, NEW e, IsLine(s, pos, line, e),
         NEW q, q.now \in Reading, ~q.now.new => q.now = NoFunction,
         q.calls \in Seq(LineCalls),
         Follows(p, s, prs, pos, q.now),
         RightCalls(p, s, WrittenOf(p, prs, pos), q.calls),
         q = [calls |-> q.calls, now |-> q.now]
  PROVE  LET new == parse_input_calls(q, line) IN
         /\ Follows(p, s, prs, e, new.now)
         /\ RightCalls(p, s, WrittenOf(p, prs, e), new.calls)
<1>1. PICK new, now, calls :
        new = parse_input_calls(q, line) /\ now = q.now /\ calls = q.calls
  OBVIOUS
<1>2. /\ pos \in Nat /\ e \in Nat /\ e > pos /\ e <= Len(s) /\ line \in Line
      /\ Len(line) = e - pos /\ \A j \in 1..(e - pos) : line[j] = s[pos + j]
  BY LenProperties DEF IsLine
<1>3. line[1] = s[pos + 1]
  <2>1. 1 \in 1..(e - pos) BY <1>2
  <2> QED BY <1>2, <2>1
<1>4. CASE now.new
  <2>1. PICK i \in 1..Len(prs) :
          /\ Within(p, prs[i], pos)
          /\ now.lines = Calls(ReadOf(p, prs[i], pos))
          /\ now.subcall = Rest(ReadOf(p, prs[i], pos))
    BY <1>1, <1>4 DEF Follows
  <2>2. EndsLine(s[pos]) BY <1>1, <1>4 DEF Follows
  <2>3. PICK a, d : a = prs[i].at /\ d = Ending(p, prs[i]) OBVIOUS
  <2>4. /\ a \in Nat /\ d \in Nat /\ s[d] = Blank[1]
        /\ \A x \in (a + 1)..(d - 1) : s[x] = Blank[1] => ~EndsLine(s[x - 1])
    BY <2>3, PieceShape
  <2>5. a <= pos /\ pos < d BY <2>1, <2>3 DEF Within
  <2>6. e <= d /\ (e = d => e = pos + 1) BY <2>3, <2>5, LineInside
  <2>7. CASE e = d
    <3>1. line = Blank
      <4>1. Len(line) = 1 /\ line[1] = Blank[1] BY <1>2, <1>3, <2>4, <2>6, <2>7
      <4>2. Blank \in Seq(Lexeme) /\ Len(Blank) = 1
        <5>1. line[1] \in Lexeme
          <6>1. line \in Seq(Lexeme) /\ 1 \in 1..Len(line) BY <1>2, <4>1 DEF Line
          <6> QED BY <6>1, ElementOfSeq
        <5>2. PICK x : x = line[1] OBVIOUS
        <5>3. Blank[1] = x /\ x \in Lexeme BY <4>1, <5>1, <5>2
        <5>4. Blank = <<x>> BY <5>3 DEF Blank
        <5> QED BY <5>3, <5>4
      <4>3. PICK b : b = Blank OBVIOUS
      <4>4. line \in Seq(Lexeme) /\ b \in Seq(Lexeme) /\ Len(line) = Len(b)
            /\ \A j \in 1..Len(line) : line[j] = b[j]
        <5>1. \A j \in 1..1 : j = 1 OBVIOUS
        <5> QED BY <1>2, <4>1, <4>2, <4>3, <5>1 DEF Line
      <4>5. line = b BY <4>4, SeqEqual
      <4> QED BY <4>3, <4>5
    <3>2. new = [calls |-> Append(calls, now.lines), now |-> NoFunction]
      BY <1>1, <1>4, <3>1, BlankIsNoDecl DEF parse_input_calls
    <3>3. a <= pos /\ pos + 1 = Ending(p, prs[i]) BY <2>3, <2>5, <2>6, <2>7
    <3>4. /\ RightCalls(p, s, WrittenOf(p, prs, pos + 1), Append(calls, now.lines))
          /\ Follows(p, s, prs, pos + 1, NoFunction)
      BY <1>1, <1>2, <2>1, <2>3, <3>3, ReadEnd
    <3> QED BY <1>1, <2>6, <2>7, <3>2, <3>4
  <2>8. CASE e # d
    <3>1. e < d BY <1>2, <2>4, <2>6, <2>8
    <3>2. line # Blank
      <4> SUFFICES ASSUME line = Blank PROVE FALSE OBVIOUS
      <4>1. Len(line) = 1 /\ line[1] = Blank[1]
        <5>1. Len(Blank) = 1 BY DEF Blank
        <5> QED BY <5>1
      <4>2. s[pos + 1] = Blank[1] BY <1>3, <4>1
      <4>3. pos + 1 \in (a + 1)..(d - 1) /\ (pos + 1) - 1 = pos
        BY <1>2, <2>4, <2>5, <3>1
      <4>4. ~EndsLine(s[(pos + 1) - 1]) BY <2>4, <4>2, <4>3
      <4> QED BY <2>2, <4>3, <4>4
    <3>3. new = [q EXCEPT !.now = AddLine(now, line)]
      BY <1>1, <1>4, <3>2 DEF parse_input_calls
    <3>4. PICK after : after = AddLine(now, line) OBVIOUS
    <3>5. new.now = after /\ new.calls = calls BY <1>1, <3>3, <3>4
    <3>6. prs[i].at <= pos + 1 /\ e < Ending(p, prs[i]) BY <1>2, <2>3, <2>4, <2>5, <3>1
    <3>7. Follows(p, s, prs, e, after) BY <1>1, <2>1, <3>4, <3>6, ReadInside
    <3>8. WrittenOf(p, prs, e) = WrittenOf(p, prs, pos)
      <4>1. pos <= e BY <1>2
      <4> QED BY <1>2, <3>6, <4>1, NoOtherEnds
    <3> QED BY <1>1, <3>5, <3>7, <3>8
  <2> QED BY <2>7, <2>8
<1>5. CASE ~now.new /\ line[1][1] = "decl"
  <2>1. now = NoFunction BY <1>1, <1>5
  <2>2. PICK i \in 1..Len(prs) : pos + 1 = prs[i].at
    <3>1. pos + 1 \in 1..Len(s) /\ s[pos + 1][1] = "decl"
      <4>1. Len(s) \in Nat BY LenProperties DEF IsLine
      <4> QED BY <1>2, <1>3, <1>5, <4>1
    <3> QED BY <3>1 DEF Declares
  <2>3. PICK d : d = Ending(p, prs[i]) OBVIOUS
  <2>4. d \in Nat /\ d > (pos + 1) + 1 BY <2>2, <2>3, PieceShape
  <2>5. e < d
    <3>1. pos < Ending(p, prs[i]) BY <1>2, <2>3, <2>4
    <3>2. e <= d /\ (e = d => prs[i].at <= pos) BY <2>3, <3>1, LineInside
    <3>3. ~(prs[i].at <= pos) BY <1>2, <2>2
    <3> QED BY <1>2, <2>4, <3>2, <3>3
  <2>6. ReadOf(p, prs[i], pos) = <<>>
    <3>1. pos - (pos + 1) + 1 = 0 BY <1>2
    <3>2. pos - prs[i].at + 1 = 0 BY <2>2, <3>1
    <3> QED BY <3>2, SubSeqEmpty DEF ReadOf
  <2>7. /\ now.lines = Calls(ReadOf(p, prs[i], pos))
        /\ now.subcall = Rest(ReadOf(p, prs[i], pos))
    BY <2>1, <2>6, EndsEmpty DEF NoFunction
  <2>8. new = [q EXCEPT !.now = AddLine(now, line)]
    BY <1>1, <1>5 DEF parse_input_calls
  <2>9. PICK after : after = AddLine(now, line) OBVIOUS
  <2>10. new.now = after /\ new.calls = calls BY <1>1, <2>8, <2>9
  <2>11. prs[i].at <= pos + 1 /\ e < Ending(p, prs[i]) BY <1>2, <2>2, <2>3, <2>5
  <2>12. Follows(p, s, prs, e, after) BY <1>1, <2>7, <2>9, <2>11, ReadInside
  <2>13. WrittenOf(p, prs, e) = WrittenOf(p, prs, pos)
    <3>1. pos <= e BY <1>2
    <3> QED BY <1>2, <2>11, <3>1, NoOtherEnds
  <2> QED BY <1>1, <2>10, <2>12, <2>13
<1>6. CASE ~now.new /\ line[1][1] # "decl"
  <2>1. new = q BY <1>1, <1>6 DEF parse_input_calls
  <2>2. RightCalls(p, s, WrittenOf(p, prs, e), calls) /\ Follows(p, s, prs, e, now)
    BY <1>1, <1>6, ReadOther
  <2> QED BY <1>1, <2>1, <2>2
<1> QED BY <1>4, <1>5, <1>6

(* What a compilation does to its log, to a reader: text behind it, a      *)
(* function more or none.                                                  *)
Grows(p, s, prs, u, more) ==
  /\ Fits(p, s, prs) /\ Fits(p, u, more)
  /\ \E done \in Seq(Lexeme) : u = s \o done
  /\ \/ more = prs
     \/ \E r \in PieceOf(p) : r.at = Len(s) + 1 /\ more = Append(prs, r)

LEMMA GrowsFollows ==
  ASSUME NEW p \in Procs, NEW s, NEW prs, NEW u, NEW more, Grows(p, s, prs, u, more),
         NEW pos \in Nat, pos <= Len(s), NEW now, Follows(p, s, prs, pos, now)
  PROVE  Follows(p, u, more, pos, now) /\ pos <= Len(u)
<1>1. PICK done \in Seq(Lexeme) : u = s \o done BY DEF Grows
<1>2. PICK n, k : n = Len(s) /\ k = Len(prs) OBVIOUS
<1>3. /\ n \in Nat /\ k \in Nat /\ s \in Seq(Lexeme) /\ prs \in Seq(PieceOf(p))
      /\ Fits(p, s, prs)
  BY <1>2, FitsPieces, LenProperties DEF Grows, Fits
<1>4. Len(u) \in Nat /\ Len(u) >= n /\ \A x \in 1..n : u[x] = s[x]
  BY <1>1, <1>2, <1>3, ConcatProperties, LenProperties
<1>5. /\ Len(more) \in Nat /\ Len(more) >= k /\ \A i \in 1..k : more[i] = prs[i]
      /\ \A i \in 1..Len(more) : i \in 1..k \/ more[i].at = n + 1
  <2>1. CASE more = prs BY <1>2, <1>3, <2>1
  <2>2. CASE \E r \in PieceOf(p) : r.at = Len(s) + 1 /\ more = Append(prs, r)
    <3>1. PICK r \in PieceOf(p) : r.at = Len(s) + 1 /\ more = Append(prs, r) BY <2>2
    <3>2. Len(more) = k + 1 /\ more[k + 1] = r /\ \A i \in 1..k : more[i] = prs[i]
      BY <1>2, <1>3, <3>1, AppendProperties
    <3> QED BY <1>2, <1>3, <3>1, <3>2
  <2> QED BY <2>1, <2>2 DEF Grows
<1>6. CASE now.new
  <2>1. PICK i \in 1..k :
          /\ Within(p, prs[i], pos)
          /\ now.lines = Calls(ReadOf(p, prs[i], pos))
          /\ now.subcall = Rest(ReadOf(p, prs[i], pos))
    BY <1>2, <1>6 DEF Follows
  <2>2. pos \in 1..n
    <3>1. prs[i].at \in Nat \ {0} BY <1>2, <1>3, PieceShape
    <3>2. prs[i].at <= pos BY <2>1 DEF Within
    <3> QED BY <1>2, <1>3, <3>1, <3>2
  <2>3. EndsLine(u[pos]) BY <1>4, <1>6, <2>2 DEF Follows
  <2>4. i \in 1..Len(more) /\ more[i] = prs[i] BY <1>3, <1>5
  <2> QED BY <1>2, <1>3, <1>4, <1>6, <2>1, <2>3, <2>4 DEF Follows
<1>7. CASE ~now.new
  <2>1. ASSUME NEW i \in 1..Len(more), Within(p, more[i], pos) PROVE ~Begins(u, more[i])
    <3>1. i \in 1..k
      <4>1. more[i].at <= pos BY <2>1 DEF Within
      <4>2. more[i].at # n + 1
        <5>1. PICK a : a = more[i].at OBVIOUS
        <5> QED BY <1>2, <1>3, <4>1, <5>1
      <4> QED BY <1>5, <4>2
    <3>2. more[i] = prs[i] /\ ~Begins(s, prs[i])
      BY <1>2, <1>5, <1>7, <2>1, <3>1 DEF Follows
    <3>3. PICK a : a = prs[i].at OBVIOUS
    <3>4. a \in Nat \ {0} BY <1>2, <1>3, <3>1, <3>3, PieceShape
    <3>5. a <= pos BY <2>1, <3>2, <3>3 DEF Within
    <3>6. a # 1 => a - 1 \in 1..n BY <1>2, <1>3, <3>4, <3>5
    <3> QED BY <1>4, <3>2, <3>3, <3>6 DEF Begins
  <2> QED BY <1>2, <1>3, <1>4, <1>7, <2>1 DEF Follows
<1> QED BY <1>6, <1>7

LEMMA GrowsRight ==
  ASSUME NEW p \in Procs, NEW s, NEW prs, NEW u, NEW more, Grows(p, s, prs, u, more),
         NEW pos \in Nat, pos <= Len(s), NEW calls,
         RightCalls(p, s, WrittenOf(p, prs, pos), calls)
  PROVE  RightCalls(p, u, WrittenOf(p, more, pos), calls) /\ pos <= Len(u)
<1>1. PICK done \in Seq(Lexeme) : u = s \o done BY DEF Grows
<1>2. PICK n : n = Len(s) OBVIOUS
<1>3. n \in Nat /\ s \in Seq(Lexeme) /\ Fits(p, s, prs) BY <1>2, LenProperties DEF Grows, Fits
<1>4. pos <= Len(u)
  <2>1. Len(u) \in Nat /\ Len(u) >= n BY <1>1, <1>2, <1>3, ConcatProperties, LenProperties
  <2> QED BY <1>2, <1>3, <2>1
<1>5. WrittenOf(p, more, pos) = WrittenOf(p, prs, pos)
  <2>1. CASE more = prs BY <2>1
  <2>2. CASE \E r \in PieceOf(p) : r.at = Len(s) + 1 /\ more = Append(prs, r)
    <3>1. PICK r \in PieceOf(p) : r.at = Len(s) + 1 /\ more = Append(prs, r) BY <2>2
    <3>2. ~(Ending(p, r) <= pos)
      <4>1. PICK m : m = Len(Records[p][r.fn]) OBVIOUS
      <4>2. m \in Nat /\ m > 2 BY <4>1, FunctionShape DEF PieceOf
      <4>3. Ending(p, r) = (n + 1) + m - 1 BY <1>2, <3>1, <4>1 DEF Ending
      <4> QED BY <1>2, <1>3, <4>2, <4>3
    <3> QED BY <1>3, <3>1, <3>2, WrittenMore
  <2> QED BY <2>1, <2>2 DEF Grows
<1>6. PICK fns : fns = WrittenOf(p, prs, pos) OBVIOUS
<1>7. /\ fns \in Seq(PieceOf(p))
      /\ \A r \in ToSet(fns) : r \in ToSet(prs) /\ Ending(p, r) <= pos
  BY <1>3, <1>6, WrittenType
<1>8. ASSUME NEW i \in 1..Len(fns) PROVE fns[i].at \in 1..Len(s)
  <2>1. fns[i] \in ToSet(fns) BY <1>7, LenProperties DEF ToSet
  <2>2. fns[i] \in ToSet(prs) BY <1>7, <2>1
  <2>3. prs \in Seq(Piece) BY <1>3 DEF Fits
  <2>4. PICK j \in 1..Len(prs) : fns[i] = prs[j] BY <2>2, <2>3, LenProperties DEF ToSet
  <2>5. PICK a, d : a = prs[j].at /\ d = Ending(p, prs[j]) OBVIOUS
  <2>6. a \in Nat \ {0} /\ d \in Nat /\ d > a + 1 /\ d <= n BY <1>2, <1>3, <2>5, PieceShape
  <2> QED BY <1>2, <1>3, <2>4, <2>5, <2>6
<1>9. RightCalls(p, s \o done, fns, calls) BY <1>3, <1>6, <1>7, <1>8, RightMore
<1> QED BY <1>1, <1>4, <1>5, <1>6, <1>9

------------------------------------------------------------------------------
(* The functions are where printed says, and nothing else looks like one   *)
(* where none was cut short.                                               *)
PrintedInv ==
  /\ printed \in [Procs -> Seq(Piece)]
  /\ \A p \in Procs : Fits(p, sent[p], printed[p])
  /\ \A p \in Procs \ torn : Declares(sent[p], printed[p])

(* What a step of the compilations does. *)
Onward ==
  /\ PrintedInv' /\ torn \subseteq torn' /\ clash \subseteq clash'
  /\ \A p \in Procs : Grows(p, sent[p], printed[p], sent'[p], printed'[p])
  /\ \A p \in Procs : file[p] # NoFile => file'[p] = file[p]

LEMMA GrowsNot ==
  ASSUME NEW p \in Procs, NEW s, NEW prs, Fits(p, s, prs)
  PROVE  Grows(p, s, prs, s, prs)
<1>1. <<>> \in Seq(Lexeme) OBVIOUS
<1>2. s = s \o <<>> BY ConcatEmptySeq DEF Fits
<1> QED BY <1>1, <1>2 DEF Grows

(* A step that writes nothing. *)
LEMMA QuietOnward ==
  ASSUME PrintedInv, UNCHANGED <<sent, printed, torn>>, clash \subseteq clash',
         \A p \in Procs : file[p] # NoFile => file'[p] = file[p]
  PROVE  Onward
<1>1. PrintedInv' BY DEF PrintedInv
<1>2. \A p \in Procs : Grows(p, sent[p], printed[p], sent[p], printed[p])
  BY GrowsNot DEF PrintedInv
<1>3. sent' = sent /\ printed' = printed /\ torn' = torn OBVIOUS
<1> QED BY <1>1, <1>2, <1>3 DEF Onward

(* A write that prints no function: a text without declarations, or a      *)
(* function cut short.                                                     *)
LEMMA TextOnward ==
  ASSUME PrintedInv, sent \in [Procs -> Seq(Lexeme)],
         NEW p \in Procs, NEW done \in Seq(Lexeme), sent' = [sent EXCEPT ![p] = @ \o done],
         UNCHANGED <<printed, clash, file>>,
         \/ torn' = torn /\ \A i \in DOMAIN done : done[i][1] # "decl"
         \/ torn' = torn \cup {p}
  PROVE  Onward
<1>1. Fits(p, sent[p], printed[p]) BY DEF PrintedInv
<1>2. PICK s, u, prs : s = sent[p] /\ prs = printed[p] /\ u = s \o done OBVIOUS
<1>3. Fits(p, u, prs) /\ (Declares(s, prs) /\ (\A i \in DOMAIN done : done[i][1] # "decl")
                            => Declares(u, prs))
  BY <1>1, <1>2, FitsMore
<1>4. sent'[p] = u /\ \A q \in Procs \ {p} : sent'[q] = sent[q] BY <1>2
<1>5. PrintedInv'
  <2>1. ASSUME NEW q \in Procs PROVE Fits(q, sent'[q], printed[q])
    BY <1>2, <1>3, <1>4 DEF PrintedInv
  <2>2. ASSUME NEW q \in Procs \ torn' PROVE Declares(sent'[q], printed[q])
    <3>1. q \in Procs \ torn OBVIOUS
    <3>2. Declares(sent[q], printed[q]) BY <3>1 DEF PrintedInv
    <3>3. CASE q = p
      <4>1. \A i \in DOMAIN done : done[i][1] # "decl" BY <2>2, <3>3
      <4> QED BY <1>2, <1>3, <1>4, <3>2, <3>3, <4>1
    <3>4. CASE q # p BY <1>4, <3>2, <3>4
    <3> QED BY <3>3, <3>4
  <2> QED BY <2>1, <2>2 DEF PrintedInv
<1>6. ASSUME NEW q \in Procs PROVE Grows(q, sent[q], printed[q], sent'[q], printed'[q])
  <2>1. CASE q = p BY <1>1, <1>2, <1>3, <1>4, <2>1 DEF Grows
  <2>2. CASE q # p BY <1>4, <2>2, GrowsNot DEF PrintedInv
  <2> QED BY <2>1, <2>2
<1> QED BY <1>5, <1>6 DEF Onward

(* A function written whole. *)
LEMMA FunctionOnward ==
  ASSUME PrintedInv, sent \in [Procs -> Seq(Lexeme)],
         NEW p \in Procs, NEW fn \in 1..Len(Records[p]),
         sent' = [sent EXCEPT ![p] = @ \o Records[p][fn]],
         printed' = [printed EXCEPT ![p] = Append(@, [fn |-> fn, at |-> Len(sent[p]) + 1])],
         UNCHANGED <<torn, clash, file>>
  PROVE  Onward
<1>1. Fits(p, sent[p], printed[p]) BY DEF PrintedInv
<1>2. PICK s, u, prs, new, more :
        /\ s = sent[p] /\ prs = printed[p] /\ u = s \o Records[p][fn]
        /\ new = [fn |-> fn, at |-> Len(s) + 1] /\ more = Append(prs, new)
  OBVIOUS
<1>3. new \in Piece /\ Fits(p, u, more) /\ (Declares(s, prs) => Declares(u, more))
  BY <1>1, <1>2, FitsFunction
<1>4. new \in PieceOf(p) /\ new.at = Len(s) + 1 BY <1>2, <1>3 DEF PieceOf
<1>5. /\ sent'[p] = u /\ printed'[p] = more
      /\ \A q \in Procs \ {p} : sent'[q] = sent[q] /\ printed'[q] = printed[q]
  BY <1>2 DEF PrintedInv
<1>6. more \in Seq(Piece) BY <1>3 DEF Fits
<1>7. printed' \in [Procs -> Seq(Piece)] BY <1>2, <1>6 DEF PrintedInv
<1>8. PrintedInv'
  <2>1. ASSUME NEW q \in Procs PROVE Fits(q, sent'[q], printed'[q])
    BY <1>3, <1>5 DEF PrintedInv
  <2>2. ASSUME NEW q \in Procs \ torn PROVE Declares(sent'[q], printed'[q])
    BY <1>2, <1>3, <1>5 DEF PrintedInv
  <2> QED BY <1>7, <2>1, <2>2 DEF PrintedInv
<1>9. Records[p][fn] \in Seq(Lexeme) BY FunctionShape
<1>10. ASSUME NEW q \in Procs PROVE Grows(q, sent[q], printed[q], sent'[q], printed'[q])
  <2>1. CASE q = p
    <3>1. Grows(p, s, prs, u, more) BY <1>1, <1>2, <1>3, <1>4, <1>9 DEF Grows
    <3> QED BY <1>2, <1>5, <2>1, <3>1
  <2>2. CASE q # p BY <1>5, <2>2, GrowsNot DEF PrintedInv
  <2> QED BY <2>1, <2>2
<1> QED BY <1>8, <1>10 DEF Onward

(* A part of one of the other texts. *)
LEMMA OtherOnward ==
  ASSUME IInv, PrintedInv, NEW p \in Procs, NEW text \in {Header, Prefix, Message, Newline},
         NEW n \in Taken(text), Write(p, text, n), UNCHANGED <<printed, clash, file, torn>>
  PROVE  Onward
<1>1. text \in Seq(Lexeme) BY LogFileAssumption DEF Lexeme
<1>2. PICK done : done = SubSeq(text, 1, n) OBVIOUS
<1>3. n \in 0..Len(text) /\ done \in Seq(Lexeme) /\ Len(done) = n BY <1>1, <1>2, TakenFront
<1>4. \A i \in DOMAIN done : done[i][1] # "decl"
  <2>1. \A i \in 1..n : done[i] = text[i] /\ i \in DOMAIN text
    BY <1>1, <1>2, <1>3, LenProperties
  <2>2. DOMAIN done = 1..n BY <1>3, LenProperties
  <2> QED BY <2>1, <2>2, PrintedAssumption
<1>5. sent' = [sent EXCEPT ![p] = @ \o done] BY <1>2 DEF Write
<1>6. sent \in [Procs -> Seq(Lexeme)] BY DEF IInv, Texts
<1> QED BY <1>3, <1>4, <1>5, <1>6, TextOnward

(* Every step of every compilation. *)
LEMMA NextOnward ==
  ASSUME IInv, PrintedInv, [Next]_vars
  PROVE  Onward
<1>1. CASE UNCHANGED vars BY <1>1, QuietOnward DEF vars
<1>2. ASSUME NEW p \in Procs, Step(p) PROVE Onward
  <2>1. sent \in [Procs -> Seq(Lexeme)] /\ clash \subseteq Procs
        /\ next \in [Procs -> Nat \ {0}]
    BY DEF IInv, Texts, TypeOK
  <2>2. CASE open_log_lstat(p)
    <3>1. UNCHANGED <<sent, printed, torn, file>> /\ clash \subseteq clash'
      BY <2>2 DEF open_log_lstat
    <3> QED BY <3>1, QuietOnward
  <2>3. CASE open_log_unlink(p) \/ open_log_fails(p) \/ close_log(p)
    <3>1. UNCHANGED <<sent, printed, torn, file, clash>>
      BY <2>3 DEF open_log_unlink, open_log_fails, close_log, history
    <3> QED BY <3>1, QuietOnward
  <2>4. CASE open_log_unlink_refused(p)
    <3>1. UNCHANGED <<sent, printed, torn, file>> /\ clash \subseteq clash'
      BY <2>4 DEF open_log_unlink_refused
    <3> QED BY <3>1, QuietOnward
  <2>5. CASE open_log_open(p)
    <3>1. pc[p] = "open" /\ UNCHANGED <<sent, printed, torn, clash>>
      BY <2>5 DEF open_log_open, history, Goto
    <3>2. file[p] = NoFile BY <3>1 DEF IInv, TypeOK
    <3>3. \E f : file' = [file EXCEPT ![p] = f] BY <2>5 DEF open_log_open
    <3>4. \A q \in Procs : file[q] # NoFile => file'[q] = file[q]
      BY <3>2, <3>3 DEF IInv, TypeOK
    <3> QED BY <3>1, <3>4, QuietOnward
  <2>6. CASE write_header(p)
    BY <2>6, OtherOnward DEF write_header
  <2>7. CASE report_prefix(p)
    BY <2>7, OtherOnward DEF report_prefix
  <2>8. CASE report_message(p)
    BY <2>8, OtherOnward DEF report_message
  <2>9. CASE report_newline(p)
    BY <2>9, OtherOnward DEF report_newline
  <2>10. CASE write_function(p)
    <3>1. PICK fn : fn = next[p] OBVIOUS
    <3>2. PICK text : text = Records[p][fn] OBVIOUS
    <3>3. PICK n \in Taken(text) :
            /\ Write(p, text, n)
            /\ torn' = IF n > 0 /\ n < Len(text) THEN torn \cup {p} ELSE torn
            /\ printed' = IF n = Len(text)
                          THEN [printed EXCEPT ![p] =
                                  Append(@, [fn |-> fn, at |-> Len(sent[p]) + 1])]
                          ELSE printed
      BY <2>10, <3>1, <3>2 DEF write_function
    <3>4. fn <= Len(Records[p]) /\ UNCHANGED <<file, clash>>
      BY <2>10, <3>1 DEF write_function
    <3>5. fn \in 1..Len(Records[p])
      <4>1. fn \in Nat \ {0} BY <2>1, <3>1
      <4>2. Len(Records[p]) \in Nat BY LogFileAssumption, LenProperties
      <4> QED BY <3>4, <4>1, <4>2
    <3>6. text \in Seq(Lexeme) /\ Len(text) \in Nat /\ Len(text) > 2
      BY <3>2, <3>5, FunctionShape
    <3>7. PICK done : done = SubSeq(text, 1, n) OBVIOUS
    <3>8. n \in 0..Len(text) /\ done \in Seq(Lexeme) /\ Len(done) = n
      BY <3>6, <3>7, TakenFront
    <3>9. sent' = [sent EXCEPT ![p] = @ \o done] BY <3>3, <3>7 DEF Write
    <3>10. CASE n = Len(text)
      <4>1. done = text BY <3>6, <3>7, <3>10, SubSeqFull
      <4>2. torn' = torn BY <3>3, <3>6, <3>10
      <4>3. printed' = [printed EXCEPT ![p] =
                          Append(@, [fn |-> fn, at |-> Len(sent[p]) + 1])]
        BY <3>3, <3>10
      <4> QED BY <2>1, <3>2, <3>4, <3>5, <3>9, <4>1, <4>2, <4>3, FunctionOnward
    <3>11. CASE n # Len(text) /\ n > 0
      <4>1. torn' = torn \cup {p} /\ printed' = printed BY <3>3, <3>6, <3>8, <3>11
      <4> QED BY <2>1, <3>4, <3>8, <3>9, <4>1, TextOnward
    <3>12. CASE n = 0
      <4>1. torn' = torn /\ printed' = printed BY <3>3, <3>6, <3>12
      <4>2. DOMAIN done = {} BY <3>8, <3>12, LenProperties
      <4> QED BY <2>1, <3>4, <3>8, <3>9, <4>1, <4>2, TextOnward
    <3> QED BY <3>8, <3>10, <3>11, <3>12
  <2> QED BY <1>2, <2>2, <2>3, <2>4, <2>5, <2>6, <2>7, <2>8, <2>9, <2>10 DEF Step
<1> QED BY <1>1, <1>2 DEF Next

Sound == Procs \ (clash \cup torn)

(* What was read of a log of its own, and what was checked of one.         *)
ReadSoFar(p, s, prs, pos, q) ==
  /\ pos <= Len(s)
  /\ Follows(p, s, prs, pos, q.now)
  /\ RightCalls(p, s, WrittenOf(p, prs, pos), q.calls)

CheckedRight(p, s, prs, c) ==
  /\ c.upto <= Len(s)
  /\ RightCalls(p, s, WrittenOf(p, prs, c.upto), c.calls)

FollowInv ==
  /\ PrintedInv
  /\ input # NoInput /\ input.file \in Procs => file[input.file] = input.file
  /\ \A p \in Sound :
       /\ input # NoInput /\ p = input.file
            => ReadSoFar(p, sent[p], printed[p], input.pos, parsed)
       /\ \A k \in DOMAIN checked :
            p = checked[k].file => CheckedRight(p, sent[p], printed[p], checked[k])

LEMMA InitFollow == LogsInit => FollowInv
<1> SUFFICES ASSUME LogsInit PROVE FollowInv OBVIOUS
<1>1. /\ sent = [p \in Procs |-> <<>>] /\ printed = [p \in Procs |-> <<>>]
      /\ input = NoInput /\ checked = <<>>
  BY DEF LogsInit, Init, CheckerInit
<1>2. <<>> \in Seq(Lexeme) /\ <<>> \in Seq(Piece) /\ Len(<<>>) = 0 /\ 1..0 = {} OBVIOUS
<1>3. printed \in [Procs -> Seq(Piece)] BY <1>1, <1>2
<1>4. \A p \in Procs : Fits(p, <<>>, <<>>) BY <1>2 DEF Fits
<1>5. Declares(<<>>, <<>>) BY <1>2 DEF Declares
<1>6. PrintedInv BY <1>1, <1>3, <1>4, <1>5 DEF PrintedInv
<1>7. DOMAIN checked = {} BY <1>1
<1> QED BY <1>1, <1>6, <1>7 DEF FollowInv

LEMMA QuietReader ==
  ASSUME ReaderInv, UNCHANGED checkerVars
  PROVE  ReaderInv'
<1>1. UNCHANGED <<status, selected, todo, input, parsed, nr_files, result, checked>>
  BY DEF checkerVars
<1>2. ChecksSelectedCalls' BY <1>1, ChecksStay DEF ReaderInv
<1> QED BY <1>1, <1>2 DEF ReaderInv

LEMMA LineCallsOf == Seq(Seq(Line)) \subseteq Seq(LineCalls)
<1>1. Line \subseteq Seq(Lexeme) BY DEF Line
<1>2. Seq(Line) \subseteq Seq(Seq(Lexeme)) BY <1>1, SeqMonotonic
<1>3. Seq(Line) \subseteq LineCalls BY <1>2 DEF LineCalls
<1> QED BY <1>3, SeqMonotonic

(* Compilations go on: what was read stays right.                          *)
LEMMA OnwardFollow ==
  ASSUME IInv, ReaderInv, FollowInv, [Next]_vars, UNCHANGED checkerVars
  PROVE  FollowInv'
<1>1. Onward BY NextOnward DEF FollowInv
<1>2. input' = input /\ parsed' = parsed /\ checked' = checked BY DEF checkerVars
<1>3. Sound' \subseteq Sound BY <1>1 DEF Onward, Sound
<1>4. /\ input \in [name : Arguments \cup {NoFile}, file : Files \cup {NoFile}, pos : Nat]
      /\ checked \in Seq(Result)
  BY DEF ReaderInv
<1>5. input.pos \in Nat BY <1>4
<1>6. ASSUME input # NoInput, input.file \in Procs PROVE file'[input.file] = input.file
  <2>1. file[input.file] = input.file /\ input.file # NoFile
    BY <1>6, LogFileAssumption DEF FollowInv, Files
  <2> QED BY <1>1, <1>6, <2>1 DEF Onward
<1>7. ASSUME input # NoInput, NEW p \in Sound', p = input.file PROVE ReadSoFar(p, sent'[p], printed'[p], input'.pos, parsed')
  <2>1. p \in Procs /\ p \in Sound BY <1>3 DEF Sound
  <2>2. PICK s, u, prs, more : /\ s = sent[p] /\ u = sent'[p]
                               /\ prs = printed[p] /\ more = printed'[p]
    OBVIOUS
  <2>3. Grows(p, s, prs, u, more) BY <1>1, <2>1, <2>2 DEF Onward
  <2>4. ReadSoFar(p, sent[p], printed[p], input.pos, parsed) BY <1>7, <2>1 DEF FollowInv
  <2>5. /\ input.pos <= Len(s) /\ Follows(p, s, prs, input.pos, parsed.now)
        /\ RightCalls(p, s, WrittenOf(p, prs, input.pos), parsed.calls)
    BY <2>2, <2>4 DEF ReadSoFar
  <2>6. /\ input.pos <= Len(u) /\ Follows(p, u, more, input.pos, parsed.now)
        /\ RightCalls(p, u, WrittenOf(p, more, input.pos), parsed.calls)
    BY <1>5, <2>1, <2>3, <2>5, GrowsFollows, GrowsRight
  <2> QED BY <1>2, <2>2, <2>6 DEF ReadSoFar
<1>8. ASSUME NEW k \in DOMAIN checked, NEW p \in Sound', p = checked[k].file
      PROVE  CheckedRight(p, sent'[p], printed'[p], checked'[k])
  <2>1. p \in Procs /\ p \in Sound BY <1>3 DEF Sound
  <2>2. PICK c : c = checked[k] OBVIOUS
  <2>3. c.upto \in Nat
    <3>1. k \in 1..Len(checked) BY <1>4, LenProperties
    <3>2. c \in Result BY <1>4, <2>2, <3>1, ElementOfSeq
    <3> QED BY <3>2 DEF Result
  <2>4. PICK s, u, prs, more : /\ s = sent[p] /\ u = sent'[p]
                               /\ prs = printed[p] /\ more = printed'[p]
    OBVIOUS
  <2>5. Grows(p, s, prs, u, more) BY <1>1, <2>1, <2>4 DEF Onward
  <2>6. CheckedRight(p, sent[p], printed[p], c) BY <1>8, <2>1, <2>2 DEF FollowInv
  <2>7. c.upto <= Len(s) /\ RightCalls(p, s, WrittenOf(p, prs, c.upto), c.calls)
    BY <2>4, <2>6 DEF CheckedRight
  <2>8. c.upto <= Len(u) /\ RightCalls(p, u, WrittenOf(p, more, c.upto), c.calls)
    BY <2>1, <2>3, <2>5, <2>7, GrowsRight
  <2> QED BY <1>2, <2>2, <2>4, <2>8 DEF CheckedRight
<1>9. PrintedInv' BY <1>1 DEF Onward
<1> QED BY <1>2, <1>6, <1>7, <1>8, <1>9 DEF FollowInv

(* The checker reads on, and the compilations stand still. *)
LEMMA CheckerFollow ==
  ASSUME IInv, ReaderInv, FollowInv, CheckerStep, UNCHANGED vars
  PROVE  FollowInv'
<1>1. UNCHANGED <<file, sent, printed, torn, clash>> BY DEF vars
<1>2. PrintedInv' /\ Sound' = Sound BY <1>1 DEF FollowInv, PrintedInv, Sound
<1>3. /\ input \in [name : Arguments \cup {NoFile}, file : Files \cup {NoFile}, pos : Nat]
      /\ input # NoInput => input.file \in Files
      /\ parsed \in Parsing /\ (~parsed.now.new => parsed.now = NoFunction)
      /\ checked \in Seq(Result)
  BY DEF ReaderInv
<1>4. ASSUME UNCHANGED checked
      PROVE  \A p \in Sound' : \A k \in DOMAIN checked' :
               p = checked'[k].file => CheckedRight(p, sent'[p], printed'[p], checked'[k])
  BY <1>1, <1>2, <1>4 DEF FollowInv
<1>5. ASSUME UNCHANGED <<input, parsed, checked>> PROVE FollowInv'
  <2> QED BY <1>1, <1>2, <1>4, <1>5 DEF FollowInv
<1>6. CASE run BY <1>5, <1>6 DEF run
<1>7. ASSUME NEW name \in Arguments, open_input_fails(name) PROVE FollowInv'
  BY <1>5, <1>7 DEF open_input_fails
<1>8. CASE run_returns BY <1>5, <1>8 DEF run_returns
<1>9. ASSUME NEW name \in Arguments, open_input(name) PROVE FollowInv'
  <2>1. /\ input' = [name |-> name, file |-> entry[name], pos |-> 0]
        /\ parsed' = [calls |-> <<>>, now |-> NoFunction] /\ checked' = checked
    BY <1>9 DEF open_input
  <2>2. entry[name] \in Procs => file[entry[name]] = entry[name]
    BY CheckerAssumption DEF IInv, NamesFit
  <2>3. ASSUME NEW p \in Sound' PROVE ReadSoFar(p, sent'[p], printed'[p], input'.pos, parsed')
    <3>1. p \in Procs BY DEF Sound
    <3>2. PICK s, prs : s = sent[p] /\ prs = printed[p] OBVIOUS
    <3>3. Fits(p, s, prs) BY <3>1, <3>2 DEF FollowInv, PrintedInv
    <3>4. Follows(p, s, prs, 0, NoFunction)
      <4>1. ASSUME NEW i \in 1..Len(prs), Within(p, prs[i], 0) PROVE FALSE
        <5>1. PICK a : a = prs[i].at OBVIOUS
        <5>2. a \in Nat \ {0} /\ a <= 0 BY <3>1, <3>3, <4>1, <5>1, PieceShape DEF Within
        <5> QED BY <5>2
      <4> QED BY <4>1 DEF Follows, NoFunction
    <3>5. RightCalls(p, s, WrittenOf(p, prs, 0), <<>>)
      <4>1. WrittenOf(p, prs, 0) = <<>> BY <3>1, <3>3, WrittenNone
      <4> QED BY <4>1, RightNone
    <3>6. 0 <= Len(s) BY <3>3, LenProperties DEF Fits
    <3>7. input'.pos = 0 /\ parsed'.now = NoFunction /\ parsed'.calls = <<>> BY <2>1
    <3> QED BY <1>1, <3>2, <3>4, <3>5, <3>6, <3>7 DEF ReadSoFar
  <2>4. input'.file = entry[name] BY <2>1
  <2> QED BY <1>1, <1>2, <1>4, <2>1, <2>2, <2>3, <2>4 DEF FollowInv
<1>10. CASE read_line
  <2>. DEFINE next_line == NextLine(Text, input.pos)
  <2>1. /\ input # NoInput /\ input.pos < Len(Text)
        /\ parsed' = parse_input_calls(parsed, next_line)
        /\ input' = [input EXCEPT !.pos = @ + Len(next_line)] /\ checked' = checked
    BY <1>10 DEF read_line
  <2>2. input.pos \in Nat BY <1>3
  <2>3. PICK line, e : line = next_line /\ e = input.pos + Len(line) OBVIOUS
  <2>4. input'.file = input.file /\ input'.pos = e BY <1>3, <2>1, <2>3
  <2>5. ASSUME NEW p \in Sound', p = input.file PROVE ReadSoFar(p, sent'[p], printed'[p], input'.pos, parsed')
    <3>1. p \in Procs /\ p \in Sound /\ p \notin clash /\ p \notin torn
      BY <1>2 DEF Sound
    <3>2. PICK s, prs : s = sent[p] /\ prs = printed[p] OBVIOUS
    <3>3. Text = s
      <4>1. file[p] = p BY <2>1, <2>5, <3>1 DEF FollowInv
      <4>2. p # NoFile BY <3>1, LogFileAssumption DEF Files
      <4>3. content[p] = sent[p] BY <3>1, <4>1, <4>2 DEF IInv, LogIsOwn
      <4> QED BY <2>5, <3>2, <4>3 DEF Text
    <3>4. Fits(p, s, prs) /\ Declares(s, prs)
      BY <3>1, <3>2 DEF FollowInv, PrintedInv
    <3>5. s \in Seq(Lexeme) BY <3>4 DEF Fits
    <3>6. IsLine(s, input.pos, line, e)
      BY <2>1, <2>2, <2>3, <3>3, <3>5, NextLineIs
    <3>7. e <= Len(s) BY <3>6, LenProperties DEF IsLine
    <3>8. /\ Follows(p, s, prs, input.pos, parsed.now)
          /\ RightCalls(p, s, WrittenOf(p, prs, input.pos), parsed.calls)
      BY <2>1, <2>5, <3>1, <3>2 DEF FollowInv, ReadSoFar
    <3>9. /\ parsed.now \in Reading /\ parsed.calls \in Seq(LineCalls)
          /\ parsed = [calls |-> parsed.calls, now |-> parsed.now]
      BY <1>3, LineCallsOf DEF Parsing
    <3>10. PICK q : q = parsed OBVIOUS
    <3>11. /\ Follows(p, s, prs, e, parse_input_calls(q, line).now)
           /\ RightCalls(p, s, WrittenOf(p, prs, e), parse_input_calls(q, line).calls)
      BY <1>3, <3>1, <3>4, <3>6, <3>8, <3>9, <3>10, ReadLine
    <3> HIDE DEF next_line
    <3>12. parsed' = parse_input_calls(q, line) BY <2>1, <2>3, <3>10
    <3> QED BY <1>1, <2>4, <3>2, <3>7, <3>11, <3>12 DEF ReadSoFar
  <2> HIDE DEF next_line
  <2>6. input'.file \in Procs => file[input'.file] = input'.file
    BY <2>1, <2>4 DEF FollowInv
  <2> QED BY <1>1, <1>2, <1>4, <2>1, <2>4, <2>5, <2>6 DEF FollowInv
<1>11. CASE process_fncalls
  <2>. DEFINE new == [file |-> input.file, upto |-> input.pos, calls |-> parsed.calls,
                      hits |-> [i \in DOMAIN parsed.calls |-> check_fncalls(parsed.calls[i])]]
              n == Len(checked)
  <2>1. input # NoInput /\ checked' = Append(checked, new) /\ input' = NoInput
    BY <1>11 DEF process_fncalls
  <2>2. new.file = input.file /\ new.upto = input.pos /\ new.calls = parsed.calls OBVIOUS
  <2> HIDE DEF new
  <2>3. n \in Nat /\ DOMAIN checked = 1..n BY <1>3, LenProperties
  <2>4. /\ DOMAIN checked' = 1..(n + 1) /\ checked'[n + 1] = new
        /\ \A k \in 1..n : checked'[k] = checked[k]
    BY <2>1
  <2>5. ASSUME NEW k \in 1..(n + 1), NEW p \in Sound', p = checked'[k].file
        PROVE  CheckedRight(p, sent'[p], printed'[p], checked'[k])
    <3>1. p \in Sound BY <1>2
    <3>2. CheckedRight(p, sent[p], printed[p], checked'[k])
      <4>1. CASE k = n + 1
        <5>1. checked'[k] = new BY <2>4, <4>1
        <5>2. ReadSoFar(p, sent[p], printed[p], input.pos, parsed)
          BY <2>1, <2>2, <2>5, <3>1, <5>1 DEF FollowInv
        <5> QED BY <2>2, <5>1, <5>2 DEF ReadSoFar, CheckedRight
      <4>2. CASE k # n + 1
        <5>1. k \in DOMAIN checked /\ checked'[k] = checked[k] BY <2>3, <2>4, <4>2
        <5> QED BY <2>5, <3>1, <5>1 DEF FollowInv
      <4> QED BY <4>1, <4>2
    <3> QED BY <1>1, <3>2
  <2> QED BY <1>1, <1>2, <2>1, <2>4, <2>5 DEF FollowInv
<1> QED BY <1>6, <1>7, <1>8, <1>9, <1>10, <1>11 DEF CheckerStep

(* The invariant says it. *)
LEMMA FollowChecks ==
  ASSUME ReaderInv, FollowInv
  PROVE  ChecksWhatWasPrinted
<1> SUFFICES ASSUME NEW k \in DOMAIN checked, NEW p, p = checked[k].file,
                    p \in Procs \ (clash \cup torn)
             PROVE  LET c == checked[k]
                        written == Written(p, c.upto)
                        begins == {r \in ToSet(written) : BeginsLine(p, r)}
                    IN /\ IsSubsequence(CallsOf(p, Kept(written, begins)), c.calls)
                       /\ IsSubsequence(c.calls, CallsOf(p, written))
  BY DEF ChecksWhatWasPrinted
<1>1. PICK c, prs, s : c = checked[k] /\ prs = printed[p] /\ s = sent[p] OBVIOUS
<1>2. CheckedRight(p, s, prs, c) BY <1>1 DEF FollowInv, Sound
<1>3. Fits(p, s, prs) BY <1>1 DEF FollowInv, PrintedInv
<1>4. PICK fns : fns = WrittenOf(p, prs, c.upto) OBVIOUS
<1>5. RightCalls(p, s, fns, c.calls) BY <1>1, <1>2, <1>4 DEF CheckedRight
<1>6. Written(p, c.upto) = fns BY <1>1, <1>4 DEF Written, WrittenOf
<1>7. fns \in Seq(PieceOf(p)) BY <1>3, <1>4, WrittenType
<1>8. PICK S, T : S = BeginsAt(s) /\ T = {r \in ToSet(fns) : BeginsLine(p, r)} OBVIOUS
<1>9. \A i \in 1..Len(fns) : fns[i] \in S <=> fns[i] \in T
  <2> SUFFICES ASSUME NEW i \in 1..Len(fns) PROVE fns[i] \in S <=> fns[i] \in T OBVIOUS
  <2>1. fns[i] \in Piece BY <1>7, ElementOfSeq DEF PieceOf
  <2>2. fns[i] \in ToSet(fns) BY <1>7, LenProperties DEF ToSet
  <2> QED BY <1>1, <1>8, <2>1, <2>2 DEF BeginsAt, Begins, BeginsLine
<1>10. Kept(fns, S) = Kept(fns, T) BY <1>7, <1>9, KeptSame
<1>11. /\ IsSubsequence(CallsOf(p, Kept(fns, T)), c.calls)
       /\ IsSubsequence(c.calls, CallsOf(p, fns))
  BY <1>5, <1>8, <1>10 DEF RightCalls
<1> QED BY <1>1, <1>6, <1>8, <1>11

(* However its reads and the writes of the compilations interleave, and    *)
(* whatever writes fail, the functions the checker checks are those of one *)
(* compilation, in order, each with all of its calls and no other, unless  *)
(* one was cut short or two compilations were inside open_log at a time.   *)
THEOREM ChecksPrinted == LogsSpec => []ChecksWhatWasPrinted
<1>. DEFINE All == IInv /\ ReaderInv /\ FollowInv
<1>1. LogsInit => All BY InitIInv, InitReader, InitFollow DEF LogsInit
<1>2. All /\ [LogsNext]_allVars => All'
  <2> SUFFICES ASSUME IInv, ReaderInv, FollowInv, [LogsNext]_allVars
               PROVE  IInv' /\ ReaderInv' /\ FollowInv'
    OBVIOUS
  <2>1. [Next]_vars BY DEF LogsNext, allVars
  <2>2. IInv' BY <2>1, NextIInv
  <2>3. CASE UNCHANGED checkerVars
    <3>1. ReaderInv' BY <2>2, <2>3, QuietReader
    <3>2. FollowInv' BY <2>1, <2>3, OnwardFollow
    <3> QED BY <2>2, <3>1, <3>2
  <2>4. CASE CheckerStep /\ UNCHANGED vars BY <2>2, <2>4, CheckerReader, CheckerFollow
  <2> QED BY <2>3, <2>4 DEF LogsNext, allVars
<1>3. All => ChecksWhatWasPrinted BY FollowChecks
<1> QED BY <1>1, <1>2, <1>3, PTL DEF LogsSpec
=============================================================================
