---------------------------- MODULE MCFncallsMatch ----------------------------
(* Three functions and up to three calls, with no argument, a constant or  *)
(* an element of an array.  The builds: warnings[] alone, with every kind  *)
(* of pattern and a name listed twice; all three tables with names of      *)
(* their own and in common; reports[] alone; no target at all; a pattern   *)
(* that does not compile; a target without a name; a table too long for    *)
(* its hash.                                                               *)
EXTENDS FncallsMatch

CONSTANT none

MCNames == {"memset", "strcpy", "free"}
MCArgs == {<<>>, <<"0">>, <<"v", "[", "1", "]">>}
MCLocs == <<"l1", "l2", "l3">>

Zero == <<"(", "0", ")">>
None == [x \in {} |-> ""]
Regex(matches) == [valid |-> TRUE, matches |-> matches]

Nothing ==
  [args |-> none, all |-> none, force_match |-> FALSE, match_args_func |-> None,
   match_all_func |-> None, msg |-> "", msg_nomatch |-> ""]

Size == [Nothing EXCEPT !.match_args_func = [x \in {Zero} |-> "size is 0"]]
Assumes == [Nothing EXCEPT !.match_args_func = [x \in {Zero} |-> ""], !.msg = "assumes"]
Const ==
  [Nothing EXCEPT !.args = Regex({Zero}), !.msg = "const", !.msg_nomatch = "not const"]
Deprecated == [Nothing EXCEPT !.force_match = TRUE, !.msg = "deprecated"]
AtLine1 ==
  [Nothing EXCEPT !.msg = "first",
     !.match_all_func = [x \in {<<" ", "<@>", " ", "free", "(", ")", " ", "[", "l1">>} |-> "l1"]]
Plainly == [Nothing EXCEPT !.args = Regex({Zero})]
Always == [Nothing EXCEPT !.force_match = TRUE]
OverAll ==
  [Nothing EXCEPT !.msg = "line",
     !.all = Regex({<<" ", "<@>", " ", "free", "(", ")", " ", "[", "l1">>})]
Broken == [Nothing EXCEPT !.args = [valid |-> FALSE, matches |-> {}], !.msg = "broken"]

Target(name, patterns) == [name |-> name, patterns |-> patterns]

WarningsOnly ==
  <<<<>>,
    <<Target("memset", <<Size, Const, Plainly>>), Target("free", <<AtLine1, Assumes>>),
      Target("free", <<Deprecated>>)>>,
    <<>>>>

AllThree ==
  <<<<Target("memset", <<Deprecated>>)>>,
    <<Target("strcpy", <<Deprecated, Const>>), Target("memset", <<Size>>)>>,
    <<Target("free", <<Plainly, Const>>), Target("strcpy", <<>>)>>>>

ReportsOnly ==
  <<<<>>, <<>>,
    <<Target("memset", <<>>), Target("free", <<Plainly, Always, Const>>),
      Target("strcpy", <<Deprecated>>)>>>>

Empty == <<<<>>, <<>>, <<>>>>

Refused ==
  {<<<<Target("free", <<Const, Broken, Size>>), Target("memset", <<Const>>)>>, <<>>, <<>>>>,
   <<<<Target("free", <<Const>>)>>, <<Target("", <<>>)>>, <<>>>>,
   <<<<>>, <<>>, [i \in 1..6 |-> Target("free", <<Const>>)]>>}

MCBuilds == {WarningsOnly, AllThree, ReportsOnly, Empty} \cup Refused
AllBuilds == {<<<<>>, <<Target("free", <<OverAll>>)>>, <<>>>>}
TwoTables == {AllThree}
OnlyWarnings == {WarningsOnly}
=============================================================================
