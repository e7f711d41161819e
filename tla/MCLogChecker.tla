--------------------------- MODULE MCLogChecker ---------------------------
(* Two compilations of one source.  The first prints a function with a     *)
(* call inside a call and one without calls, the second the first of these *)
(* as the source has it by then, with another call.  Beside theirs lies    *)
(* another log, finished long ago.                                         *)
EXTENDS LogChecker, TLC

CONSTANTS p1, p2

Decl(f) == <<<<"decl", f>>, <<"loc", "">>>>
Call(g) == <<<<"call", g>>, <<"loc", "">>>>
Nested(g, h) == <<<<"call", g>>, <<"nl", "">>, <<"call", h>>, <<"loc", "">>>>
NL == <<<<"nl", "">>>>
Piece(t) == <<<<"text", t>>>>

MCLog(source) == [source |-> source, pass |-> 237, suffix |-> "ahaggar_fncalls.log"]

MCJob == [p \in Procs |-> MCLog("main.c")]

MCNames == {get_logname(MCLog("main.c")), get_logname(MCLog("other.c"))}

MCRecords ==
  (p1 :> <<Decl("f") \o Nested("g", "h") \o NL, Decl("e") \o NL>>
   @@ p2 :> <<Decl("f") \o Call("h") \o NL>>)

MCHeader == NL

MCBefore == [n \in MCNames |-> IF \E p \in Procs : n = get_logname(MCJob[p])
                               THEN {NoFile, Link} ELSE {n}]

MCOld == [n \in MCNames |-> Decl("o") \o NL]

MCPrefix == Piece("prefix")
MCMessage == Piece("message")
MCNewline == NL
(* Only the first compilation reports and has a write go wrong. *)
MCBound == [p \in Procs |-> IF p = p1 THEN 1 ELSE 0]

MCNul == <<"nul", "">>

MCSelections == {<<"*">>, <<"x", "g">>, <<"x", "*">>}
=============================================================================
