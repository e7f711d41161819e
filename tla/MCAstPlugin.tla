---------------------------- MODULE MCAstPlugin ----------------------------
(* Three functions: one of the main file with a body, one without, and one *)
(* from an included file.  The command lines are those of the plugin's own *)
(* help text, a value it does not know, and an option it does not know.    *)
EXTENDS AstPlugin

CONSTANTS f1, f2, f3

Arg(k, v) == [key |-> k, value |-> v]

MCArguments ==
  { <<>>,
    <<Arg("output", "files")>>, <<Arg("output", "stdout")>>,
    <<Arg("unit", "main")>>,
    <<Arg("unit", "all"), Arg("output", "files")>>,
    <<Arg("output", "files"), Arg("unit", "main")>>,
    <<Arg("output", "files"), Arg("verbose", "yes")>> }
=============================================================================
