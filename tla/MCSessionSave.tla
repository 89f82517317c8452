--------------------------- MODULE MCSessionSave ---------------------------
(* Two clients, one with a space in its command; an autostart file that      *)
(* has its name in no quotes, in single and in double ones.                  *)
EXTENDS SessionSaveProofs

CONSTANTS editor, term

MCProgram(c) == IF c = editor THEN <<<<"e">>>> ELSE <<<<"t">>, <<"a", " ", "b">>>>
MCDigit(n) == <<CASE n = 1 -> "1" [] n = 2 -> "2" [] OTHER -> "3">>
MCNames == {<<"a">>, <<"a", "'", " ">>, <<"\"", "\\", "a">>}
MCAutostartExec ==
  <<"p", " ", "%", "c", " ", "'", "%", "c", "'", " ", "\"", "%", "c", "\"", " ", "%", "%">>
MCAutostartWords == <<<<"p">>, <<"%", "c">>, <<"%", "c">>, <<"%", "c">>, <<"%">>>>

\* What the theorems ask of the commands and of the file
ASSUME PlainCommands /\ PlainDiscards /\ OwnCommands
ASSUME StandsForName("z")
=============================================================================
