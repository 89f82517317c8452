---------------------------- MODULE DesktopFile ----------------------------
(***************************************************************************)
(* Commands in desktop files: how a command is written into the Exec line  *)
(* of a file (prop_to_command of cafe-session/csm-xsmp-client.c), and how  *)
(* the line becomes the arguments of a process again (egg/eggdesktopfile.c *)
(* as the session manager uses it, which is without documents).            *)
(*                                                                         *)
(* A text is a sequence of characters and a command a sequence of texts.   *)
(* g_shell_parse_argv of GLib is modelled from its use in                  *)
(* egg_desktop_file_launchv.                                               *)
(***************************************************************************)
EXTENDS Naturals, SequencesExt

QUOTE == "'"
DQUOTE == "\""
BACKSLASH == "\\"
PERCENT == "%"
SPACE == " "

Special == {QUOTE, DQUOTE, BACKSLASH, PERCENT, SPACE}

Concat(texts) == FoldLeft(LAMBDA out, t : out \o t, <<>>, texts)

Replaced(text, char, by) ==
  Concat([i \in 1..Len(text) |-> IF text[i] = char THEN by ELSE <<text[i]>>])

-----------------------------------------------------------------------------
(* prop_to_command *)

\* Variant: no word is put in quotes
PropWordBare(word) == word

\* One value of the property.  The string "'\''" of the code is three quotes.
PropWord(word) ==
  IF \E i \in 1..Len(word) : word[i] \in Special
  THEN <<QUOTE>> \o Replaced(word, QUOTE, <<QUOTE, QUOTE, QUOTE>>) \o <<QUOTE>>
  ELSE word

PropToCommand(words) ==
  Concat([i \in 1..Len(words) |->
            (IF i > 1 THEN <<SPACE>> ELSE <<>>) \o PropWord(words[i])])

-----------------------------------------------------------------------------
(* parse_exec *)

\* Variant: the quotes of the text are not escaped
QuotedWordBare(text, single, double) ==
  CASE single            -> text
    [] double /\ ~ single -> <<DQUOTE, QUOTE>> \o text \o <<QUOTE, DQUOTE>>
    [] OTHER             -> <<QUOTE>> \o text \o <<QUOTE>>

\* append_quoted_word: a text as one word, whatever quotes it is put between
QuotedWord(text, single, double) ==
  LET escaped == Replaced(text, QUOTE, <<QUOTE, BACKSLASH, QUOTE, QUOTE>>)
  IN  CASE single            -> escaped
        [] double /\ ~ single -> <<DQUOTE, QUOTE>> \o escaped \o <<QUOTE, DQUOTE>>
        [] OTHER             -> <<QUOTE>> \o escaped \o <<QUOTE>>

\* What has become of the line up to some character
Unparsed ==
  [out |-> <<>>, code |-> FALSE, escape |-> FALSE, single |-> FALSE, double |-> FALSE]

\* do_percent_subst, without documents; file has the texts of the codes i, c and
\* k.  Deprecated and unknown codes are left out.
PercentSubst(q, code, file) ==
  CASE code = PERCENT         -> <<PERCENT>>
    [] code = "i" /\ file.i # <<>> ->
         <<"--icon", SPACE>> \o QuotedWord(file.i, q.single, q.double)
    [] code \in {"c", "k"}    -> QuotedWord(file[code], q.single, q.double)
    [] OTHER                  -> <<>>

ParseChar(q, c, file) ==
  LET put == [q EXCEPT !.out = Append(@, c)]
  IN  IF q.code THEN [q EXCEPT !.out = @ \o PercentSubst(q, c, file), !.code = FALSE]
      ELSE IF q.escape THEN [put EXCEPT !.escape = FALSE]
      ELSE CASE c = BACKSLASH -> [put EXCEPT !.escape = ~ q.single]
             [] c = QUOTE     -> [put EXCEPT !.single = ~ q.single /\ ~ q.double]
             [] c = DQUOTE    -> [put EXCEPT !.double = ~ q.single /\ ~ q.double]
             [] c = PERCENT   -> [q EXCEPT !.code = TRUE]
             [] OTHER         -> put

\* parse_exec of a file that wants no terminal.  A percent sign at the end stays.
ParseExec(exec, file) ==
  LET end == FoldLeft(LAMBDA q, c : ParseChar(q, c, file), Unparsed, exec)
  IN  IF end.code THEN Append(end.out, PERCENT) ELSE end.out

-----------------------------------------------------------------------------
(* g_shell_parse_argv *)

Unsplit ==
  [words |-> <<>>, word |-> <<>>, begun |-> FALSE, escape |-> FALSE, quote |-> SPACE]

EndWord(q) ==
  IF q.begun THEN [q EXCEPT !.words = Append(@, q.word), !.word = <<>>, !.begun = FALSE]
  ELSE q

SplitChar(q, c) ==
  LET put == [q EXCEPT !.word = Append(@, c), !.begun = TRUE, !.escape = FALSE]
  IN  CASE q.escape -> IF q.quote = DQUOTE /\ c \notin {DQUOTE, BACKSLASH}
                       THEN [put EXCEPT !.word = q.word \o <<BACKSLASH, c>>]
                       ELSE put
        [] ~ q.escape /\ c = BACKSLASH /\ q.quote # QUOTE -> [q EXCEPT !.escape = TRUE]
        [] ~ q.escape /\ c = q.quote /\ c # SPACE -> [q EXCEPT !.quote = SPACE]
        [] ~ q.escape /\ q.quote = SPACE /\ c \in {QUOTE, DQUOTE} ->
             [q EXCEPT !.quote = c, !.begun = TRUE]
        [] ~ q.escape /\ q.quote = SPACE /\ c = SPACE -> EndWord(q)
        [] OTHER -> put

\* The words of a line, none if it cannot be parsed
ShellParse(line) ==
  LET end == FoldLeft(SplitChar, Unsplit, line)
  IN  IF end.quote # SPACE \/ end.escape THEN <<>> ELSE EndWord(end).words

\* egg_desktop_file_launchv: the arguments of the process
Argv(exec, file) == ShellParse(ParseExec(exec, file))
=============================================================================
