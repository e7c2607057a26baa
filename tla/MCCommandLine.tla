---------------------------- MODULE MCCommandLine ----------------------------
(* Small instances of CommandLine for TLC: see the .cfg files. *)
EXTENDS CommandLine

CONSTANTS x, one

\* What help.h shows, each synopsis with all it calls optional (read and append are
\* the ones with the most numbers, and with a block behind them).
MCHelpText == {
  <<"cd", BLANK, x, NEWLINE>>,
  <<"pwd", NEWLINE>>,
  <<"ls", NEWLINE>>,
  <<"ls", BLANK, x, NEWLINE>>,
  <<"tree", NEWLINE>>,
  <<"tree", BLANK, x, NEWLINE>>,
  <<"touch", BLANK, x, NEWLINE>>,
  <<"mkdir", BLANK, x, NEWLINE>>,
  <<"rm", BLANK, x, NEWLINE>>,
  <<"rmdir", BLANK, x, NEWLINE>>,
  <<"rmdir", BLANK, OPTION_PREFIX, "r", BLANK, x, NEWLINE>>,
  <<"mv", BLANK, x, BLANK, BLANK, x, BLANK, NEWLINE>>,
  <<"rename", BLANK, x, BLANK, x, NEWLINE>>,
  <<"find", BLANK, x, NEWLINE>>,
  <<"cat", BLANK, x, NEWLINE>>,
  <<"read", BLANK, x, BLANK, one, BLANK, one, NEWLINE>>,
  <<"append", BLANK, x, NEWLINE>>,
  <<"clear", BLANK, x, NEWLINE>>,
  <<"trunc", BLANK, x, BLANK, one, NEWLINE>>,
  <<"help", NEWLINE>>,
  <<"help", BLANK, "cd", NEWLINE>>}

\* And the shortest line, a command that Ctrl-D submits, the one without a help text,
\* some that are refused (no executor, a number that no long holds, a negative one),
\* and one that does not fit into the command buffer.
MCOtherText == {
  <<NEWLINE>>,
  <<"append", BLANK, x>>,
  <<"exit", NEWLINE>>,
  <<"df", NEWLINE>>,
  <<"read", BLANK, x, BLANK, one, BLANK, x, NEWLINE>>,
  <<"trunc", BLANK, x, BLANK, OPTION_PREFIX, one, NEWLINE>>,
  <<"touch", BLANK, x, BLANK, x, BLANK, x, BLANK, x, NEWLINE>>}

MCCommandText == MCHelpText \cup MCOtherText

\* A line that would be a command, one that fills a read, one with a command behind
\* what fits, and one that Ctrl-D submits in the middle.
MCDataText == {
  <<"exit", NEWLINE>>,
  <<x, x, NEWLINE>>,
  <<x, x, x, x, "exit", NEWLINE>>,
  <<x>>}
=============================================================================
