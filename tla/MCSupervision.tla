--------------------------- MODULE MCSupervision ---------------------------
EXTENDS Supervision

Plain == [alt |-> FALSE, rendered |-> TRUE, scrolled |-> FALSE, changed |-> 1, moved |-> TRUE,
          rewrites |-> FALSE, erases |-> FALSE, trivialGrowth |-> FALSE,
          newline |-> FALSE, escape |-> FALSE, visible |-> 0, alnum |-> 0, trivial |-> TRUE]

\* A line of text, a spinner that redraws its line, a screen that is switched, a bell.
Line == [Plain EXCEPT !.newline = TRUE, !.visible = 12, !.alnum = 9, !.trivial = FALSE]
Spinner == [Plain EXCEPT !.rewrites = TRUE, !.visible = 1]
AltScreen == [Plain EXCEPT !.alt = TRUE, !.escape = TRUE, !.changed = 2]
Bell == [Plain EXCEPT !.rendered = FALSE, !.changed = 0, !.moved = FALSE]

MCChunks == {Line, Spinner, AltScreen, Bell}

\* A change of control draws attention for less time than the others.
MCWindows == [status |-> 1, output |-> 1, activity |-> 0, file |-> 1, git |-> 1, controller |-> 0]
=============================================================================
