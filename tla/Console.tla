------------------------------ MODULE Console -------------------------------
(***************************************************************************)
(* The text console (drivers/video/vga_console.c) as operators on a record *)
(* of what is on the page, the cursor and user_cmdline_start.              *)
(*                                                                         *)
(* A character is "newline", "backspace", or what a cell shows that it is  *)
(* written to: "typed" for the echo of a key and "output" for the rest.    *)
(* Other cells are "blank".                                                *)
(***************************************************************************)
EXTENDS Integers, Sequences, SequencesExt

CONSTANTS ConsoleWidth, ConsoleHeight

\* Two columns are taken by the marker of a row: with fewer than three, writing the
\* marker would fill the row and write a marker, without end.
ASSUME ConsoleAssumption ==
    /\ ConsoleWidth \in Nat /\ ConsoleWidth > 2
    /\ ConsoleHeight \in Nat \ {0}

ConsoleCells == ConsoleWidth * ConsoleHeight
Positions == 0..(ConsoleCells - 1)
Printable == {"typed", "output"}

console_clear ==
    [cells |-> [i \in Positions |-> "blank"], cursor |-> 0, start |-> 0]

console_set_cursor(con, position) ==
    [con EXCEPT !.cursor = IF position < 0 THEN 0
                           ELSE IF position >= ConsoleCells THEN ConsoleCells - 1
                           ELSE position]

\* Mutant: the start of the command line does not scroll.
ScrollKeepsStart(con) ==
    [console_set_cursor(con, ConsoleWidth * (ConsoleHeight - 1)) EXCEPT
        !.cells = [i \in Positions |-> IF i + ConsoleWidth \in Positions
                                       THEN con.cells[i + ConsoleWidth] ELSE "blank"]]

console_scroll(con) ==
    [console_set_cursor(con, ConsoleWidth * (ConsoleHeight - 1)) EXCEPT
        !.cells = [i \in Positions |-> IF i + ConsoleWidth \in Positions
                                       THEN con.cells[i + ConsoleWidth] ELSE "blank"],
        !.start = IF @ >= ConsoleWidth THEN @ - ConsoleWidth ELSE 0]

-----------------------------------------------------------------------------
(* console_putchar in two parts.  at is what the second part takes for     *)
(* cursor and user_cmdline_start: neither is volatile, so the compiler may *)
(* read them once, and an interrupt may come between a load and its store. *)

\* The character goes into its cell.
Store(con, c) ==
    IF c \in Printable THEN [con EXCEPT !.cells[con.cursor] = c] ELSE con

Newline(con, at) ==
    LET next == (at[1] \div ConsoleWidth + 1) * ConsoleWidth
    IN  IF next >= ConsoleCells THEN console_scroll([con EXCEPT !.start = at[2]])
        ELSE console_set_cursor(con, next)

Backspace(con, at) ==
    IF at[1] > at[2]
    THEN [console_set_cursor(con, at[1] - 1) EXCEPT !.cells[at[1] - 1] = "blank"]
    ELSE con

Forward(con, at) ==
    IF at[1] + 1 >= ConsoleCells THEN console_scroll([con EXCEPT !.start = at[2]])
    ELSE console_set_cursor(con, at[1] + 1)

\* The cursor moves on.
Move(con, c, at) ==
    CASE c = "newline"   -> Newline(con, at)
      [] c = "backspace" -> Backspace(con, at)
      [] OTHER           -> Forward(con, at)

\* "echoing a command line and the row just filled up, so mark the new one".
Marker(con, c, echo) ==
    IF c \in Printable /\ echo /\ con.cursor % ConsoleWidth = 0 THEN <<c, c>> ELSE <<>>

\* What a console call reads.
Present(con) == <<con.cursor, con.start>>

Put(con, c) == Move(Store(con, c), c, Present(con))

console_putchar(con, c, echo) ==
    FoldLeft(Put, Put(con, c), Marker(Put(con, c), c, echo))

console_write(con, str, echo) ==
    FoldLeft(LAMBDA con1, c : console_putchar(con1, c, echo), con, str)

=============================================================================
