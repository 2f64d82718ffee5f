------------------------------- MODULE Shell --------------------------------
(***************************************************************************)
(* The shell task (init/main.c) with the keyboard it reads from and the    *)
(* console it writes to.  Interrupts come between its steps: the keyboard's*)
(* fills the ring, any one ends hlt, and the first spurious one of line 7  *)
(* and of line 15 writes a warning to the same console (irq.c).            *)
(***************************************************************************)
EXTENDS Keyboard, Console

CONSTANTS
    WarningLength,   \* characters of a warning before its newline
    MaxWarnings      \* spurious lines that the model lets be reported, of the 2

ASSUME ShellAssumption == WarningLength \in Nat /\ MaxWarnings \in 0..2

VARIABLES
    con,                \* the console
    console_line_echo,
    spc,                \* what the shell does: writes a text or reads a key
    text,               \* rest of the text it writes
    at,                 \* cursor and start as read by a console call, or Idle
    warnings,           \* spurious lines that were reported
    torn                \* history: a warning came between a load and its store

shellVars == <<con, console_line_echo, spc, text, at>>
vars == <<keyboardVars, shellVars, warnings, torn>>

Idle == <<>>

-----------------------------------------------------------------------------
(* Output of the shell.                                                    *)

\* A warning may come in the middle of an echo and garble the page.  Nothing reads
\* the cells back, and the model tracks them only while there were no warnings (n).
Seen(c, n) == IF n = 0 THEN c ELSE [c EXCEPT !.cells = console_clear.cells]

\* What is echoed for a key; a tab is four spaces.
Echo(key) ==
    CASE key = "enter" -> <<"newline">>
      [] key = "back"  -> <<"backspace">>
      [] key = "tab"   -> <<"typed", "typed", "typed", "typed">>
      [] OTHER         -> <<"typed">>

PutStart ==
    /\ text # <<>>
    /\ at = Idle
    /\ con' = Seen(Store(con, text[1]), warnings)
    /\ at' = Present(con)
    /\ UNCHANGED <<keyboardVars, console_line_echo, spc, text, warnings, torn>>

\* The rest of console_putchar, with what it has read or what is there now.
PutEnd ==
    /\ text # <<>>
    /\ at # Idle
    /\ \E p \in {at[1], con.cursor}, u \in {at[2], con.start} :
          con' = Seen(Move(con, text[1], <<p, u>>), warnings)
    /\ text' = Marker(con', text[1], console_line_echo) \o Tail(text)
    /\ at' = Idle
    /\ UNCHANGED <<keyboardVars, console_line_echo, spc, warnings, torn>>

-----------------------------------------------------------------------------
(* shell_task.                                                             *)

\* The shell is done with its key, and calls keyboard_getchar next.
KeyDone ==
    /\ sc' = NoCode
    /\ UNCHANGED <<buf, head, tail, shift_held, kpc, popped, down, insync>>

\* After the greeting, and after an echoed newline, comes the prompt.
StartPrompt ==
    /\ text = <<>>
    /\ spc = "greet" \/ (spc = "echo" /\ sc = "enter")
    /\ spc' = "prompt"
    /\ text' = <<"output", "output">>
    /\ console_line_echo' = FALSE
    /\ KeyDone
    /\ UNCHANGED <<con, at, warnings, torn>>

\* user_cmdline_start = cursor is a load and a store.
LoadStart ==
    /\ text = <<>>
    /\ spc = "prompt"
    /\ at = Idle
    /\ at' = Present(con)
    /\ UNCHANGED <<keyboardVars, con, console_line_echo, spc, text, warnings, torn>>

\* Mutant: user_cmdline_start is not moved to the new prompt.
EndPromptNoStart ==
    /\ text = <<>>
    /\ spc = "prompt"
    /\ at # Idle
    /\ con' = [con EXCEPT !.cells = [i \in Positions |->
                     IF @[i] = "typed" THEN "output" ELSE @[i]]]
    /\ torn' = (at[1] # con.cursor)
    /\ at' = Idle
    /\ spc' = "read"
    /\ UNCHANGED <<keyboardVars, console_line_echo, text, warnings>>

\* What was typed before is output from here on.
EndPrompt ==
    /\ text = <<>>
    /\ spc = "prompt"
    /\ at # Idle
    /\ con' = [con EXCEPT !.start = at[1],
                          !.cells = [i \in Positions |->
                              IF @[i] = "typed" THEN "output" ELSE @[i]]]
    /\ torn' = (at[1] # con.cursor)
    /\ at' = Idle
    /\ spc' = "read"
    /\ UNCHANGED <<keyboardVars, console_line_echo, text, warnings>>

StartEcho ==
    /\ spc = "read"
    /\ kpc = "key"
    /\ kpc' = "pop"
    /\ spc' = "echo"
    /\ text' = Echo(sc)
    /\ console_line_echo' = TRUE
    /\ UNCHANGED <<buf, head, tail, shift_held, popped, sc, down, insync,
                   con, at, warnings, torn>>

EndEcho ==
    /\ text = <<>>
    /\ spc = "echo" /\ sc # "enter"
    /\ spc' = "read"
    /\ console_line_echo' = FALSE
    /\ KeyDone
    /\ UNCHANGED <<con, text, at, warnings, torn>>

ReadKey == spc = "read" /\ keyboard_getchar /\ UNCHANGED <<shellVars, warnings, torn>>

-----------------------------------------------------------------------------
(* Interrupts.                                                             *)

KeyInterrupt(c) == keyboard_callback(c) /\ UNCHANGED <<shellVars, warnings, torn>>

TimerInterrupt == OtherInterrupt /\ UNCHANGED <<shellVars, warnings, torn>>

\* The kprintf of isr_dispatch, once for each line.  The echo flag is the shell's.
Warn ==
    /\ warnings < MaxWarnings
    /\ warnings' = warnings + 1
    /\ LET str == [i \in 1..WarningLength |-> "output"] \o <<"newline">>
       IN  con' = Seen(console_write(con, str, console_line_echo), warnings')
    /\ torn' = (torn \/ at # Idle)
    /\ EndHlt
    /\ UNCHANGED <<buf, head, tail, shift_held, popped, sc, down, insync,
                   console_line_echo, spc, text, at>>

-----------------------------------------------------------------------------

\* The main task has printed the boot messages and starts the shell on a new row.
Init ==
    /\ KeyboardInit
    /\ \E row \in 0..(ConsoleHeight - 1) :
          con = [console_clear EXCEPT
                    !.cursor = row * ConsoleWidth,
                    !.cells = [i \in Positions |-> IF i < row * ConsoleWidth
                                                   THEN "output" ELSE "blank"]]
    /\ console_line_echo = FALSE
    /\ spc = "greet"
    /\ text = <<"output", "newline">>
    /\ at = Idle
    /\ warnings = 0
    /\ torn = FALSE

ShellStep ==
    \/ PutStart \/ PutEnd \/ StartPrompt \/ LoadStart \/ EndPrompt
    \/ StartEcho \/ EndEcho \/ ReadKey

Next ==
    \/ ShellStep
    \/ \E c \in Codes : KeyInterrupt(c)
    \/ TimerInterrupt
    \/ Warn

Spec == Init /\ [][Next]_vars

\* The scheduler runs the shell again and again (ReadyRuns of module Scheduler), and
\* the timer's interrupt ends every hlt.
FairSpec == Spec /\ WF_vars(ShellStep) /\ WF_vars(TimerInterrupt)

-----------------------------------------------------------------------------

\* "it can never leave the text page" (vga_console.c, of the cursor); and the command
\* line never starts past the cursor, so that a backspace stays on this side of the
\* prompt, however the page scrolls and whatever warnings isr_dispatch prints between
\* two accesses of the console.  A warning that comes between a load of cursor or
\* user_cmdline_start and the store that depends on it can leave the start past the
\* cursor, and no longer than to the next prompt that no warning comes into.
CursorOnPage ==
    /\ con.cursor \in Positions
    /\ ~torn => con.start \in 0..con.cursor

\* While the shell waits for a key, what lies between user_cmdline_start and the
\* cursor is the line being typed, with its markers, and nothing before it is:
\* backspaces erase this line, all of it that is on the page, and never the prompt
\* or output before it.  It stays so when the line scrolls the page.
LineIsFromStart ==
    warnings = 0 /\ spc = "read" =>
        \A i \in Positions :
            con.cells[i] = "typed" <=> i \in con.start..(con.cursor - 1)

=============================================================================
