------------------------------ MODULE Keyboard ------------------------------
(***************************************************************************)
(* The keyboard driver (drivers/input/keyboard.c): an interrupt handler    *)
(* puts scan codes into a ring, and one task takes them out, without a     *)
(* lock and with interrupts on, and decodes them.                          *)
(*                                                                         *)
(* Scan codes are told apart by what the driver does with them: ShiftDown  *)
(* and ShiftUp are the codes of a shift key, "caps" that of caps lock,     *)
(* "ignored" stands for releases of other keys and keys without a          *)
(* character in the layout, and Keys are the codes that give a character.  *)
(***************************************************************************)
EXTENDS Integers, Sequences, SequencesExt

CONSTANTS
    BufSize,    \* BUF_SIZE
    Keys,       \* scan codes that give a character
    OtherCodes, \* "caps", "ignored" or both
    ShiftKeys   \* number of shift keys on the keyboard

ShiftDown == "shiftDown"
ShiftUp == "shiftUp"
Codes ==
    Keys \cup OtherCodes \cup (IF ShiftKeys = 0 THEN {} ELSE {ShiftDown, ShiftUp})
NoCode == "none"

\* next is a u8, so the indices of a larger ring would not reach its end.
ASSUME KeyboardAssumption ==
    /\ BufSize \in 2..256
    /\ OtherCodes \subseteq {"caps", "ignored"}
    /\ Keys \cap {"caps", "ignored", ShiftDown, ShiftUp, NoCode} = {}
    /\ ShiftKeys \in Nat

VARIABLES
    buf, head, tail,   \* the ring
    shift_held,
    kpc,               \* point of the reader in keyboard_getchar
    popped,            \* what keyboard_pop read from the ring
    sc,                \* the code it returned, until the reader is done with it
    down,              \* shift keys that are down
    insync             \* history: the waiting codes lead to the state of these

keyboardVars == <<buf, head, tail, shift_held, kpc, popped, sc, down, insync>>

Slots == 0..(BufSize - 1)

-----------------------------------------------------------------------------
(* The interrupt handler.                                                  *)

\* hlt ends with an interrupt.  One that comes before the CPU is halted does not
\* end the hlt that follows.
EndHlt == kpc' = IF kpc = "halted" THEN "pop" ELSE kpc

\* The user holds or lets go of a shift key, or presses another one.
Typed(c) ==
    CASE c = ShiftDown -> down < ShiftKeys /\ down' = down + 1
      [] c = ShiftUp   -> down > 0 /\ down' = down - 1
      [] OTHER         -> UNCHANGED down

\* Mutant: the last slot is used as well, so a full ring looks empty.
CallbackNoGap(c) ==
    /\ Typed(c)
    /\ buf' = [buf EXCEPT ![head] = c]
    /\ head' = (head + 1) % BufSize
    /\ insync' = CASE c \in {ShiftDown, ShiftUp} -> (c = ShiftDown) = (down' > 0)
                   [] c = "caps" -> FALSE
                   [] OTHER -> insync
    /\ EndHlt
    /\ UNCHANGED <<tail, shift_held, popped, sc>>

keyboard_callback(c) ==
    /\ Typed(c)
    /\ LET next == ((head + 1) % BufSize) % 256
           room == next # tail
       IN  /\ buf' = IF room THEN [buf EXCEPT ![head] = c] ELSE buf
           /\ head' = IF room THEN next ELSE head
           /\ insync' = CASE c \in {ShiftDown, ShiftUp} ->
                               room /\ (c = ShiftDown) = (down' > 0)
                          [] c = "caps" /\ room -> FALSE
                          [] OTHER -> insync
    /\ EndHlt
    /\ UNCHANGED <<tail, shift_held, popped, sc>>

\* Mutant: only the keyboard's own interrupt ends hlt.
TimerEndsNothing ==
    /\ kpc = "halted"
    /\ UNCHANGED keyboardVars

\* Any other interrupt: the timer's, at the latest.
OtherInterrupt ==
    /\ kpc = "halted"
    /\ kpc' = "pop"
    /\ UNCHANGED <<buf, head, tail, shift_held, popped, sc, down, insync>>

-----------------------------------------------------------------------------
(* keyboard_pop and keyboard_getchar, with interrupts between any two      *)
(* accesses of the ring.                                                   *)

TestEmpty ==
    /\ kpc = "pop"
    /\ kpc' = IF tail = head THEN "hlt" ELSE "read"
    /\ UNCHANGED <<buf, head, tail, shift_held, popped, sc, down, insync>>

Halt ==
    /\ kpc = "hlt"
    /\ kpc' = "halted"
    /\ UNCHANGED <<buf, head, tail, shift_held, popped, sc, down, insync>>

ReadSlot ==
    /\ kpc = "read"
    /\ popped' = buf[tail]
    /\ kpc' = "advance"
    /\ UNCHANGED <<buf, head, tail, shift_held, sc, down, insync>>

\* popped is dead from here on, and so is the slot until the handler writes it again:
\* the model forgets what they held.
Advance ==
    /\ kpc = "advance"
    /\ buf' = [buf EXCEPT ![tail] = NoCode]
    /\ tail' = (tail + 1) % BufSize
    /\ sc' = popped
    /\ popped' = NoCode
    /\ kpc' = "decode"
    /\ UNCHANGED <<head, shift_held, down, insync>>

\* Mutant: the release of a shift key is skipped like any other.
ShiftNoRelease(c, held) ==
    CASE c = ShiftDown -> TRUE
      [] c = "caps"    -> ~held
      [] OTHER         -> held

\* shift_held after the code c.
ShiftAfter(c, held) ==
    CASE c = ShiftDown -> TRUE
      [] c = ShiftUp   -> FALSE
      [] c = "caps"    -> ~held
      [] OTHER         -> held

Decode ==
    /\ kpc = "decode"
    /\ shift_held' = ShiftAfter(sc, shift_held)
    /\ kpc' = IF sc \in Keys THEN "key" ELSE "pop"
    /\ sc' = IF sc \in Keys THEN sc ELSE NoCode
    /\ UNCHANGED <<buf, head, tail, popped, down, insync>>

keyboard_getchar == TestEmpty \/ Halt \/ ReadSlot \/ Advance \/ Decode

-----------------------------------------------------------------------------

KeyboardInit ==
    /\ buf = [i \in Slots |-> NoCode]
    /\ head = 0 /\ tail = 0
    /\ shift_held = FALSE
    /\ kpc = "pop"
    /\ popped = NoCode /\ sc = NoCode
    /\ down = 0
    /\ insync = TRUE

\* The scan codes in the ring, oldest first.
Waiting == [i \in 1..((head - tail) % BufSize) |-> buf[(tail + i - 1) % BufSize]]

\* The driver does what KeyQueue promises: interrupts that come between the steps
\* of keyboard_pop lose, repeat or reorder nothing, although nothing is locked.
KQ == INSTANCE KeyQueue WITH Capacity <- BufSize - 1, queue <- Waiting, hand <- sc
IsKeyQueue == KQ!Spec

\* shift_held after the codes that wait, and the one being decoded.
ShiftToCome ==
    FoldLeft(LAMBDA held, c : ShiftAfter(c, held), shift_held,
             (IF kpc = "decode" THEN <<sc>> ELSE <<>>) \o Waiting)

\* The reader's idea of the shift key lags behind and never goes wrong for good:
\* it is what the user holds once the waiting codes are read.  Codes that are
\* dropped because the ring is full, caps lock, and letting go of one of two
\* shift keys break this only until the next code of a shift key is taken in.
ShiftCatchesUp == insync => ShiftToCome = (down > 0)

\* No key is stuck: while codes wait one is read at last, the oldest as KeyQueue
\* says, also when it came in after keyboard_pop had found the ring empty and
\* before hlt.
KeyIsRead == tail # head ~> kpc = "decode"

=============================================================================
