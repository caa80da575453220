------------------------------ MODULE Keyboard ------------------------------
(***************************************************************************)
(* The keyboard driver (kernel/drivers/keyboard/keyboard.c) and its one    *)
(* reader, sys_read on standard input (kernel/syscall/sys_io.c), called by *)
(* the shell again and again (user/shell/shell.c).                         *)
(*                                                                         *)
(* IRQ1 runs with interrupts off and is one action.  The system call runs  *)
(* with interrupts on and is cut where the handler can strike between two  *)
(* of its accesses to the buffer.                                          *)
(*                                                                         *)
(* held, accepted and read_out are history variables: the modifier keys    *)
(* that are down, the characters put into the buffer, those given to       *)
(* readers.                                                                *)
(***************************************************************************)
EXTENDS Integers, Sequences, FiniteSets

CONSTANTS
    KB_BUFFER_SIZE,
    Lens,             \* the lengths readers ask for
    MaxTyped          \* bound on the characters accepted

ASSUME BufferAssumption == KB_BUFFER_SIZE \in Nat \ {0, 1}
ASSUME ReaderAssumption == Lens \subseteq Nat /\ MaxTyped \in Nat

VARIABLES
    key_buffer, buffer_head, buffer_tail,
    shift_pressed, ctrl_pressed, alt_pressed, caps_lock,
    reader,           \* where sys_read is
    len, count,       \* its argument, and how many characters it has stored
    held, accepted, read_out

bufferVars == <<key_buffer, buffer_head, buffer_tail>>
modifierVars == <<shift_pressed, ctrl_pressed, alt_pressed, caps_lock, held>>
readerVars == <<reader, len, count, read_out>>
keyboardVars == <<bufferVars, modifierVars, readerVars, accepted>>

Index == 0 .. KB_BUFFER_SIZE - 1

\* A letter, a key with two symbols, a key without a character.
Key == {"letter", "digit", "silent"}
Shift == {"lshift", "rshift"}
Modifier == Shift \cup {"ctrl", "alt"}

None == "0"
Ascii == {"a", "A", "1", "!"}

\* Caps Lock turns letters only.
ascii(key, shifted, caps) ==
    CASE key = "letter" -> IF shifted # caps THEN "A" ELSE "a"
      [] key = "digit" -> IF shifted THEN "!" ELSE "1"
      [] key = "silent" -> None

(***************************************************************************)
(* The circular buffer.                                                    *)
(***************************************************************************)
buffer_empty == buffer_head = buffer_tail

\* Using the last slot as well.
buffer_full_Never == FALSE

buffer_full == (buffer_head + 1) % KB_BUFFER_SIZE = buffer_tail

\* Advancing the head before the character is stored.
buffer_put_AdvancesFirst(c) ==
    IF buffer_full
    THEN UNCHANGED <<bufferVars, accepted>>
    ELSE /\ buffer_head' = (buffer_head + 1) % KB_BUFFER_SIZE
         /\ key_buffer' = [key_buffer EXCEPT ![buffer_head'] = c]
         /\ accepted' = Append(accepted, c)
         /\ UNCHANGED buffer_tail

buffer_put(c) ==
    IF buffer_full
    THEN UNCHANGED <<bufferVars, accepted>>
    ELSE /\ key_buffer' = [key_buffer EXCEPT ![buffer_head] = c]
         /\ buffer_head' = (buffer_head + 1) % KB_BUFFER_SIZE
         /\ accepted' = Append(accepted, c)
         /\ UNCHANGED buffer_tail

(***************************************************************************)
(* keyboard_irq_handler, one action per kind of key.                       *)
(***************************************************************************)
KeyboardInit ==
    /\ key_buffer = [i \in Index |-> None]
    /\ buffer_head = 0
    /\ buffer_tail = 0
    /\ shift_pressed = FALSE /\ ctrl_pressed = FALSE /\ alt_pressed = FALSE
    /\ caps_lock = FALSE
    /\ reader = "away" /\ len = 0 /\ count = 0
    /\ held = {} /\ accepted = <<>> /\ read_out = <<>>

ModifierKey(m, released) ==
    /\ released <=> m \in held
    /\ held' = IF released THEN held \ {m} ELSE held \cup {m}
    /\ shift_pressed' = IF m \in Shift THEN ~released ELSE shift_pressed
    /\ ctrl_pressed' = IF m = "ctrl" THEN ~released ELSE ctrl_pressed
    /\ alt_pressed' = IF m = "alt" THEN ~released ELSE alt_pressed
    /\ UNCHANGED <<caps_lock, bufferVars, readerVars, accepted>>

CapsLock ==
    /\ caps_lock' = ~caps_lock
    /\ UNCHANGED <<shift_pressed, ctrl_pressed, alt_pressed, held, bufferVars,
                   readerVars, accepted>>

KeyPress(key) ==
    LET c == ascii(key, shift_pressed, caps_lock)
    IN  /\ Len(accepted) < MaxTyped
        /\ IF c = None THEN UNCHANGED <<bufferVars, accepted>> ELSE buffer_put(c)
        /\ UNCHANGED <<modifierVars, readerVars>>

(***************************************************************************)
(* sys_read(0, buf, n).                                                    *)
(***************************************************************************)
sys_read(n) ==
    /\ reader = "away"
    /\ reader' = IF n = 0 THEN "away" ELSE "check"
    /\ len' = n /\ count' = 0
    /\ UNCHANGED <<bufferVars, modifierVars, read_out, accepted>>

\* Stopping one character late, or one early.
keyboard_has_key_OneMore ==
    /\ reader = "check"
    /\ reader' = IF count > len \/ buffer_empty THEN "away" ELSE "get"
    /\ UNCHANGED <<bufferVars, modifierVars, len, count, read_out, accepted>>

keyboard_has_key_OneShort ==
    /\ reader = "check"
    /\ reader' = IF count + 1 >= len \/ buffer_empty THEN "away" ELSE "get"
    /\ UNCHANGED <<bufferVars, modifierVars, len, count, read_out, accepted>>

\* The loop ends with what there is when nothing is left or the caller has all
\* it asked for.
keyboard_has_key ==
    /\ reader = "check"
    /\ reader' = IF count = len \/ buffer_empty THEN "away" ELSE "get"
    /\ UNCHANGED <<bufferVars, modifierVars, len, count, read_out, accepted>>

\* buffer_get reads the character and then moves the tail.
BufferGetRead ==
    /\ reader = "get"
    /\ reader' = IF buffer_empty THEN "away" ELSE "advance"
    /\ read_out' = IF buffer_empty THEN read_out
                   ELSE Append(read_out, key_buffer[buffer_tail])
    /\ UNCHANGED <<bufferVars, modifierVars, len, count, accepted>>

BufferGetAdvance ==
    /\ reader = "advance"
    /\ buffer_tail' = (buffer_tail + 1) % KB_BUFFER_SIZE
    /\ count' = count + 1
    /\ reader' = "check"
    /\ UNCHANGED <<key_buffer, buffer_head, modifierVars, len, read_out, accepted>>

Interrupt ==
    \/ \E m \in Modifier, released \in BOOLEAN : ModifierKey(m, released)
    \/ CapsLock
    \/ \E key \in Key : KeyPress(key)

\* sys_read past its entry.
Reading == keyboard_has_key \/ BufferGetRead \/ BufferGetAdvance

KeyboardNext == Interrupt \/ Reading \/ \E n \in Lens : sys_read(n)

KeyboardSpec == KeyboardInit /\ [][KeyboardNext]_keyboardVars

\* The shell calls read again and again with room for a character, and each call
\* comes to its end.
Polling == WF_keyboardVars(Reading) /\ WF_keyboardVars(\E n \in Lens \ {0} : sys_read(n))

LiveSpec == KeyboardSpec /\ Polling

(***************************************************************************)
(* Properties.                                                             *)
(***************************************************************************)
\* The characters between tail and head, oldest first.
Waiting ==
    LET n == (buffer_head - buffer_tail) % KB_BUFFER_SIZE
    IN  [i \in 1 .. n |-> key_buffer[(buffer_tail + i - 1) % KB_BUFFER_SIZE]]

\* The character whose slot is not released yet has been read already.
Unread == IF reader = "advance" THEN Tail(Waiting) ELSE Waiting

\* Every variable has the type of the C object it stands for.
KeyboardTypeOK ==
    /\ key_buffer \in [Index -> Ascii \cup {None}]
    /\ buffer_head \in Index /\ buffer_tail \in Index
    /\ {shift_pressed, ctrl_pressed, alt_pressed, caps_lock} \subseteq BOOLEAN
    /\ reader \in {"away", "check", "get", "advance"}
    /\ len \in Lens \cup {0} /\ count \in 0 .. len
    /\ held \subseteq Modifier
    /\ accepted \in Seq(Ascii) /\ read_out \in Seq(Ascii)

\* Whatever the interrupt handler does between two accesses of the reader, the
\* characters accepted are those read followed by those waiting: none is lost,
\* doubled, overtaken or overwritten before it is read (keyboard.c:102-119).
InOrder == accepted = read_out \o Unread

\* The buffer is a bounded first-in first-out queue that drops the newest
\* character when KB_BUFFER_SIZE - 1 are waiting.
Promise ==
    INSTANCE BoundedFifo WITH q <- Unread, Capacity <- KB_BUFFER_SIZE - 1,
                              Char <- Ascii, out <- read_out

ImplementsBoundedFifo == Promise!Spec

\* Every character accepted is read in the end by a caller that keeps polling
\* (shell.c:100-110).
EventuallyRead == \A n \in 1 .. MaxTyped : Len(accepted) >= n ~> Len(read_out) >= n

(***************************************************************************)
(* What the code says and does not do.                                     *)
(***************************************************************************)
\* "Check if Shift key is currently pressed." (keyboard.h:101): the flag says
\* whether a Shift key is down.
ShiftMeansHeld == shift_pressed <=> held \cap Shift # {}
=============================================================================
