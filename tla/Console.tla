------------------------------ MODULE Console ------------------------------
(***************************************************************************)
(* The text console (drivers/vga/vga.c): one screen and one cursor, written *)
(* a character at a time by kernel threads (kprintf) and by system calls    *)
(* (sys_write), any of which the timer may preempt between two accesses to  *)
(* the shared state.  Nothing locks the console.                            *)
(*                                                                         *)
(* cursor_x and cursor_y are plain statics, so the order and the number of  *)
(* accesses to them is the compiler's choice.  The steps below are those of *)
(* the build (gcc -O2): vga_putchar loads cursor_y, then cursor_x, once     *)
(* each, works in registers and stores what it changed; the registers of    *)
(* writer w are ry[w] and rx[w].  Colours, the serial mirror and the        *)
(* hardware cursor are left out: nothing reads them back.                   *)
(***************************************************************************)
EXTENDS Integers, Sequences, FiniteSets

CONSTANTS
  Writers,        \* the threads that print
  Width, Height,  \* VGA_WIDTH and VGA_HEIGHT
  TabStop,        \* 8
  Printable,      \* the characters >= ' ' in use, " " among them
  Budgets         \* how many characters kernel threads print: a bound for TLC

ASSUME SizeAssumption ==
  Width \in Nat \ {0} /\ Height \in Nat \ {0} /\ TabStop \in Nat \ {0}

ASSUME CharAssumption ==
  /\ " " \in Printable
  /\ {"newline", "return", "tab", "backspace", "other"} \cap Printable = {}

Char == Printable \cup {"newline", "return", "tab", "backspace", "other"}

VARIABLES
  vga_buffer,          \* the cells of the screen, row after row
  cursor_x, cursor_y,
  out,                 \* out[w]: what w still has to pass to vga_putchar
  pc,                  \* pc[w]: where w is inside vga_putchar, or "idle"
  ch, rx, ry,          \* its argument and its registers
  row,                 \* the row that vga_scroll copies next
  budget,              \* what kernel threads may still print
  torn,                \* history: two calls of vga_putchar have overlapped
  paper                \* history: what was printed, on paper of any length

shared  == <<vga_buffer, cursor_x, cursor_y>>
private == <<pc, ch, rx, ry, row>>
history == <<torn, paper>>
consoleVars == <<shared, private, history, out, budget>>

BlankRow == [x \in 0 .. Width - 1 |-> " "]
BlankPaper == [lines |-> <<BlankRow>>, x |-> 0]

\* vga_init: the screen is clear and the cursor at its origin.
ConsoleInit ==
  /\ vga_buffer = [i \in 0 .. Width * Height - 1 |-> " "]
  /\ cursor_x = 0 /\ cursor_y = 0
  /\ out = [w \in Writers |-> <<>>]
  /\ pc = [w \in Writers |-> "idle"]
  /\ ch = [w \in Writers |-> " "]
  /\ rx = [w \in Writers |-> 0] /\ ry = [w \in Writers |-> 0]
  /\ row = [w \in Writers |-> 0]
  /\ budget \in Budgets
  /\ torn = FALSE /\ paper = BlankPaper

----------------------------------------------------------------------------
(* Paper: what the console would show if it had no last row and no other   *)
(* writer.  The cursor is always on the last line.                         *)

Feed(p) == [lines |-> Append(p.lines, BlankRow), x |-> 0]

PutAt(p, x, c) == [p.lines EXCEPT ![Len(p.lines)] = [@ EXCEPT ![x] = c]]

NextTab(x) == x + TabStop - (x % TabStop)

Typed(p, c) ==
  LET q == CASE c = "newline" -> Feed(p)
             [] c = "return" -> [p EXCEPT !.x = 0]
             [] c = "tab" -> [p EXCEPT !.x = NextTab(p.x)]
             [] c = "backspace" /\ p.x > 0 ->
                  [lines |-> PutAt(p, p.x - 1, " "), x |-> p.x - 1]
             [] c \in Printable -> [lines |-> PutAt(p, p.x, c), x |-> p.x + 1]
             [] OTHER -> p
  IN IF q.x >= Width THEN Feed(q) ELSE q

\* Row r of a screen that shows the end of the paper.
Window(p, r) ==
  LET n == Len(p.lines)
      i == IF n <= Height THEN r + 1 ELSE n - Height + r + 1
  IN IF i \in 1 .. n THEN p.lines[i] ELSE BlankRow

----------------------------------------------------------------------------
(* vga_putchar, one action for every access to the shared state.           *)

vga_index(x, y) == y * Width + x

\* A store through vga_buffer: past the last row it misses the screen.
Store(i, c) ==
  vga_buffer' = [j \in DOMAIN vga_buffer |-> IF j = i THEN c ELSE vga_buffer[j]]

Goto(w, l) == pc' = [pc EXCEPT ![w] = l]

\* Where a call goes once the cursor is in column x of row y.
Bottom(y) == IF y >= Height THEN "scroll" ELSE "done"
Edge(x, y) == IF x >= Width THEN "wrap" ELSE Bottom(y)

\* The call begins: the character goes to the serial port, cursor_y is loaded.
vga_putchar(w) ==
  /\ pc[w] = "idle" /\ out[w] # <<>>
  /\ ch' = [ch EXCEPT ![w] = Head(out[w])]
  /\ out' = [out EXCEPT ![w] = Tail(@)]
  /\ ry' = [ry EXCEPT ![w] = cursor_y]
  /\ Goto(w, "column")
  /\ torn' = (torn \/ \E v \in Writers : pc[v] # "idle")
  /\ paper' = IF torn' THEN BlankPaper ELSE Typed(paper, Head(out[w]))
  /\ UNCHANGED <<shared, rx, row, budget>>

\* The column a character moves the cursor to from column x.
Column(c, x) ==
  CASE c = "tab" -> NextTab(x)
    [] c = "backspace" /\ x > 0 -> x - 1
    [] c \in Printable -> x + 1
    [] OTHER -> x

\* What a call does with its character once it has loaded column x.
Turn(c, x, y) ==
  CASE c = "newline" -> "wrap"
    [] c \in Printable \cup {"return", "tab"} -> "move"
    [] c = "backspace" -> IF x > 0 THEN "move" ELSE Bottom(y)
    [] OTHER -> Edge(x, y)

\* cursor_x is loaded; newline and carriage return do not look at it.
LoadColumn(w) ==
  /\ pc[w] = "column"
  /\ rx' = [rx EXCEPT ![w] = IF ch[w] \in {"newline", "return"} THEN 0
                            ELSE Column(ch[w], cursor_x)]
  /\ Goto(w, Turn(ch[w], cursor_x, ry[w]))
  /\ UNCHANGED <<shared, history, ch, ry, row, out, budget>>

MoveCursor(w) ==
  /\ pc[w] = "move"
  /\ cursor_x' = rx[w]
  /\ Goto(w, IF ch[w] \in Printable \cup {"backspace"} THEN "cell"
             ELSE Edge(rx[w], ry[w]))
  /\ UNCHANGED <<vga_buffer, cursor_y, history, ch, rx, ry, row, out, budget>>

\* The character, or the blank of a backspace, reaches the screen.
WriteCell(w) ==
  /\ pc[w] = "cell"
  /\ IF ch[w] = "backspace" THEN Store(vga_index(rx[w], ry[w]), " ")
                     ELSE Store(vga_index(rx[w] - 1, ry[w]), ch[w])
  /\ Goto(w, Edge(rx[w], ry[w]))
  /\ UNCHANGED <<cursor_x, cursor_y, history, ch, rx, ry, row, out, budget>>

\* A newline, or the end of a row: column 0 first, then the next row.
Wrap(w) ==
  /\ pc[w] = "wrap"
  /\ cursor_x' = 0
  /\ Goto(w, "line")
  /\ UNCHANGED <<vga_buffer, cursor_y, history, ch, rx, ry, row, out, budget>>

NextLine(w) ==
  /\ pc[w] = "line"
  /\ cursor_y' = ry[w] + 1
  /\ ry' = [ry EXCEPT ![w] = @ + 1]
  /\ Goto(w, Bottom(ry[w] + 1))
  /\ UNCHANGED <<vga_buffer, cursor_x, history, ch, rx, row, out, budget>>

\* A form of ScrollRow that leaves the last row as it is.
ScrollRowKeeps(w) ==
  LET r == row[w]
  IN /\ pc[w] = "scroll"
     /\ vga_buffer' = [i \in DOMAIN vga_buffer |->
                         IF i \div Width = r /\ r < Height - 1
                         THEN vga_buffer[i + Width] ELSE vga_buffer[i]]
     /\ row' = [row EXCEPT ![w] = (r + 1) % Height]
     /\ Goto(w, IF r = Height - 1 THEN "home" ELSE "scroll")
     /\ UNCHANGED <<cursor_x, cursor_y, history, ch, rx, ry, out, budget>>

\* vga_scroll: one row at a time is copied up, the last one is cleared.
ScrollRow(w) ==
  LET r == row[w]
      source(i) == IF r = Height - 1 THEN " " ELSE vga_buffer[i + Width]
  IN /\ pc[w] = "scroll"
     /\ vga_buffer' = [i \in DOMAIN vga_buffer |->
                         IF i \div Width = r THEN source(i) ELSE vga_buffer[i]]
     /\ row' = [row EXCEPT ![w] = (r + 1) % Height]
     /\ Goto(w, IF r = Height - 1 THEN "home" ELSE "scroll")
     /\ UNCHANGED <<cursor_x, cursor_y, history, ch, rx, ry, out, budget>>

\* A form of ScrollHome that moves the cursor up by one row instead.
ScrollHomeUp(w) ==
  /\ pc[w] = "home"
  /\ cursor_y' = cursor_y - 1
  /\ Goto(w, "done")
  /\ UNCHANGED <<vga_buffer, cursor_x, history, ch, rx, ry, row, out, budget>>

\* ... and the cursor goes to the last row.
ScrollHome(w) ==
  /\ pc[w] = "home"
  /\ cursor_y' = Height - 1
  /\ Goto(w, "done")
  /\ UNCHANGED <<vga_buffer, cursor_x, history, ch, rx, ry, row, out, budget>>

Return(w) ==
  /\ pc[w] = "done"
  /\ Goto(w, "idle")
  /\ ch' = [ch EXCEPT ![w] = " "]
  /\ rx' = [rx EXCEPT ![w] = 0] /\ ry' = [ry EXCEPT ![w] = 0]
  /\ UNCHANGED <<shared, history, row, out, budget>>

\* A kernel thread prints a character: kprintf is a loop around vga_putchar.
kprintf(w) ==
  /\ out[w] = <<>> /\ pc[w] = "idle" /\ budget.print > 0
  /\ \E c \in Char : out' = [out EXCEPT ![w] = <<c>>]
  /\ budget' = [budget EXCEPT !.print = @ - 1]
  /\ UNCHANGED <<shared, private, history>>

Step(w) ==
  \/ vga_putchar(w) \/ LoadColumn(w) \/ MoveCursor(w) \/ WriteCell(w)
  \/ Wrap(w) \/ NextLine(w) \/ ScrollRow(w) \/ ScrollHome(w) \/ Return(w)

Quiet == \A w \in Writers : pc[w] = "idle"

----------------------------------------------------------------------------
TypeOK ==
  /\ vga_buffer \in [0 .. Width * Height - 1 -> Printable]
  /\ cursor_x \in Nat /\ cursor_y \in Nat
  /\ out \in [Writers -> Seq(Char)]
  /\ pc \in [Writers -> {"idle", "column", "move", "cell", "wrap", "line",
                         "scroll", "home", "done"}]
  /\ ch \in [Writers -> Char]
  /\ rx \in [Writers -> Nat] /\ ry \in [Writers -> Nat]
  /\ row \in [Writers -> 0 .. Height - 1]
  /\ torn \in BOOLEAN

\* However the calls of vga_putchar overlapped, the cursor is on the screen
\* again once all of them have returned: a call that leaves it past an edge,
\* for its own or for a stale register, is a call that has not yet wrapped
\* or scrolled, and the next character starts from a cell that exists.
OnScreenWhenQuiet ==
  Quiet => cursor_x < Width /\ cursor_y < Height

\* As long as no two calls overlapped, the screen shows the last rows of what
\* was printed and the cursor is where it would be on paper: wrapping,
\* scrolling, tabs and backspaces lose and invent nothing.
ShowsPaper ==
  Quiet /\ ~torn =>
    /\ \A x \in 0 .. Width - 1, r \in 0 .. Height - 1 :
         vga_buffer[vga_index(x, r)] = Window(paper, r)[x]
    /\ cursor_x = paper.x
    /\ cursor_y = IF Len(paper.lines) <= Height THEN Len(paper.lines) - 1
                                                ELSE Height - 1
============================================================================
