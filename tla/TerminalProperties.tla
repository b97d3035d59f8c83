------------------------- MODULE TerminalProperties -------------------------
(***************************************************************************)
(* What the reader of the screen relies on.                                *)
(***************************************************************************)
EXTENDS Terminal

\* The counter never gets further below the screen than one command takes it.
TypeOK ==
    /\ screen \in [Cells -> Marks] /\ cursor \in 0 .. Rows * Cols
    /\ current_line \in 0 .. Rows + MaxLines + FetchLines + 5
    /\ pc # "command" => current_line \in 0 .. Rows + 3
    /\ cmd \in Commands /\ pc \in {"scanf", "shell", "command"}
    /\ at.row \in 0 .. Rows + 2 /\ at.col \in {2, 3} /\ typed \in 0 .. Cols

\* Where the code writes over what it has written. cat takes the counter back
\* after each line that reaches the last row (cat.c:26) and disk before its
\* prompt (disk.c:144), fetch has no prompt of its own, calc asks at a row that
\* scrolling has moved (calc.c:22), and prints ">" into a path of more than one
\* character (calc.c:45).
Crowded ==
    \/ cmd \in {"cat", "disk", "fetch"} /\ current_line = Rows - 1
    \/ pc = "scanf" /\ at.row >= Rows
    \/ cmd = "calc_below_root" /\ Len(todo) <= 1

Clears == todo # <<>> /\ Head(todo).do = "clear"
Erased == IF pc' = "scanf" /\ typed' < typed THEN {Input + typed - 1} ELSE {}

\* The step scrolls by k rows and keeps every other row as it was.
Kept(k) ==
    \A c \in Cells \ Erased : c >= k * Cols /\ screen[c] # "blank" => screen'[c - k * Cols] = screen[c]

Fresh(k) ==
    {c \in Cells : screen'[c] # "blank" /\ (c + k * Cols \in Cells => screen[c + k * Cols] = "blank")}

\* The half of a prompt that scrolling parted from the other is drawn later.
Completes(c, d) ==
    screen'[c] = "prompt" /\ screen'[d] = "prompt" /\ c \div Cols = d \div Cols

\* Nothing on the screen is overwritten, be it by a text of the same command, and
\* what is new stands behind all the rest, however far the counter has run and however
\* often the screen was scrolled by somebody else (vga.c:28-41): the screen is the
\* end of what was written.
OutputAppended ==
    [][Crowded \/ Clears \/ \E k \in {0, 1} :
         /\ Kept(k)
         /\ \A c \in Fresh(k), d \in Cells \ Fresh(k) : screen'[d] # "blank" => d < c \/ Completes(c, d)]_vars

\* While a line is typed, it stands where the cursor is, with nothing behind it
\* (keyboard.c:93, 124-141): the counter that kmain passes to scanf agrees with
\* the screen after any sequence of commands.
InputVisible ==
    pc = "scanf" /\ ~Crowded =>
        /\ \A c \in Input .. Input + typed - 1 : c \in Cells /\ screen[c] = "key"
        /\ \A c \in Cells : c >= Input + typed => screen[c] = "blank"
        /\ typed > 0 => cursor = Input + typed
=============================================================================
