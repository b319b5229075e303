------------------------------ MODULE Console ------------------------------
(***************************************************************************)
(* printk and the text console under it: one printk_buf, one pair of       *)
(* cursor variables and the video memory, which tasks and the keyboard's   *)
(* handler use without any lock.                                           *)
(*                                                                         *)
(* A task is preempted between any two accesses to that memory, a handler  *)
(* runs to its end.  The build (gcc -O) computes the address of a cell     *)
(* from cy and then cx, and keeps the sum of ++cx and of cy++ in a         *)
(* register for the comparison that follows.  Attributes of cells are left *)
(* out.  What only a handler does, the position move_cursor computes, and  *)
(* a scroll are one step each: no property looks inside them.              *)
(***************************************************************************)
EXTENDS Integers, Sequences, SequencesExt, FiniteSets, TLC

CONSTANTS
    Task,
    Main,      \* the task that prints the first messages, with interrupts off
    Handler,   \* no task: what an interrupt runs
    COL_CNT, ROW_CNT,
    TAB,       \* the distance of tab stops
    BiosRow,   \* the rows the BIOS may leave the cursor in
    BufSize,   \* the characters of printk_buf
    Message    \* what tasks print

NUL == 0    BS == 8    HT == 9    LF == 10    FF == 12    CR == 13
Blank == 32

\* Messages of the kernel have no control character but '\n'.
ASSUME ConsoleAssumption ==
    /\ Main \in Task /\ Handler \notin Task
    /\ COL_CNT \in Nat \ {0} /\ ROW_CNT \in Nat \ {0} /\ TAB \in Nat \ {0}
    /\ BiosRow \subseteq 0 .. ROW_CNT - 1
    /\ BufSize \in Nat /\ BufSize > 1
    /\ Message \subseteq Seq(0 .. 255)
    /\ \A m \in Message : /\ Range(m) \cap {NUL, BS, HT, FF, CR} = {}
                          /\ Len(m) < BufSize

Actor == Task \cup {Handler}
Cell  == 0 .. ROW_CNT * COL_CNT - 1

VARIABLES
    fb,         \* the video memory that is shown
    cx, cy,
    hw_cursor,  \* what move_cursor has told the controller
    printk_buf,
    pc,         \* pc[a]: the statement each actor is at, "rest" outside printk
    msg,        \* msg[a]: the text vsprintf is writing
    num, i,     \* printk's locals, and the character fb_putc has been given
    ch,
    reg,        \* the register of the statement
    todo,       \* the messages each task has not printed
    booted,     \* the first message is printed and interrupts are on
    first_row,  \* history: the row init_cursor has set
    overlapped, \* history: a fb_putc started while another was going on
    written,    \* history: the characters given to fb_putc, while not overlapped
    texts       \* history: each actor's message, and those written since it

screen == <<fb, cx, cy, hw_cursor>>
locals == <<msg, num, i, ch, reg>>
ghosts == <<first_row, overlapped, written, texts>>
console_vars == <<screen, printk_buf, pc, locals, todo, booted, ghosts>>

\* With interrupts off a handler is not preempted.
At(a, p) == /\ pc[a] = p
            /\ a = Handler \/ pc[Handler] = "rest"
            /\ a = Main \/ booted
Goto(a, p) == pc' = [pc EXCEPT ![a] = p]
Busy(a) == pc[a] \notin {"rest", "format", "loop"}

---------------------------------------------------------------------------
(* printk.                                                                 *)

\* vsprintf begins to write s.  What others are writing may overwrite it, and
\* it may overwrite theirs.
printk(a, s) ==
    /\ msg' = [msg EXCEPT ![a] = s]
    /\ i' = [i EXCEPT ![a] = 0]
    /\ Goto(a, "format")
    /\ texts' = [b \in Actor |->
                   IF b = a THEN {s} \cup {msg[c] : c \in {c \in Actor : pc[c] = "format"}}
                   ELSE IF pc[b] = "rest" THEN {} ELSE texts[b] \cup {s}]
    /\ UNCHANGED <<screen, printk_buf, num, ch, reg, booted, first_row, overlapped, written>>

\* One character of vsprintf, or its terminator and return.
format(a) ==
    /\ At(a, "format")
    /\ IF i[a] < Len(msg[a])
       THEN /\ printk_buf' = [printk_buf EXCEPT ![i[a] + 1] = msg[a][i[a] + 1]]
            /\ i' = [i EXCEPT ![a] = @ + 1]
            /\ UNCHANGED <<pc, msg, num>>
       ELSE /\ printk_buf' = [printk_buf EXCEPT ![i[a] + 1] = NUL]
            /\ num' = [num EXCEPT ![a] = i[a]]
            /\ i' = [i EXCEPT ![a] = 0]
            /\ msg' = [msg EXCEPT ![a] = <<>>]
            /\ Goto(a, "loop")
    /\ UNCHANGED <<screen, ch, reg, todo, booted, ghosts>>

\* Mutant: the loop also prints the terminator.
up_to_terminator(a) == i[a] <= num[a]

more(a) == i[a] < num[a]

\* The loop of printk calls fb_putc, or printk returns.
loop(a) ==
    /\ At(a, "loop")
    /\ IF more(a)
       THEN LET c == printk_buf[i[a] + 1] IN
            /\ ch' = [ch EXCEPT ![a] = c]
            /\ i' = [i EXCEPT ![a] = @ + 1]
            /\ Goto(a, "switch")
            /\ overlapped' = (overlapped \/ \E b \in Actor \ {a} : Busy(b))
            /\ written' = IF overlapped' THEN <<>> ELSE Append(written, c)
            /\ UNCHANGED booted
       ELSE /\ Goto(a, "rest")
            /\ booted' = TRUE
            /\ UNCHANGED <<ch, i, overlapped, written>>
    /\ UNCHANGED <<screen, printk_buf, msg, num, reg, todo, first_row, texts>>

---------------------------------------------------------------------------
(* fb_putc after init_cursor.                                              *)

ROUND_UP(x, step) == ((x + step - 1) \div step) * step

tab(a) ==
    /\ ch[a] = HT
    /\ cx' = ROUND_UP(cx + 1, TAB)
    /\ Goto(a, IF cx' >= COL_CNT THEN "newline" ELSE "move")
    /\ UNCHANGED <<fb, cy>>

\* Mutant: cls leaves the cursor in its column.
cls_keeps_column(a) ==
    /\ ch[a] = FF
    /\ fb' = [k \in Cell |-> Blank]
    /\ cy' = 0
    /\ Goto(a, "move")
    /\ UNCHANGED cx

\* A handler's, and so one step.
cls(a) ==
    /\ ch[a] = FF
    /\ fb' = [k \in Cell |-> Blank]
    /\ cx' = 0 /\ cy' = 0
    /\ Goto(a, "move")

\* Mutant: the cursor is not held at the first column.
backspace_always(a) ==
    /\ ch[a] = BS
    /\ cx' = cx - 1
    /\ Goto(a, "move")
    /\ UNCHANGED <<fb, cy>>

backspace(a) ==
    /\ ch[a] = BS
    /\ cx' = IF cx > 0 THEN cx - 1 ELSE cx
    /\ Goto(a, "move")
    /\ UNCHANGED <<fb, cy>>

return(a) ==
    /\ ch[a] = CR
    /\ cx' = 0
    /\ Goto(a, "move")
    /\ UNCHANGED <<fb, cy>>

linefeed(a) ==
    /\ ch[a] = LF
    /\ Goto(a, "newline")
    /\ UNCHANGED <<fb, cx, cy>>

default(a) ==
    /\ ch[a] \notin {BS, HT, LF, FF, CR}
    /\ Goto(a, "load_row")
    /\ UNCHANGED <<fb, cx, cy>>

switch(a) ==
    /\ At(a, "switch")
    /\ tab(a) \/ cls(a) \/ backspace(a) \/ return(a) \/ linefeed(a) \/ default(a)
    /\ UNCHANGED <<hw_cursor, printk_buf, locals, todo, booted, ghosts>>

\* fb[cy][cx][0] = ch loads cy, ...
load_row(a) ==
    /\ At(a, "load_row")
    /\ reg' = [reg EXCEPT ![a] = cy]
    /\ Goto(a, "load_col")
    /\ UNCHANGED <<screen, printk_buf, msg, num, i, ch, todo, booted, ghosts>>

\* ... loads cx, ...
load_col(a) ==
    /\ At(a, "load_col")
    /\ reg' = [reg EXCEPT ![a] = @ * COL_CNT + cx]
    /\ Goto(a, "store")
    /\ UNCHANGED <<screen, printk_buf, msg, num, i, ch, todo, booted, ghosts>>

\* ... and stores.  What lies below the last row is not shown.
store(a) ==
    /\ At(a, "store")
    /\ fb' = IF reg[a] \in Cell THEN [fb EXCEPT ![reg[a]] = ch[a]] ELSE fb
    /\ Goto(a, "load_cx")
    /\ UNCHANGED <<cx, cy, hw_cursor, printk_buf, locals, todo, booted, ghosts>>

load_cx(a) ==
    /\ At(a, "load_cx")
    /\ reg' = [reg EXCEPT ![a] = cx]
    /\ Goto(a, "++cx")
    /\ UNCHANGED <<screen, printk_buf, msg, num, i, ch, todo, booted, ghosts>>

\* Mutant: the line is one column longer than the screen.
wraps_late(x) == x > COL_CNT
wraps(x) == x >= COL_CNT

inc_cx(a) ==
    /\ At(a, "++cx")
    /\ cx' = reg[a] + 1
    /\ Goto(a, IF wraps(cx') THEN "newline" ELSE "move")
    /\ UNCHANGED <<fb, cy, hw_cursor, printk_buf, locals, todo, booted, ghosts>>

---------------------------------------------------------------------------
(* newline and move_cursor.                                                *)

newline(a) ==
    /\ At(a, "newline")
    /\ cx' = 0
    /\ Goto(a, "load_cy")
    /\ UNCHANGED <<fb, cy, hw_cursor, printk_buf, locals, todo, booted, ghosts>>

load_cy(a) ==
    /\ At(a, "load_cy")
    /\ reg' = [reg EXCEPT ![a] = cy]
    /\ Goto(a, "cy++")
    /\ UNCHANGED <<screen, printk_buf, msg, num, i, ch, todo, booted, ghosts>>

inc_cy(a) ==
    /\ At(a, "cy++")
    /\ cy' = reg[a] + 1
    /\ Goto(a, IF cy' >= ROW_CNT THEN "last_row" ELSE "move")
    /\ UNCHANGED <<fb, cx, hw_cursor, printk_buf, locals, todo, booted, ghosts>>

last_row(a) ==
    /\ At(a, "last_row")
    /\ cy' = ROW_CNT - 1
    /\ Goto(a, "scroll")
    /\ UNCHANGED <<fb, cx, hw_cursor, printk_buf, locals, todo, booted, ghosts>>

\* memmove of the rows below the first, and clear_row of the last.
scroll(a) ==
    /\ At(a, "scroll")
    /\ fb' = [k \in Cell |-> IF k + COL_CNT \in Cell THEN fb[k + COL_CNT] ELSE Blank]
    /\ Goto(a, "move")
    /\ UNCHANGED <<cx, cy, hw_cursor, printk_buf, locals, todo, booted, ghosts>>

\* move_cursor computes the position ...
move_cursor(a) ==
    /\ At(a, "move")
    /\ reg' = [reg EXCEPT ![a] = cx + COL_CNT * cy]
    /\ Goto(a, "outw")
    /\ UNCHANGED <<screen, printk_buf, msg, num, i, ch, todo, booted, ghosts>>

\* ... and sends it, which a printk in between has made stale.
outw(a) ==
    /\ At(a, "outw")
    /\ hw_cursor' = reg[a]
    /\ Goto(a, "loop")
    /\ UNCHANGED <<fb, cx, cy, printk_buf, locals, todo, booted, ghosts>>

fb_putc(a) ==
    \/ switch(a) \/ load_row(a) \/ load_col(a) \/ store(a) \/ load_cx(a) \/ inc_cx(a)
    \/ newline(a) \/ load_cy(a) \/ inc_cy(a) \/ last_row(a) \/ scroll(a)
    \/ move_cursor(a) \/ outw(a)

\* A task prints its next message.
Say(t) ==
    /\ At(t, "rest") /\ todo[t] # <<>>
    /\ printk(t, Head(todo[t]))
    /\ todo' = [todo EXCEPT ![t] = Tail(@)]

---------------------------------------------------------------------------
\* init_cursor ran in the first message of mm_init, with interrupts off: three
\* rows below where the BIOS left the cursor.
init_cursor == \E y \in BiosRow :
    /\ cy = y + 3
    /\ cx = 0
    /\ hw_cursor = COL_CNT * cy
    /\ first_row = cy

ConsoleInit ==
    /\ fb = [k \in Cell |-> Blank]
    /\ init_cursor
    /\ printk_buf = [k \in 1 .. BufSize |-> NUL]
    /\ pc = [a \in Actor |-> "rest"]
    /\ msg = [a \in Actor |-> <<>>]
    /\ num = [a \in Actor |-> 0] /\ i = num /\ ch = num /\ reg = num
    /\ booted = FALSE
    /\ overlapped = FALSE
    /\ written = <<>>
    /\ texts = [a \in Actor |-> {}]

---------------------------------------------------------------------------
(* Properties.                                                             *)

Statement == {"rest", "format", "loop", "switch", "load_row", "load_col", "store",
              "load_cx", "++cx", "newline", "load_cy", "cy++", "last_row", "scroll",
              "move", "outw"}

\* The kind of every variable.
ConsoleTypeOK ==
    /\ fb \in [Cell -> 0 .. 255]
    /\ cx \in Nat /\ cy \in Nat /\ hw_cursor \in Nat /\ first_row \in Nat
    /\ printk_buf \in [1 .. BufSize -> 0 .. 255]
    /\ pc \in [Actor -> Statement]
    /\ msg \in [Actor -> Seq(0 .. 255)]
    /\ num \in [Actor -> Nat] /\ i \in [Actor -> Nat]
    /\ ch \in [Actor -> 0 .. 255] /\ reg \in [Actor -> Nat]
    /\ todo \in [Task -> Seq(Message)] /\ written \in Seq(0 .. 255)
    /\ booted \in BOOLEAN /\ overlapped \in BOOLEAN
    /\ texts \in [Actor -> SUBSET Seq(0 .. 255)]

\* fb_putc takes a row or a column outside the screen for its address only while
\* another actor, which has moved the cursor there, is about to move it back:
\* there is no check before the store, which comes later and may find the cursor
\* moved back.  Nothing bounds how far outside: two actors can load each other's
\* increments in turn.  At boot alone, where the BIOS left the cursor in one of
\* the last three rows, init_cursor puts the first line below the screen.
\* However the increments of several actors lost or repeated each other's
\* updates, once nobody is inside fb_putc the cursor is on the screen again.
CursorKept ==
    /\ \A a \in Actor :
          /\ pc[a] = "load_row" /\ cy >= ROW_CNT =>
                ~booted \/ \E b \in Actor \ {a} : pc[b] = "last_row"
          /\ pc[a] = "load_col" /\ cx >= COL_CNT =>
                \E b \in Actor \ {a} : pc[b] = "newline"
    /\ (\A a \in Actor : ~Busy(a)) => cx < COL_CNT /\ (booted => cy < ROW_CNT)

\* printk_buf is shared, and written one character at a time: what a printk
\* shows at one of its positions is of its own message, or of another that was
\* written since it began, or that one's terminator; never more characters than
\* its own, nor older text.
TextOfSomeMessage ==
    \A a \in Actor : pc[a] = "switch" =>
        \/ \E m \in texts[a] : i[a] \in DOMAIN m /\ ch[a] = m[i[a]]
        \/ ch[a] = NUL /\ i[a] <= num[a] /\ \E m \in texts[a] : Len(m) + 1 = i[a]

\* What a console without limits makes of the characters: a roll of paper that
\* is never moved back.  A first line below the screen is lost.
NewLine(p) == [p EXCEPT !.x = 0, !.y = @ + 1, !.lost = FALSE]
Typed(p, c) ==
    CASE c = CR -> [p EXCEPT !.x = 0]
      [] c = LF -> NewLine(p)
      [] c = BS -> [p EXCEPT !.x = IF @ = 0 THEN 0 ELSE @ - 1]
      [] c = FF -> [x |-> 0, y |-> p.y + 1, top |-> p.y + 1, lost |-> FALSE, ink |-> <<>>]
      [] c = HT -> LET stop == CHOOSE s \in p.x + 1 .. p.x + TAB : s % TAB = 0
                   IN  IF stop < COL_CNT THEN [p EXCEPT !.x = stop] ELSE NewLine(p)
      [] OTHER  -> LET q == [p EXCEPT !.x = @ + 1,
                                      !.ink = IF p.lost THEN @ ELSE (<<p.y, p.x>> :> c) @@ @]
                   IN  IF q.x < COL_CNT THEN q ELSE NewLine(q)
Paper == FoldLeft(Typed, [x |-> 0, y |-> Min({first_row, ROW_CNT - 1}), top |-> 0,
                          lost |-> first_row >= ROW_CNT, ink |-> <<>>], written)

\* The last rows of the paper.
Shown(p) ==
    LET top == Max({p.top, p.y - ROW_CNT + 1})
    IN  [k \in Cell |-> LET at == <<top + (k \div COL_CNT), k % COL_CNT>>
                        IN  IF at \in DOMAIN p.ink THEN p.ink[at] ELSE Blank]

\* As long as no fb_putc has run into another, the screen shows the characters
\* given to fb_putc, scrolled, with tab stops, and the cursor of the controller
\* is where the next one goes.
ScreenShowsText ==
    (\A a \in Actor : ~Busy(a)) /\ ~overlapped =>
        /\ fb = Shown(Paper)
        /\ hw_cursor = cx + COL_CNT * cy
        /\ cx = Paper.x
=============================================================================
