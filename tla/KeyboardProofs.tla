-------------------------- MODULE KeyboardProofs --------------------------
(***************************************************************************)
(* What holds of the console and the keyboard for every set of tasks and   *)
(* keys, whatever is printed and pressed, on a screen of any size.         *)
(***************************************************************************)
EXTENDS Keyboard, SequenceTheorems, TLAPS

\* One of the messages in ms has the character c at position k, or ends there.
Has(ms, k, c) == \E m \in ms : \/ k \in 1 .. Len(m) /\ c = m[k]
                               \/ k = Len(m) + 1 /\ c = NUL

\* The characters of printk_buf before a's come from messages written since its
\* own was begun: those it has written, or those it has still to print.
Text == {s \in Seq(0 .. 255) : Len(s) < BufSize}
Until(a, n) == \A k \in 1 .. n : Has(texts[a], k, printk_buf[k])
WritesOK(a) ==
    pc[a] = "format" =>
        /\ msg[a] \in Text /\ i[a] <= Len(msg[a])
        /\ \A b \in Actor : pc[b] # "rest" => msg[a] \in texts[b]
        /\ Until(a, i[a])
PrintsOK(a) ==
    pc[a] \notin {"rest", "format"} =>
        /\ num[a] < BufSize /\ i[a] <= num[a]
        /\ Until(a, num[a])
        /\ pc[a] = "switch" => i[a] # 0 /\ Has(texts[a], i[a], ch[a])
TextOK == \A a \in Actor : WritesOK(a) /\ PrintsOK(a)

\* Who stored a cursor outside the screen last has not yet seen it.
CursorOK ==
    /\ cx >= COL_CNT => \E b \in Actor : pc[b] = "newline"
    /\ booted /\ cy >= ROW_CNT => \E b \in Actor : pc[b] = "last_row"

\* main prints m alone.  Once m's line has ended, the cursor is on the screen.
LineEnded(m, n) == (\E k \in 1 .. n : m[k] = LF) => cy < ROW_CNT
FirstLine(m) ==
    /\ LF \in Range(m)
    /\ IF pc[Main] = "format"
       THEN msg[Main] = m /\ \A k \in 1 .. i[Main] : printk_buf[k] = m[k]
       ELSE num[Main] = Len(m) /\ \A k \in 1 .. Len(m) : printk_buf[k] = m[k]
    /\ pc[Main] \in {"loop", "scroll", "move", "outw"} => LineEnded(m, i[Main])
    /\ pc[Main] \in {"switch", "load_row", "load_col", "store", "load_cx", "++cx"} =>
          /\ i[Main] # 0 /\ ch[Main] = m[i[Main]]
          /\ LineEnded(m, i[Main] - 1)
          /\ pc[Main] # "switch" => ch[Main] # LF

\* Until the first message is printed nothing else runs.
FirstOK ==
    ~booted =>
        /\ \A a \in Actor \ {Main} : pc[a] = "rest"
        /\ IF pc[Main] = "rest" THEN todo[Main] # <<>> /\ LF \in Range(Head(todo[Main]))
                                ELSE \E m \in Message : FirstLine(m)

IInv == TypeOK /\ TextOK /\ CursorOK /\ FirstOK
---------------------------------------------------------------------------
(* The kind of every variable.                                             *)

LEMMA Sizes ==
    /\ COL_CNT \in Nat /\ COL_CNT > 0 /\ ROW_CNT \in Nat /\ ROW_CNT > 0
    /\ TAB \in Nat /\ TAB > 0 /\ BufSize \in Nat /\ BufSize > 1
    /\ Main \in Task /\ Main \in Actor /\ Handler \in Actor /\ Handler \notin Task
  BY ConsoleAssumption DEF Actor

LEMMA RoundsUp == ASSUME NEW x \in Nat PROVE ROUND_UP(x + 1, TAB) \in Nat
<1> DEFINE q == (x + 1 + TAB - 1) \div TAB
<1>1. q \in Nat
  BY Sizes
<1> HIDE DEF q
<1>2. q * TAB \in Nat
  BY <1>1, Sizes
<1> QED BY <1>2 DEF ROUND_UP, q

LEMMA Position ==
    ASSUME NEW x \in Nat, NEW y \in Nat
    PROVE  x + COL_CNT * y \in Nat
<1>1. COL_CNT * y \in Nat
  BY Sizes
<1> QED BY <1>1

LEMMA Moves ==
    ASSUME ConsoleTypeOK, NEW a \in Actor, NEW p \in Statement, Goto(a, p)
    PROVE  /\ pc' \in [Actor -> Statement] /\ pc'[a] = p
           /\ \A b \in Actor \ {a} : pc'[b] = pc[b]
  BY DEF ConsoleTypeOK, Goto, Statement

LEMMA SwitchType ==
    ASSUME ConsoleTypeOK, NEW a \in Actor, switch(a)
    PROVE  ConsoleTypeOK'
<1>1. UNCHANGED <<hw_cursor, printk_buf, msg, num, i, ch, reg, todo, booted, first_row, overlapped,
                  written, texts>>
  BY DEF switch, locals, ghosts
<1>2. fb' \in [Cell -> 0 .. 255] /\ cx' \in Nat /\ cy' \in Nat /\ pc' \in [Actor -> Statement]
  <2>0. ConsoleTypeOK
    OBVIOUS
  <2>1. CASE tab(a)
    <3>1. cx' \in Nat
      BY <2>1, RoundsUp DEF tab, ConsoleTypeOK
    <3>2. \E p \in Statement : Goto(a, p)
      BY <2>1 DEF tab, Statement
    <3> QED BY <2>1, <3>1, <3>2, Moves DEF tab, ConsoleTypeOK
  <2>2. CASE cls(a)
    <3>1. \E p \in Statement : Goto(a, p)
      BY <2>2 DEF cls, Statement
    <3>2. fb' \in [Cell -> 0 .. 255]
      BY <2>2 DEF cls, Blank
    <3> QED BY <2>2, <3>1, <3>2, Moves DEF cls
  <2>3. CASE backspace(a)
    <3>1. \E p \in Statement : Goto(a, p)
      BY <2>3 DEF backspace, Statement
    <3>2. cx' \in Nat
      BY <2>3 DEF backspace, ConsoleTypeOK
    <3> QED BY <2>3, <3>1, <3>2, Moves DEF backspace, ConsoleTypeOK
  <2>4. CASE return(a)
    <3>1. \E p \in Statement : Goto(a, p)
      BY <2>4 DEF return, Statement
    <3> QED BY <2>4, <3>1, Moves DEF return, ConsoleTypeOK
  <2>5. CASE linefeed(a)
    <3>1. \E p \in Statement : Goto(a, p)
      BY <2>5 DEF linefeed, Statement
    <3> QED BY <2>5, <3>1, Moves DEF linefeed, ConsoleTypeOK
  <2>6. CASE default(a)
    <3>1. \E p \in Statement : Goto(a, p)
      BY <2>6 DEF default, Statement
    <3> QED BY <2>6, <3>1, Moves DEF default, ConsoleTypeOK
  <2> QED BY <2>1, <2>2, <2>3, <2>4, <2>5, <2>6 DEF switch
<1> QED BY <1>1, <1>2 DEF ConsoleTypeOK, Statement

LEMMA TypeParts ==
    ConsoleTypeOK =>
        /\ fb \in [Cell -> 0 .. 255] /\ cx \in Nat /\ cy \in Nat /\ hw_cursor \in Nat
        /\ reg \in [Actor -> Nat] /\ ch \in [Actor -> 0 .. 255] /\ pc \in [Actor -> Statement]
  BY DEF ConsoleTypeOK

LEMMA ScreenType ==
    ASSUME ConsoleTypeOK, fb' \in [Cell -> 0 .. 255], cx' \in Nat, cy' \in Nat, hw_cursor' \in Nat,
           pc' \in [Actor -> Statement], UNCHANGED <<printk_buf, locals, todo, booted, ghosts>>
    PROVE  ConsoleTypeOK'
<1>1. UNCHANGED <<printk_buf, msg, num, i, ch, reg, todo, booted, first_row, overlapped,
                  written, texts>>
  BY DEF locals, ghosts
<1> QED BY <1>1, ZenonT(40) DEF ConsoleTypeOK

LEMMA RegType ==
    ASSUME ConsoleTypeOK, reg' \in [Actor -> Nat],
           pc' \in [Actor -> Statement],
           UNCHANGED <<screen, printk_buf, msg, num, i, ch, todo, booted, ghosts>>
    PROVE  ConsoleTypeOK'
<1>1. UNCHANGED <<fb, cx, cy, hw_cursor, printk_buf, msg, num, i, ch, todo, booted,
                  first_row, overlapped, written, texts>>
  BY DEF screen, ghosts
<1> QED BY <1>1, ZenonT(100) DEF ConsoleTypeOK

LEMMA GoesTo ==
    ASSUME pc \in [Actor -> Statement], NEW a \in Actor, NEW p \in Statement, Goto(a, p)
    PROVE  pc' \in [Actor -> Statement]
  BY DEF Goto

LEMMA PutcType ==
    ASSUME ConsoleTypeOK, NEW a \in Actor, fb_putc(a)
    PROVE  ConsoleTypeOK'
<1>0. /\ fb \in [Cell -> 0 .. 255] /\ cx \in Nat /\ cy \in Nat /\ hw_cursor \in Nat
      /\ reg \in [Actor -> Nat] /\ reg[a] \in Nat /\ ch[a] \in 0 .. 255 /\ pc \in [Actor -> Statement]
  BY TypeParts
<1> DEFINE On(p) == p \in Statement /\ Goto(a, p)
<1>1. CASE switch(a)
  BY <1>1, SwitchType
<1>12. CASE load_row(a)
  <2>1. reg' \in [Actor -> Nat]
    BY <1>0, <1>12 DEF load_row
  <2>2. On("load_col")
    BY <1>12 DEF load_row, Statement
  <2> QED BY <1>0, <1>12, <2>1, <2>2, GoesTo, RegType DEF load_row
<1>13. CASE load_col(a)
  <2>3. cx + COL_CNT * reg[a] \in Nat
    BY <1>0, Position
  <2>4. reg[a] * COL_CNT + cx = cx + COL_CNT * reg[a]
    BY <1>0, Sizes
  <2>5. reg' = [reg EXCEPT ![a] = reg[a] * COL_CNT + cx]
    BY <1>13 DEF load_col
  <2>1. reg' \in [Actor -> Nat]
    BY <1>0, <2>3, <2>4, <2>5
  <2>2. On("store")
    BY <1>13 DEF load_col, Statement
  <2> QED BY <1>0, <1>13, <2>1, <2>2, GoesTo, RegType DEF load_col
<1>2. CASE store(a)
  <2>1. fb' \in [Cell -> 0 .. 255]
    BY <1>0, <1>2 DEF store
  <2>2. On("load_cx")
    BY <1>2 DEF store, Statement
  <2> QED BY <1>0, <1>2, <2>1, <2>2, GoesTo, ScreenType DEF store
<1>3. CASE load_cx(a)
  <2>1. reg' \in [Actor -> Nat]
    BY <1>0, <1>3 DEF load_cx
  <2>2. On("++cx")
    BY <1>3 DEF load_cx, Statement
  <2> QED BY <1>0, <1>3, <2>1, <2>2, GoesTo, RegType DEF load_cx
<1>4. CASE inc_cx(a)
  <2>1. cx' \in Nat
    BY <1>0, <1>4 DEF inc_cx
  <2>2. On("newline") \/ On("move")
    BY <1>4 DEF inc_cx, Statement
  <2> QED BY <1>0, <1>4, <2>1, <2>2, GoesTo, ScreenType DEF inc_cx
<1>5. CASE newline(a)
  <2>1. cx' \in Nat
    BY <1>0, <1>5 DEF newline
  <2>2. On("load_cy")
    BY <1>5 DEF newline, Statement
  <2> QED BY <1>0, <1>5, <2>1, <2>2, GoesTo, ScreenType DEF newline
<1>6. CASE load_cy(a)
  <2>1. reg' \in [Actor -> Nat]
    BY <1>0, <1>6 DEF load_cy
  <2>2. On("cy++")
    BY <1>6 DEF load_cy, Statement
  <2> QED BY <1>0, <1>6, <2>1, <2>2, GoesTo, RegType DEF load_cy
<1>7. CASE inc_cy(a)
  <2>1. cy' \in Nat
    BY <1>0, <1>7 DEF inc_cy
  <2>2. On("last_row") \/ On("move")
    BY <1>7 DEF inc_cy, Statement
  <2> QED BY <1>0, <1>7, <2>1, <2>2, GoesTo, ScreenType DEF inc_cy
<1>8. CASE last_row(a)
  <2>1. cy' \in Nat
    BY <1>0, <1>8, Sizes DEF last_row
  <2>2. On("scroll")
    BY <1>8 DEF last_row, Statement
  <2> QED BY <1>0, <1>8, <2>1, <2>2, GoesTo, ScreenType DEF last_row
<1>9. CASE scroll(a)
  <2>1. fb' \in [Cell -> 0 .. 255]
    BY <1>0, <1>9 DEF scroll, Blank
  <2>2. On("move")
    BY <1>9 DEF scroll, Statement
  <2> QED BY <1>0, <1>9, <2>1, <2>2, GoesTo, ScreenType DEF scroll
<1>10. CASE move_cursor(a)
  <2>3. cx + COL_CNT * cy \in Nat
    BY <1>0, Sizes, Position
  <2>1. reg' \in [Actor -> Nat]
    BY <1>0, <1>10, <2>3 DEF move_cursor
  <2>2. On("outw")
    BY <1>10 DEF move_cursor, Statement
  <2> QED BY <1>0, <1>10, <2>1, <2>2, GoesTo, RegType DEF move_cursor
<1>11. CASE outw(a)
  <2>1. hw_cursor' \in Nat
    BY <1>0, <1>11 DEF outw
  <2>2. On("loop")
    BY <1>11 DEF outw, Statement
  <2> QED BY <1>0, <1>11, <2>1, <2>2, GoesTo, ScreenType DEF outw
<1> QED BY <1>1, <1>2, <1>3, <1>4, <1>5, <1>6, <1>7, <1>8, <1>9, <1>10, <1>11, <1>12, <1>13
        DEF fb_putc

---------------------------------------------------------------------------
(* printk, and what it leaves of the other messages.                       *)

LEMMA MessagesAreTexts == Message \subseteq Text
  BY ConsoleAssumption DEF Text

LEMMA HasMore ==
    ASSUME NEW ms, NEW more_ms, ms \subseteq more_ms, NEW k, NEW c, Has(ms, k, c)
    PROVE  Has(more_ms, k, c)
  BY DEF Has

\* A message that is begun.
LEMMA Begun ==
    ASSUME ConsoleTypeOK, TextOK, CursorOK, NEW a \in Actor, NEW s \in Text, pc[a] = "rest",
           printk(a, s), todo' \in [Task -> Seq(Message)]
    PROVE  ConsoleTypeOK' /\ TextOK' /\ CursorOK'
<1>1. /\ UNCHANGED <<fb, cx, cy, hw_cursor, printk_buf, num, ch, reg, booted, first_row,
                     overlapped, written>>
      /\ msg' = [msg EXCEPT ![a] = s] /\ i' = [i EXCEPT ![a] = 0] /\ Goto(a, "format")
      /\ texts' = [b \in Actor |->
                     IF b = a THEN {s} \cup {msg[c] : c \in {c \in Actor : pc[c] = "format"}}
                     ELSE IF pc[b] = "rest" THEN {} ELSE texts[b] \cup {s}]
  BY DEF printk, screen
<1>2. s \in Seq(0 .. 255) /\ Len(s) \in Nat /\ Len(s) < BufSize
  BY DEF Text
<1>3. /\ pc' \in [Actor -> Statement] /\ pc'[a] = "format"
      /\ \A b \in Actor \ {a} : pc'[b] = pc[b]
  BY <1>1, Moves DEF Statement
<1>4. /\ msg' \in [Actor -> Seq(0 .. 255)] /\ msg'[a] = s
      /\ i' \in [Actor -> Nat] /\ i'[a] = 0
      /\ \A b \in Actor \ {a} : msg'[b] = msg[b] /\ i'[b] = i[b]
  BY <1>1, <1>2 DEF ConsoleTypeOK
<1>5. /\ texts' \in [Actor -> SUBSET Seq(0 .. 255)] /\ s \in texts'[a]
      /\ \A c \in Actor : pc[c] = "format" => msg[c] \in texts'[a]
      /\ \A b \in Actor \ {a} : pc[b] # "rest" => texts'[b] = texts[b] \cup {s}
  <2> DEFINE others == {msg[c] : c \in {c \in Actor : pc[c] = "format"}}
  <2>1. \A b \in Actor : texts'[b] = IF b = a THEN {s} \cup others
                                      ELSE IF pc[b] = "rest" THEN {} ELSE texts[b] \cup {s}
    BY <1>1
  <2>2. /\ \A b \in Actor : texts[b] \subseteq Seq(0 .. 255)
        /\ others \subseteq Seq(0 .. 255)
    BY DEF ConsoleTypeOK
  <2>3. ASSUME NEW b \in Actor PROVE texts'[b] \subseteq Seq(0 .. 255)
    <3>1. texts[b] \cup {s} \subseteq Seq(0 .. 255) /\ {s} \cup others \subseteq Seq(0 .. 255)
      BY <1>2, <2>2, Zenon
    <3> QED BY <2>1, <3>1, Zenon
  <2>4. texts' \in [Actor -> SUBSET Seq(0 .. 255)]
    BY <1>1, <2>3
  <2>5. texts'[a] = {s} \cup others
    BY <2>1
  <2>6. ASSUME NEW b \in Actor \ {a}, pc[b] # "rest" PROVE texts'[b] = texts[b] \cup {s}
    BY <2>1, <2>6
  <2> QED BY <2>4, <2>5, <2>6
<1>6. ConsoleTypeOK'
  BY <1>1, <1>3, <1>4, <1>5 DEF ConsoleTypeOK, Statement
<1>7. ASSUME NEW b \in Actor \ {a}, NEW n \in Nat, pc[b] # "rest", Until(b, n) PROVE Until(b, n)'
  <2>1. texts[b] \subseteq texts'[b] /\ UNCHANGED printk_buf
    BY <1>1, <1>5, <1>7
  <2> QED BY <1>7, <2>1, HasMore DEF Until
<1>8. ASSUME NEW b \in Actor PROVE WritesOK(b)'
  <2>1. CASE b = a
    <3>1. ASSUME NEW c \in Actor, pc'[c] # "rest" PROVE s \in texts'[c]
      BY <1>3, <1>5, <3>1
    <3>2. Until(a, 0)'
      BY DEF Until
    <3> QED BY <1>2, <1>4, <2>1, <3>1, <3>2 DEF WritesOK, Until, Text
  <2>2. CASE b # a
    <3> SUFFICES ASSUME pc[b] = "format" PROVE WritesOK(b)'
      BY <1>3, <2>2 DEF WritesOK
    <3>1. /\ msg[b] \in Text /\ i[b] <= Len(msg[b]) /\ i[b] \in Nat /\ Until(b, i[b])
          /\ \A c \in Actor : pc[c] # "rest" => msg[b] \in texts[c]
      BY DEF TextOK, WritesOK, ConsoleTypeOK
    <3>2. ASSUME NEW c \in Actor, pc'[c] # "rest" PROVE msg[b] \in texts'[c]
      BY <1>3, <1>5, <3>1, <3>2
    <3>3. Until(b, i[b])'
      BY <1>4, <1>7, <2>2, <3>1 DEF Until
    <3> QED BY <1>4, <2>2, <3>1, <3>2, <3>3 DEF WritesOK, Text
  <2> QED BY <2>1, <2>2
<1>9. ASSUME NEW b \in Actor PROVE PrintsOK(b)'
  <2> SUFFICES ASSUME b # a, pc[b] \notin {"rest", "format"} PROVE PrintsOK(b)'
    BY <1>3 DEF PrintsOK
  <2>1. /\ num[b] \in Nat /\ num[b] < BufSize /\ i[b] <= num[b] /\ Until(b, num[b])
        /\ pc[b] = "switch" => i[b] # 0 /\ Has(texts[b], i[b], ch[b])
    BY DEF TextOK, PrintsOK, ConsoleTypeOK
  <2>2. Until(b, num[b])' /\ texts[b] \subseteq texts'[b]
    BY <1>1, <1>5, <1>7, <2>1 DEF Until
  <2>3. pc'[b] = "switch" => i'[b] # 0 /\ Has(texts'[b], i'[b], ch'[b])
    BY <1>1, <1>3, <1>4, <2>1, <2>2, HasMore
  <2> QED BY <1>1, <1>4, <2>1, <2>2, <2>3 DEF PrintsOK
<1>10. TextOK'
  BY <1>8, <1>9 DEF TextOK
<1>11. CursorOK'
  BY <1>1, <1>3 DEF CursorOK
<1> QED BY <1>6, <1>10, <1>11

LEMMA Formats ==
    ASSUME ConsoleTypeOK, TextOK, NEW a \in Actor, pc[a] = "format"
    PROVE  /\ msg[a] \in Seq(0 .. 255) /\ Len(msg[a]) \in Nat /\ Len(msg[a]) < BufSize
           /\ i[a] \in Nat /\ i[a] <= Len(msg[a]) /\ i[a] < BufSize
           /\ Until(a, i[a])
           /\ \A b \in Actor : pc[b] # "rest" => msg[a] \in texts[b]
<1>1. WritesOK(a)
  BY DEF TextOK
<1>2. msg[a] \in Text /\ i[a] <= Len(msg[a]) /\ Until(a, i[a])
      /\ \A b \in Actor : pc[b] # "rest" => msg[a] \in texts[b]
  BY <1>1 DEF WritesOK
<1>3. i[a] \in Nat
  BY DEF ConsoleTypeOK
<1>4. msg[a] \in Seq(0 .. 255) /\ Len(msg[a]) \in Nat /\ Len(msg[a]) < BufSize
  BY <1>2 DEF Text
<1>5. i[a] < BufSize
  BY <1>2, <1>3, <1>4, Sizes
<1> QED BY <1>2, <1>3, <1>4, <1>5

LEMMA Loops ==
    ASSUME ConsoleTypeOK, TextOK, NEW a \in Actor, pc[a] \notin {"rest", "format"}
    PROVE  /\ num[a] \in Nat /\ num[a] < BufSize /\ i[a] \in Nat /\ i[a] <= num[a]
           /\ Until(a, num[a])
           /\ pc[a] = "switch" => i[a] # 0 /\ Has(texts[a], i[a], ch[a])
<1>1. PrintsOK(a)
  BY DEF TextOK
<1> QED BY <1>1 DEF PrintsOK, ConsoleTypeOK

\* One position of printk_buf is written, with a character of a's message or
\* its terminator.
LEMMA Written ==
    ASSUME ConsoleTypeOK, TextOK, NEW a \in Actor, format(a)
    PROVE  /\ printk_buf' \in [1 .. BufSize -> 0 .. 255]
           /\ i[a] \in Nat /\ i[a] <= Len(msg[a]) /\ Len(msg[a]) \in Nat /\ Len(msg[a]) < BufSize
           /\ i[a] < Len(msg[a]) => printk_buf'[i[a] + 1] = msg[a][i[a] + 1]
           /\ \A k \in 1 .. BufSize : k # i[a] + 1 => printk_buf'[k] = printk_buf[k]
           /\ \A b \in Actor, k \in 1 .. BufSize :
                 /\ pc[b] # "rest"
                 /\ k = i[a] + 1 \/ Has(texts[b], k, printk_buf[k])
                 => Has(texts[b], k, printk_buf'[k])
<1>1. /\ pc[a] = "format"
      /\ printk_buf' = [printk_buf EXCEPT ![i[a] + 1] =
                           IF i[a] < Len(msg[a]) THEN msg[a][i[a] + 1] ELSE NUL]
  BY DEF format, At
<1>2. /\ msg[a] \in Seq(0 .. 255) /\ Len(msg[a]) \in Nat /\ Len(msg[a]) < BufSize
      /\ i[a] \in Nat /\ i[a] <= Len(msg[a])
      /\ \A b \in Actor : pc[b] # "rest" => msg[a] \in texts[b]
  BY <1>1, Formats
<1>3. printk_buf \in [1 .. BufSize -> 0 .. 255] /\ i[a] + 1 \in 1 .. BufSize
  <2>1. printk_buf \in [1 .. BufSize -> 0 .. 255]
    BY DEF ConsoleTypeOK
  <2>2. i[a] + 1 \in 1 .. BufSize
    <3>1. i[a] \in Nat /\ i[a] < BufSize
      BY <1>1, Formats
    <3> QED BY <3>1, Sizes
  <2> QED BY <2>1, <2>2
<1> DEFINE c == IF i[a] < Len(msg[a]) THEN msg[a][i[a] + 1] ELSE NUL
<1>4. c \in 0 .. 255
  <2>1. CASE i[a] < Len(msg[a])
    <3>1. i[a] + 1 \in 1 .. Len(msg[a])
      BY <1>2, <2>1
    <3> QED BY <1>2, <2>1, <3>1, ElementOfSeq
  <2>2. CASE ~(i[a] < Len(msg[a]))
    BY <2>2 DEF NUL
  <2> QED BY <2>1, <2>2
<1>5. \A ms : msg[a] \in ms => Has(ms, i[a] + 1, c)
  <2>1. CASE i[a] < Len(msg[a])
    BY <1>2, <2>1 DEF Has
  <2>2. CASE i[a] = Len(msg[a])
    BY <1>2, <2>2 DEF Has
  <2> QED BY <1>2, <2>1, <2>2
<1> HIDE DEF c
<1>6. printk_buf' = [printk_buf EXCEPT ![i[a] + 1] = c]
  BY <1>1 DEF c
<1>7. printk_buf' \in [1 .. BufSize -> 0 .. 255] /\ printk_buf'[i[a] + 1] = c
      /\ \A k \in 1 .. BufSize : k # i[a] + 1 => printk_buf'[k] = printk_buf[k]
  BY <1>3, <1>4, <1>6
<1>8. i[a] < Len(msg[a]) => printk_buf'[i[a] + 1] = msg[a][i[a] + 1]
  BY <1>7 DEF c
<1>9. ASSUME NEW b \in Actor, NEW k \in 1 .. BufSize, pc[b] # "rest",
             k = i[a] + 1 \/ Has(texts[b], k, printk_buf[k])
      PROVE  Has(texts[b], k, printk_buf'[k])
  BY <1>2, <1>5, <1>7, <1>9
<1> QED BY <1>2, <1>7, <1>8, <1>9

LEMMA FormatKeeps ==
    ASSUME ConsoleTypeOK, TextOK, CursorOK, NEW a \in Actor, format(a)
    PROVE  ConsoleTypeOK' /\ TextOK' /\ CursorOK'
<1> DEFINE more_text == i[a] < Len(msg[a])
<1>1. /\ UNCHANGED <<fb, cx, cy, hw_cursor, ch, reg, todo, booted, first_row, overlapped,
                     written, texts>>
      /\ pc[a] = "format"
      /\ more_text => i' = [i EXCEPT ![a] = i[a] + 1] /\ UNCHANGED <<pc, msg, num>>
      /\ ~more_text => /\ i' = [i EXCEPT ![a] = 0] /\ num' = [num EXCEPT ![a] = i[a]]
                       /\ msg' = [msg EXCEPT ![a] = <<>>] /\ Goto(a, "loop")
  BY DEF format, At, screen, ghosts
<1>2. /\ printk_buf' \in [1 .. BufSize -> 0 .. 255]
      /\ i[a] \in Nat /\ i[a] <= Len(msg[a]) /\ Len(msg[a]) \in Nat /\ Len(msg[a]) < BufSize
      /\ \A b \in Actor, k \in 1 .. BufSize :
            /\ pc[b] # "rest"
            /\ k = i[a] + 1 \/ Has(texts[b], k, printk_buf[k])
            => Has(texts[b], k, printk_buf'[k])
  BY Written
<1>3. /\ pc' \in [Actor -> Statement] /\ pc'[a] = IF more_text THEN "format" ELSE "loop"
      /\ \A b \in Actor \ {a} : pc'[b] = pc[b]
  <2>1. pc \in [Actor -> Statement]
    BY DEF ConsoleTypeOK
  <2> QED BY <1>1, <2>1, Moves DEF Statement
<1>4. /\ i' \in [Actor -> Nat] /\ num' \in [Actor -> Nat] /\ msg' \in [Actor -> Seq(0 .. 255)]
      /\ \A b \in Actor \ {a} : i'[b] = i[b] /\ num'[b] = num[b] /\ msg'[b] = msg[b]
  <2>1. i \in [Actor -> Nat] /\ num \in [Actor -> Nat] /\ msg \in [Actor -> Seq(0 .. 255)]
    BY DEF ConsoleTypeOK
  <2>2. i[a] + 1 \in Nat /\ <<>> \in Seq(0 .. 255)
    BY <1>2
  <2> HIDE DEF more_text
  <2>3. CASE more_text
    <3>1. i' = [i EXCEPT ![a] = i[a] + 1] /\ UNCHANGED <<msg, num>>
      BY <1>1, <2>3
    <3> QED BY <2>1, <2>2, <3>1
  <2>4. CASE ~more_text
    <3>1. /\ i' = [i EXCEPT ![a] = 0] /\ num' = [num EXCEPT ![a] = i[a]]
          /\ msg' = [msg EXCEPT ![a] = <<>>]
      BY <1>1, <2>4
    <3>2. msg' \in [Actor -> Seq(0 .. 255)] /\ \A b \in Actor \ {a} : msg'[b] = msg[b]
      BY <2>1, <2>2, <3>1
    <3>3. /\ i' \in [Actor -> Nat] /\ num' \in [Actor -> Nat]
          /\ \A b \in Actor \ {a} : i'[b] = i[b] /\ num'[b] = num[b]
      BY <1>2, <2>1, <3>1
    <3> QED BY <3>2, <3>3
  <2> QED BY <2>3, <2>4
<1>5. ConsoleTypeOK'
  BY <1>1, <1>2, <1>3, <1>4 DEF ConsoleTypeOK, Statement
<1>6. ASSUME NEW b \in Actor, NEW n \in Nat, n < BufSize, pc[b] # "rest", Until(b, n)
      PROVE  Until(b, n)'
  <2>1. ASSUME NEW k \in 1 .. n PROVE Has(texts'[b], k, printk_buf'[k])
    <3>1. k \in 1 .. BufSize /\ Has(texts[b], k, printk_buf[k])
      BY <1>6, Sizes DEF Until
    <3> QED BY <1>1, <1>2, <1>6, <3>1
  <2> QED BY <2>1 DEF Until
<1>7. WritesOK(a) /\ i'[a] \in Nat
  BY <1>4 DEF TextOK
<1>8. ASSUME more_text PROVE TextOK'
  <2>1. i'[a] = i[a] + 1 /\ i'[a] <= Len(msg[a])
    BY <1>1, <1>2, <1>8 DEF ConsoleTypeOK
  <2>2. ASSUME NEW k \in 1 .. i[a] + 1 PROVE Has(texts'[a], k, printk_buf'[k])
    <3>1. k \in 1 .. BufSize /\ (k = i[a] + 1 \/ k \in 1 .. i[a])
      BY <1>2, <1>8, Sizes
    <3>2. k = i[a] + 1 \/ Has(texts[a], k, printk_buf[k])
      BY <1>1, <1>7, <3>1 DEF WritesOK, Until
    <3> QED BY <1>1, <1>2, <3>1, <3>2
  <2>3. Until(a, i[a])'
    BY <2>1, <2>2 DEF Until
  <2>4. WritesOK(a)'
    BY <1>1, <1>7, <1>8, <2>1, <2>3 DEF WritesOK, Text
  <2>5. ASSUME NEW b \in Actor \ {a} PROVE WritesOK(b)'
    <3>1. pc[b] = "format" => Until(b, i[b])'
      <4> SUFFICES ASSUME pc[b] = "format" PROVE Until(b, i[b])'
        OBVIOUS
      <4>1. i[b] \in Nat /\ i[b] < BufSize /\ Until(b, i[b]) /\ i'[b] = i[b]
        BY <1>4, Formats
      <4>2. \A n \in Nat : n < BufSize /\ Until(b, n) => Until(b, n)'
        BY <1>6
      <4> QED BY <4>1, <4>2 DEF Until
    <3> QED BY <1>1, <1>4, <1>8, <3>1 DEF TextOK, WritesOK, Text
  <2>6. ASSUME NEW b \in Actor PROVE PrintsOK(b)'
    <3> SUFFICES ASSUME b # a, pc[b] \notin {"rest", "format"} PROVE PrintsOK(b)'
      BY <1>1, <1>8 DEF PrintsOK
    <3>1. /\ num[b] \in Nat /\ num[b] < BufSize /\ i[b] <= num[b] /\ Until(b, num[b])
          /\ pc[b] = "switch" => i[b] # 0 /\ Has(texts[b], i[b], ch[b])
      BY Loops
    <3>2. \A n \in Nat : n < BufSize /\ Until(b, n) => Until(b, n)'
      BY <1>6
    <3>3. Until(b, num[b])'
      BY <1>4, <3>1, <3>2 DEF Until
    <3>4. pc'[b] = "switch" => i'[b] # 0 /\ Has(texts'[b], i'[b], ch'[b])
      BY <1>1, <1>4, <1>8, <3>1
    <3>5. num'[b] < BufSize /\ i'[b] <= num'[b]
      BY <1>4, <3>1
    <3> QED BY <3>3, <3>4, <3>5 DEF PrintsOK
  <2> QED BY <2>4, <2>5, <2>6 DEF TextOK
<1>9. ASSUME ~more_text PROVE TextOK'
  <2>1. i[a] = Len(msg[a]) /\ i'[a] = 0 /\ num'[a] = i[a] /\ pc'[a] = "loop"
    <3>1. i \in [Actor -> Nat] /\ num \in [Actor -> Nat]
      BY DEF ConsoleTypeOK
    <3>2. i[a] = Len(msg[a])
      BY <1>2, <1>9
    <3>3. i' = [i EXCEPT ![a] = 0] /\ num' = [num EXCEPT ![a] = i[a]] /\ pc'[a] = "loop"
      BY <1>1, <1>3, <1>9
    <3> HIDE DEF more_text
    <3> QED BY <3>1, <3>2, <3>3
  <2>2. Until(a, i[a]) /\ i[a] < BufSize
    BY <1>1, Formats
  <2>3. ASSUME NEW k \in 1 .. num'[a] PROVE Has(texts'[a], k, printk_buf'[k])
    <3>1. k \in 1 .. BufSize /\ Has(texts[a], k, printk_buf[k])
      BY <1>2, <2>1, <2>2, Sizes DEF Until
    <3> QED BY <1>1, <1>2, <3>1
  <2>4. PrintsOK(a)'
    BY <1>2, <2>1, <2>2, <2>3 DEF PrintsOK, Until
  <2>5. WritesOK(a)'
    BY <2>1 DEF WritesOK
  <2>6. ASSUME NEW b \in Actor \ {a} PROVE WritesOK(b)'
    <3>1. pc[b] = "format" => Until(b, i[b])'
      <4> SUFFICES ASSUME pc[b] = "format" PROVE Until(b, i[b])'
        OBVIOUS
      <4>1. i[b] \in Nat /\ i[b] < BufSize /\ Until(b, i[b]) /\ i'[b] = i[b]
        BY <1>4, Formats
      <4>2. \A n \in Nat : n < BufSize /\ Until(b, n) => Until(b, n)'
        BY <1>6
      <4> QED BY <4>1, <4>2 DEF Until
    <3>2. \A c \in Actor : pc'[c] # "rest" => pc[c] # "rest"
      BY <1>1, <1>3
    <3> QED BY <1>1, <1>3, <1>4, <3>1, <3>2 DEF TextOK, WritesOK, Text
  <2>7. ASSUME NEW b \in Actor \ {a} PROVE PrintsOK(b)'
    <3> SUFFICES ASSUME pc[b] \notin {"rest", "format"} PROVE PrintsOK(b)'
      BY <1>3 DEF PrintsOK
    <3>1. /\ num[b] \in Nat /\ num[b] < BufSize /\ i[b] <= num[b] /\ Until(b, num[b])
          /\ pc[b] = "switch" => i[b] # 0 /\ Has(texts[b], i[b], ch[b])
      BY Loops
    <3>2. \A n \in Nat : n < BufSize /\ Until(b, n) => Until(b, n)'
      BY <1>6
    <3>3. Until(b, num[b])'
      BY <1>4, <3>1, <3>2 DEF Until
    <3>4. pc'[b] = "switch" => i'[b] # 0 /\ Has(texts'[b], i'[b], ch'[b])
      BY <1>1, <1>3, <1>4, <3>1
    <3>5. num'[b] < BufSize /\ i'[b] <= num'[b]
      BY <1>4, <3>1
    <3> QED BY <3>3, <3>4, <3>5 DEF PrintsOK
  <2> QED BY <2>4, <2>5, <2>6, <2>7 DEF TextOK
<1>10. CursorOK'
  BY <1>1, <1>3 DEF CursorOK
<1> QED BY <1>5, <1>8, <1>9, <1>10

\* Nothing disturbs main's first message.
LEMMA FormatFirst ==
    ASSUME ConsoleTypeOK, TextOK, FirstOK, NEW a \in Actor, format(a)
    PROVE  FirstOK'
<1> DEFINE more_text == i[a] < Len(msg[a])
<1>1. /\ UNCHANGED <<cy, ch, todo, booted>> /\ pc[a] = "format" /\ (a = Main \/ booted)
      /\ more_text => i' = [i EXCEPT ![a] = i[a] + 1] /\ UNCHANGED <<pc, msg, num>>
      /\ ~more_text => /\ i' = [i EXCEPT ![a] = 0] /\ num' = [num EXCEPT ![a] = i[a]]
                       /\ Goto(a, "loop")
  BY DEF format, At, screen
<1>2. CASE booted
  BY <1>1, <1>2 DEF FirstOK
<1>3. CASE ~booted
  <2>1. a = Main /\ \A b \in Actor \ {Main} : pc[b] = "rest"
    BY <1>1, <1>3 DEF FirstOK
  <2>2. PICK m \in Message : FirstLine(m)
    BY <1>1, <1>3, <2>1 DEF FirstOK
  <2>3. /\ LF \in Range(m) /\ msg[Main] = m /\ \A k \in 1 .. i[Main] : printk_buf[k] = m[k]
    BY <1>1, <2>1, <2>2 DEF FirstLine
  <2>4. /\ i[Main] \in Nat /\ i[Main] <= Len(m) /\ Len(m) \in Nat /\ Len(m) < BufSize
        /\ i[Main] < Len(m) => printk_buf'[i[Main] + 1] = m[i[Main] + 1]
        /\ \A k \in 1 .. BufSize : k # i[Main] + 1 => printk_buf'[k] = printk_buf[k]
    BY <2>1, <2>3, Written
  <2>5. \A k \in 1 .. i[Main] : printk_buf'[k] = m[k]
    <3>1. \A k \in 1 .. i[Main] : k \in 1 .. BufSize /\ k # i[Main] + 1
      BY <2>4, Sizes
    <3> QED BY <2>3, <2>4, <3>1
  <2>6. CASE more_text
    <3>1. i'[Main] = i[Main] + 1 /\ UNCHANGED <<pc, msg>>
      BY <1>1, <2>1, <2>6 DEF ConsoleTypeOK
    <3>2. \A k \in 1 .. i[Main] + 1 : k \in 1 .. i[Main] \/ k = i[Main] + 1
      BY <2>4
    <3>3. FirstLine(m)'
      BY <1>1, <2>1, <2>3, <2>4, <2>5, <2>6, <3>1, <3>2 DEF FirstLine
    <3> QED BY <1>1, <2>1, <3>1, <3>3 DEF FirstOK
  <2>7. CASE ~more_text
    <3>1. i[Main] = Len(m) /\ i'[Main] = 0 /\ num'[Main] = Len(m)
      BY <1>1, <2>1, <2>3, <2>4, <2>7 DEF ConsoleTypeOK
    <3>2. pc'[Main] = "loop" /\ \A b \in Actor \ {Main} : pc'[b] = "rest"
      BY <1>1, <2>1, <2>7, Moves DEF Statement
    <3>3. LineEnded(m, i[Main])'
      BY <3>1 DEF LineEnded
    <3>4. FirstLine(m)'
      BY <2>3, <2>5, <3>1, <3>2, <3>3 DEF FirstLine
    <3> QED BY <3>2, <3>4 DEF FirstOK
  <2> QED BY <2>6, <2>7
<1> QED BY <1>2, <1>3

---------------------------------------------------------------------------
(* fb_putc.                                                                *)

Storing == {"switch", "load_row", "load_col", "store", "load_cx", "++cx"}

LEMMA PutcKeeps ==
    ASSUME ConsoleTypeOK, NEW a \in Actor, fb_putc(a)
    PROVE  /\ UNCHANGED <<printk_buf, msg, num, i, ch, todo, booted, texts>>
           /\ pc[a] \notin {"rest", "format", "loop"}
           /\ a = Main \/ booted
           /\ pc' \in [Actor -> Statement] /\ pc'[a] \notin {"rest", "format", "switch"}
           /\ \A b \in Actor \ {a} : pc'[b] = pc[b]
<1>1. /\ UNCHANGED <<printk_buf, msg, num, i, ch, todo, booted, texts>>
      /\ pc[a] \notin {"rest", "format", "loop"} /\ (a = Main \/ booted)
  BY DEF fb_putc, switch, load_row, load_col, store, load_cx, inc_cx, newline, load_cy,
         inc_cy, last_row, scroll, move_cursor, outw, At, locals, screen, ghosts
<1>2. \E p \in Statement \ {"rest", "format", "switch"} : Goto(a, p)
  BY DEF fb_putc, switch, load_row, load_col, store, load_cx, inc_cx, newline, load_cy,
         inc_cy, last_row, scroll, move_cursor, outw, tab, cls, backspace, return, linefeed, default, Statement
<1> QED BY <1>1, <1>2, Moves

LEMMA PutcText ==
    ASSUME ConsoleTypeOK, TextOK, NEW a \in Actor, fb_putc(a)
    PROVE  TextOK'
<1>1. /\ UNCHANGED <<printk_buf, msg, num, i, ch, texts>> /\ pc[a] \notin {"rest", "format"}
      /\ pc'[a] \notin {"rest", "format", "switch"} /\ \A b \in Actor \ {a} : pc'[b] = pc[b]
  BY PutcKeeps
<1>2. \A b \in Actor, n \in Int : Until(b, n) => Until(b, n)'
  BY <1>1 DEF Until
<1>3. ASSUME NEW b \in Actor PROVE WritesOK(b)'
  BY <1>1 DEF TextOK, WritesOK, Until, Text
<1>4. ASSUME NEW b \in Actor PROVE PrintsOK(b)'
  BY <1>1 DEF TextOK, PrintsOK, Until
<1> QED BY <1>3, <1>4 DEF TextOK

\* The statements of the check after ++cx and after cy++.
LEMMA PutcCursor ==
    ASSUME ConsoleTypeOK, CursorOK, NEW a \in Actor, fb_putc(a)
    PROVE  CursorOK'
<1>1. /\ \A b \in Actor \ {a} : pc'[b] = pc[b]
      /\ UNCHANGED booted
  BY PutcKeeps
<1>2. cx \in Nat /\ cy \in Nat /\ reg[a] \in Nat
  BY DEF ConsoleTypeOK
<1>3. cx' >= COL_CNT => \E b \in Actor : pc'[b] = "newline"
  <2>1. CASE switch(a)
    <3>1. pc[a] # "newline"
      BY <2>1 DEF switch, At
    <3>2. \A p \in Statement : Goto(a, p) => pc'[a] = p
      BY Moves
    <3>3. CASE tab(a)
      BY <1>2, <3>2, <3>3, Sizes DEF tab, Statement
    <3>4. CASE cls(a)
      BY <3>4, Sizes DEF cls
    <3>5. CASE backspace(a)
      BY <1>1, <1>2, <3>1, <3>5, Sizes DEF backspace, CursorOK
    <3>6. CASE return(a)
      BY <3>6, Sizes DEF return
    <3>7. CASE linefeed(a) \/ default(a)
      BY <1>1, <3>1, <3>7 DEF linefeed, default, CursorOK
    <3> QED BY <2>1, <3>3, <3>4, <3>5, <3>6, <3>7 DEF switch
  <2>2. CASE inc_cx(a)
    <3>1. \A p \in Statement : Goto(a, p) => pc'[a] = p
      BY Moves
    <3> QED BY <2>2, <3>1 DEF inc_cx, wraps, Statement
  <2>3. CASE newline(a)
    BY <2>3, Sizes DEF newline
  <2>4. CASE ~switch(a) /\ ~inc_cx(a) /\ ~newline(a)
    <3>1. UNCHANGED cx /\ pc[a] # "newline"
      BY <2>4 DEF fb_putc, load_row, load_col, store, load_cx, load_cy, inc_cy, last_row, scroll, move_cursor,
                  outw, At, screen
    <3> QED BY <1>1, <3>1 DEF CursorOK
  <2> QED BY <2>1, <2>2, <2>3, <2>4
<1>4. booted' /\ cy' >= ROW_CNT => \E b \in Actor : pc'[b] = "last_row"
  <2>1. CASE cls(a) /\ switch(a)
    BY <2>1, Sizes DEF cls
  <2>2. CASE inc_cy(a)
    <3>1. \A p \in Statement : Goto(a, p) => pc'[a] = p
      BY Moves
    <3> QED BY <2>2, <3>1 DEF inc_cy, Statement
  <2>3. CASE last_row(a)
    <3>1. cy' = ROW_CNT - 1
      BY <2>3 DEF last_row
    <3> QED BY <3>1, Sizes
  <2>4. CASE ~(cls(a) /\ switch(a)) /\ ~inc_cy(a) /\ ~last_row(a)
    <3>1. UNCHANGED cy /\ pc[a] # "last_row"
      BY <2>4 DEF fb_putc, switch, tab, backspace, return, linefeed, default, load_row, load_col, store, load_cx,
                  inc_cx, newline, load_cy, scroll, move_cursor, outw, At, screen
    <3> QED BY <1>1, <3>1 DEF CursorOK
  <2> QED BY <2>1, <2>2, <2>3, <2>4
<1> QED BY <1>3, <1>4 DEF CursorOK

LEMMA NextCharacter ==
    ASSUME NEW m, NEW n \in Nat, n # 0, LineEnded(m, n - 1), m[n] # LF
    PROVE  LineEnded(m, n)
<1>1. \A k \in 1 .. n : k = n \/ k \in 1 .. n - 1
  OBVIOUS
<1> QED BY <1>1 DEF LineEnded

LEMMA PutcFirst ==
    ASSUME ConsoleTypeOK, FirstOK, NEW a \in Actor, fb_putc(a)
    PROVE  FirstOK'
<1>1. /\ UNCHANGED <<printk_buf, msg, num, i, ch, todo, booted, texts>>
      /\ pc[a] \notin {"rest", "format", "loop"} /\ (a = Main \/ booted)
      /\ pc' \in [Actor -> Statement] /\ pc'[a] \notin {"rest", "format", "switch"}
      /\ \A b \in Actor \ {a} : pc'[b] = pc[b]
  BY PutcKeeps
<1>2. CASE booted
  BY <1>1, <1>2 DEF FirstOK
<1>3. CASE ~booted
  <2>1. a = Main /\ \A b \in Actor \ {Main} : pc'[b] = "rest"
    BY <1>1, <1>3 DEF FirstOK
  <2>2. PICK m \in Message : FirstLine(m)
    BY <1>1, <1>3, <2>1 DEF FirstOK
  <2>3. i[Main] \in Nat /\ cy \in Nat /\ reg[Main] \in Nat
    BY Sizes DEF ConsoleTypeOK
  <2>4. /\ pc'[Main] \in {"scroll", "move", "outw", "loop"} => LineEnded(m, i[Main])'
        /\ pc'[Main] \in {"load_row", "load_col", "store", "load_cx", "++cx"} =>
              /\ pc[Main] \in Storing /\ ch[Main] # LF /\ UNCHANGED cy
    <3>1. \A p \in Statement : Goto(Main, p) => pc'[Main] = p
      BY <2>1, Moves
    <3>2. ASSUME pc[Main] \in Storing, ch[Main] # LF PROVE LineEnded(m, i[Main])
      BY <2>2, <2>3, <3>2, NextCharacter DEF FirstLine, Storing
    <3>3. ASSUME pc[Main] \in {"scroll", "move", "outw"} PROVE LineEnded(m, i[Main])
      BY <2>2, <3>3 DEF FirstLine
    <3>4. ASSUME LineEnded(m, i[Main]), cy' = cy \/ cy' < ROW_CNT PROVE LineEnded(m, i[Main])'
      BY <1>1, <3>4 DEF LineEnded
    <3>5. ASSUME cy' < ROW_CNT PROVE LineEnded(m, i[Main])'
      BY <3>5 DEF LineEnded
    <3>6. CASE switch(a)
      <4>1. pc[Main] \in Storing
        BY <2>1, <3>6 DEF switch, At, Storing
      <4>2. CASE tab(a) \/ backspace(a) \/ return(a)
        <5>1. ch[Main] # LF /\ UNCHANGED cy /\ pc'[Main] \in {"newline", "move"}
          BY <2>1, <3>1, <4>2 DEF tab, backspace, return, LF, HT, BS, CR, Statement
        <5> QED BY <3>2, <3>4, <4>1, <5>1
      <4>3. CASE cls(a)
        <5>1. cy' < ROW_CNT /\ pc'[Main] = "move"
          BY <2>1, <3>1, <4>3, Sizes DEF cls, Statement
        <5> QED BY <3>5, <5>1
      <4>4. CASE linefeed(a)
        <5>1. pc'[Main] = "newline"
          BY <2>1, <3>1, <4>4 DEF linefeed, Statement
        <5> QED BY <5>1
      <4>5. CASE default(a)
        <5>1. pc'[Main] = "load_row" /\ ch[Main] # LF /\ UNCHANGED cy
          BY <2>1, <3>1, <4>5 DEF default, Statement
        <5> QED BY <4>1, <5>1
      <4> QED BY <3>6, <4>2, <4>3, <4>4, <4>5 DEF switch
    <3>7. CASE load_row(a) \/ load_col(a) \/ store(a) \/ load_cx(a)
      <4>1. /\ pc[Main] \in {"load_row", "load_col", "store", "load_cx"} /\ UNCHANGED cy
            /\ pc'[Main] \in {"load_col", "store", "load_cx", "++cx"}
        BY <2>1, <3>1, <3>7 DEF load_row, load_col, store, load_cx, At, screen, Statement
      <4> QED BY <2>2, <4>1 DEF FirstLine, Storing
    <3>8. CASE inc_cx(a)
      <4>1. pc[Main] = "++cx" /\ UNCHANGED cy /\ pc'[Main] \in {"newline", "move"}
        BY <2>1, <3>1, <3>8 DEF inc_cx, At, Statement
      <4>2. ch[Main] # LF
        BY <2>2, <4>1 DEF FirstLine
      <4> QED BY <3>2, <3>4, <4>1, <4>2 DEF Storing
    <3>9. CASE newline(a) \/ load_cy(a)
      <4>1. pc'[Main] \in {"load_cy", "cy++"}
        BY <2>1, <3>1, <3>9 DEF newline, load_cy, Statement
      <4> QED BY <4>1
    <3>10. CASE inc_cy(a)
      <4>1. \/ pc'[Main] = "last_row"
            \/ pc'[Main] = "move" /\ cy' \in Nat /\ ~(cy' >= ROW_CNT)
        BY <2>1, <2>3, <3>1, <3>10 DEF inc_cy, Statement
      <4>2. CASE pc'[Main] = "last_row"
        BY <4>2
      <4>3. CASE pc'[Main] = "move" /\ cy' \in Nat /\ ~(cy' >= ROW_CNT)
        BY <3>5, <4>3, Sizes
      <4> QED BY <4>1, <4>2, <4>3
    <3>11. CASE last_row(a)
      <4>1. cy' < ROW_CNT
        BY <3>11, Sizes DEF last_row
      <4>2. pc'[Main] = "scroll"
        BY <2>1, <3>1, <3>11 DEF last_row, Statement
      <4> QED BY <3>5, <4>1, <4>2
    <3>12. CASE scroll(a) \/ move_cursor(a) \/ outw(a)
      <4>1. /\ pc[Main] \in {"scroll", "move", "outw"} /\ UNCHANGED cy
            /\ pc'[Main] \in {"move", "outw", "loop"}
        BY <2>1, <3>1, <3>12 DEF scroll, move_cursor, outw, At, screen, Statement
      <4> QED BY <3>3, <3>4, <4>1
    <3> QED BY <3>6, <3>7, <3>8, <3>9, <3>10, <3>11, <3>12 DEF fb_putc
  <2>5. FirstLine(m)'
    <3>1. ASSUME pc'[Main] \in {"load_row", "load_col", "store", "load_cx", "++cx"}
          PROVE  i[Main] # 0 /\ ch[Main] = m[i[Main]] /\ LineEnded(m, i[Main] - 1)'
                 /\ ch[Main] # LF
      <4>1. pc[Main] \in Storing /\ ch[Main] # LF /\ UNCHANGED cy
        BY <2>4, <3>1
      <4>2. i[Main] # 0 /\ ch[Main] = m[i[Main]] /\ LineEnded(m, i[Main] - 1)
        BY <2>2, <4>1 DEF FirstLine, Storing
      <4> QED BY <1>1, <4>1, <4>2 DEF LineEnded
    <3>2. pc'[Main] \notin {"switch", "format"} /\ pc[Main] # "format"
      BY <1>1, <2>1
    <3> QED BY <1>1, <2>2, <2>4, <3>1, <3>2 DEF FirstLine
  <2> QED BY <1>1, <1>3, <2>1, <2>5 DEF FirstOK
<1> QED BY <1>2, <1>3

---------------------------------------------------------------------------
(* The loop of printk, and its return.                                     *)

LEMMA LoopMore ==
    ASSUME ConsoleTypeOK, TextOK, CursorOK, FirstOK, NEW a \in Actor, loop(a), more(a)
    PROVE  ConsoleTypeOK' /\ TextOK' /\ CursorOK' /\ FirstOK'
<1> DEFINE c == printk_buf[i[a] + 1]
<1>1. /\ pc[a] = "loop" /\ (a = Main \/ booted) /\ i[a] < num[a]
      /\ ch' = [ch EXCEPT ![a] = c] /\ i' = [i EXCEPT ![a] = i[a] + 1] /\ Goto(a, "switch")
      /\ overlapped' = (overlapped \/ \E b \in Actor \ {a} : Busy(b))
      /\ written' = IF overlapped' THEN <<>> ELSE Append(written, c)
      /\ UNCHANGED <<fb, cx, cy, hw_cursor, booted, printk_buf, msg, num, reg, todo, first_row,
                     texts>>
  BY DEF loop, more, At, screen
<1>2. /\ num[a] \in Nat /\ num[a] < BufSize /\ i[a] \in Nat
      /\ \A k \in 1 .. num[a] : Has(texts[a], k, printk_buf[k])
  BY <1>1 DEF TextOK, PrintsOK, Until, ConsoleTypeOK
<1>3. i[a] + 1 \in 1 .. num[a] /\ i[a] + 1 \in 1 .. BufSize
  BY <1>1, <1>2, Sizes
<1>4. c \in 0 .. 255
  <2>1. printk_buf \in [1 .. BufSize -> 0 .. 255]
    BY DEF ConsoleTypeOK
  <2> QED BY <1>3, <2>1, Zenon
<1>5. /\ pc' \in [Actor -> Statement] /\ pc'[a] = "switch"
      /\ \A b \in Actor \ {a} : pc'[b] = pc[b]
  BY <1>1, Moves DEF Statement
<1> HIDE DEF c
<1>6. /\ ch' \in [Actor -> 0 .. 255] /\ ch'[a] = c
      /\ i' \in [Actor -> Nat] /\ i'[a] = i[a] + 1
      /\ \A b \in Actor \ {a} : ch'[b] = ch[b] /\ i'[b] = i[b]
  <2>1. ch \in [Actor -> 0 .. 255] /\ i \in [Actor -> Nat] /\ i[a] + 1 \in Nat
    BY <1>2 DEF ConsoleTypeOK
  <2> QED BY <1>1, <1>4, <2>1
<1>7. written' \in Seq(0 .. 255) /\ overlapped' \in BOOLEAN
  <2>1. written \in Seq(0 .. 255) /\ overlapped \in BOOLEAN
    BY DEF ConsoleTypeOK
  <2>2. Append(written, c) \in Seq(0 .. 255) /\ <<>> \in Seq(0 .. 255)
    BY <1>4, <2>1
  <2>3. written' \in Seq(0 .. 255)
    BY <1>1, <2>2
  <2> QED BY <1>1, <2>1, <2>3
<1>8. ConsoleTypeOK'
  BY <1>1, <1>5, <1>6, <1>7 DEF ConsoleTypeOK, Statement
<1>9. TextOK'
  <2>1. Has(texts[a], i[a] + 1, c)
    BY <1>2, <1>3 DEF c
  <2>2. i[a] + 1 # 0 /\ i[a] + 1 <= num[a]
    BY <1>1, <1>2
  <2>3. PrintsOK(a)'
    BY <1>1, <1>2, <1>5, <1>6, <2>1, <2>2 DEF PrintsOK, Until
  <2>4. WritesOK(a)'
    BY <1>5 DEF WritesOK
  <2>5. ASSUME NEW b \in Actor \ {a} PROVE WritesOK(b)' /\ PrintsOK(b)'
    <3>1. \A d \in Actor : pc'[d] # "rest" => pc[d] # "rest"
      BY <1>1, <1>5
    <3>2. WritesOK(b)'
      BY <1>1, <1>5, <1>6, <3>1 DEF TextOK, WritesOK, Until, Text
    <3>3. PrintsOK(b)'
      BY <1>1, <1>5, <1>6 DEF TextOK, PrintsOK, Until
    <3> QED BY <3>2, <3>3
  <2> QED BY <2>3, <2>4, <2>5 DEF TextOK
<1>10. CursorOK'
  BY <1>1, <1>5 DEF CursorOK
<1>11. FirstOK'
  <2>1. CASE booted
    BY <1>1, <2>1 DEF FirstOK
  <2>2. CASE ~booted
    <3>1. a = Main /\ \A b \in Actor \ {Main} : pc'[b] = "rest"
      BY <1>1, <1>5, <2>2 DEF FirstOK
    <3>2. PICK m \in Message : FirstLine(m)
      BY <1>1, <2>2, <3>1 DEF FirstOK
    <3>7. num[Main] = Len(m) /\ \A k \in 1 .. Len(m) : printk_buf[k] = m[k]
      BY <1>1, <3>1, <3>2 DEF FirstLine
    <3>3. /\ i'[Main] # 0 /\ ch'[Main] = m[i'[Main]] /\ i'[Main] - 1 = i[Main]
      BY <1>2, <1>3, <1>6, <3>1, <3>7 DEF c
    <3>4. LineEnded(m, i[Main])
      BY <1>1, <3>1, <3>2 DEF FirstLine
    <3>5. LineEnded(m, i[Main] - 1)'
      BY <1>1, <3>3, <3>4 DEF LineEnded
    <3>6. FirstLine(m)'
      BY <1>1, <1>5, <3>1, <3>2, <3>3, <3>5 DEF FirstLine
    <3> QED BY <1>5, <3>1, <3>6 DEF FirstOK
  <2> QED BY <2>1, <2>2
<1> QED BY <1>8, <1>9, <1>10, <1>11

LEMMA LoopReturns ==
    ASSUME ConsoleTypeOK, TextOK, CursorOK, FirstOK, NEW a \in Actor, loop(a), ~more(a)
    PROVE  ConsoleTypeOK' /\ TextOK' /\ CursorOK' /\ FirstOK'
<1>1. /\ pc[a] = "loop" /\ (a = Main \/ booted) /\ ~(i[a] < num[a])
      /\ booted' = TRUE /\ Goto(a, "rest")
      /\ UNCHANGED <<fb, cx, cy, hw_cursor, printk_buf, msg, num, i, ch, reg, todo, first_row,
                     overlapped, written, texts>>
  BY DEF loop, more, At, screen
<1>2. /\ pc' \in [Actor -> Statement] /\ pc'[a] = "rest"
      /\ \A b \in Actor \ {a} : pc'[b] = pc[b]
  BY <1>1, Moves DEF Statement
<1>3. ConsoleTypeOK'
  BY <1>1, <1>2 DEF ConsoleTypeOK, Statement
<1>4. TextOK'
  <2>1. WritesOK(a)' /\ PrintsOK(a)'
    BY <1>2 DEF WritesOK, PrintsOK
  <2>2. ASSUME NEW b \in Actor \ {a} PROVE WritesOK(b)' /\ PrintsOK(b)'
    <3>1. \A c \in Actor : pc'[c] # "rest" => pc[c] # "rest"
      BY <1>1, <1>2
    <3>2. WritesOK(b)'
      BY <1>1, <1>2, <3>1 DEF TextOK, WritesOK, Until, Text
    <3>3. PrintsOK(b)'
      BY <1>1, <1>2 DEF TextOK, PrintsOK, Until
    <3> QED BY <3>2, <3>3
  <2> QED BY <2>1, <2>2 DEF TextOK
<1>5. ~booted => cy < ROW_CNT
  <2> SUFFICES ASSUME ~booted PROVE cy < ROW_CNT
    OBVIOUS
  <2>1. a = Main
    BY <1>1
  <2>2. PICK m \in Message : FirstLine(m)
    BY <1>1, <2>1 DEF FirstOK
  <2>3. LF \in Range(m) /\ num[Main] = Len(m) /\ LineEnded(m, i[Main])
    BY <1>1, <2>1, <2>2 DEF FirstLine
  <2>4. i[Main] = Len(m)
    <3>1. i[Main] \in Nat /\ num[Main] \in Nat /\ i[Main] <= num[Main]
      BY <1>1, <2>1, Sizes DEF TextOK, PrintsOK, ConsoleTypeOK
    <3> QED BY <1>1, <2>1, <2>3, <3>1
  <2>5. \E k \in 1 .. Len(m) : m[k] = LF
    <3>1. m \in Seq(0 .. 255)
      BY ConsoleAssumption
    <3> QED BY <2>3, <3>1, RangeEquality
  <2> QED BY <2>3, <2>4, <2>5 DEF LineEnded
<1>6. CursorOK'
  <2>1. cy \in Nat
    BY DEF ConsoleTypeOK
  <2> QED BY <1>1, <1>2, <1>5, <2>1, Sizes DEF CursorOK
<1>7. FirstOK'
  BY <1>1 DEF FirstOK
<1> QED BY <1>3, <1>4, <1>6, <1>7

\* A task's next message.
LEMMA Says ==
    ASSUME ConsoleTypeOK, TextOK, CursorOK, FirstOK, NEW t \in Task, Say(t)
    PROVE  ConsoleTypeOK' /\ TextOK' /\ CursorOK' /\ FirstOK'
<1> DEFINE s == Head(todo[t])
<1>1. /\ pc[t] = "rest" /\ (t = Main \/ booted) /\ todo[t] # <<>>
      /\ printk(t, s) /\ todo' = [todo EXCEPT ![t] = Tail(todo[t])]
  BY DEF Say, At
<1>2. todo[t] \in Seq(Message) /\ t \in Actor
  BY DEF ConsoleTypeOK, Actor
<1>3. s \in Message /\ Tail(todo[t]) \in Seq(Message)
  BY <1>1, <1>2
<1>4. s \in Text /\ todo' \in [Task -> Seq(Message)]
  BY <1>1, <1>3, MessagesAreTexts DEF ConsoleTypeOK
<1> HIDE DEF s
<1>5. ConsoleTypeOK' /\ TextOK' /\ CursorOK'
  BY <1>1, <1>2, <1>4, Begun
<1>6. FirstOK'
  <2>1. UNCHANGED booted /\ Goto(t, "format")
    BY <1>1 DEF printk
  <2>2. CASE booted
    BY <2>1, <2>2 DEF FirstOK
  <2>3. CASE ~booted
    <3>1. t = Main /\ LF \in Range(s)
      BY <1>1, <2>3 DEF FirstOK, s
    <3>2. pc'[Main] = "format" /\ \A b \in Actor \ {Main} : pc'[b] = "rest"
      BY <1>2, <2>1, <2>3, <3>1, Moves DEF FirstOK, Statement
    <3>3. msg'[Main] = s /\ i'[Main] = 0
      BY <1>1, <1>2, <3>1 DEF printk, ConsoleTypeOK
    <3>5. PICK m \in Message : m = s
      BY <1>3
    <3>6. FirstLine(m)'
      BY <3>1, <3>2, <3>3, <3>5 DEF FirstLine
    <3> QED BY <3>2, <3>6 DEF FirstOK
  <2> QED BY <2>2, <2>3
<1> QED BY <1>5, <1>6

---------------------------------------------------------------------------
(* The handler: what it prints is a character.                             *)

IsKeymap(km) == \A g \in km : g.first \in Nat /\ g.chars \in Seq(0 .. 127)

LEMMA Groups ==
    ASSUME NEW first \in Nat, NEW chars \in Seq(0 .. 127)
    PROVE  Group(first, chars).first \in Nat /\ Group(first, chars).chars \in Seq(0 .. 127)
  BY DEF Group

LEMMA Keymaps ==
    IsKeymap(invariant_keymap) /\ IsKeymap(unshifted_keymap) /\ IsKeymap(shifted_keymap)
<1>1. IsKeymap(invariant_keymap)
  <2>1. /\ <<27>> \in Seq(0 .. 127) /\ <<BS>> \in Seq(0 .. 127) /\ <<CR>> \in Seq(0 .. 127)
        /\ <<42>> \in Seq(0 .. 127) /\ <<32>> \in Seq(0 .. 127) /\ <<127>> \in Seq(0 .. 127)
    BY DEF BS, CR
  <2>2. <<HT, 81, 87, 69, 82, 84, 89, 85, 73, 79, 80>> \in Seq(0 .. 127)
    BY DEF HT
  <2>3. <<65, 83, 68, 70, 71, 72, 74, 75, 76>> \in Seq(0 .. 127)
    OBVIOUS
  <2>4. <<90, 88, 67, 86, 66, 78, 77>> \in Seq(0 .. 127)
    OBVIOUS
  <2>5. 1 \in Nat /\ 14 \in Nat /\ 15 \in Nat /\ 28 \in Nat /\ 30 \in Nat /\ 44 \in Nat
        /\ 55 \in Nat /\ 57 \in Nat /\ 83 \in Nat
    OBVIOUS
  <2>6. ASSUME NEW g \in invariant_keymap
        PROVE  \E first \in Nat : \E chars \in Seq(0 .. 127) : g = Group(first, chars)
    BY <2>1, <2>2, <2>3, <2>4, <2>5, ZenonT(40) DEF invariant_keymap
  <2> QED BY <2>6, Groups DEF IsKeymap
<1>2. IsKeymap(unshifted_keymap)
  <2>1. <<49, 50, 51, 52, 53, 54, 55, 56, 57, 48, 45, 61>> \in Seq(0 .. 127)
    OBVIOUS
  <2>2. /\ <<91, 93>> \in Seq(0 .. 127) /\ <<59, 39, 96>> \in Seq(0 .. 127)
        /\ <<92>> \in Seq(0 .. 127) /\ <<44, 46, 47>> \in Seq(0 .. 127)
    OBVIOUS
  <2>3. 2 \in Nat /\ 26 \in Nat /\ 39 \in Nat /\ 43 \in Nat /\ 51 \in Nat
    OBVIOUS
  <2>4. ASSUME NEW g \in unshifted_keymap
        PROVE  \E first \in Nat : \E chars \in Seq(0 .. 127) : g = Group(first, chars)
    BY <2>1, <2>2, <2>3, ZenonT(40) DEF unshifted_keymap
  <2> QED BY <2>4, Groups DEF IsKeymap
<1>3. IsKeymap(shifted_keymap)
  <2>1. <<33, 64, 35, 36, 37, 94, 38, 42, 40, 41, 95, 43>> \in Seq(0 .. 127)
    OBVIOUS
  <2>2. /\ <<123, 125>> \in Seq(0 .. 127) /\ <<58, 34, 126>> \in Seq(0 .. 127)
        /\ <<124>> \in Seq(0 .. 127) /\ <<60, 62, 63>> \in Seq(0 .. 127)
    OBVIOUS
  <2>3. 2 \in Nat /\ 26 \in Nat /\ 39 \in Nat /\ 43 \in Nat /\ 51 \in Nat
    OBVIOUS
  <2>4. ASSUME NEW g \in shifted_keymap
        PROVE  \E first \in Nat : \E chars \in Seq(0 .. 127) : g = Group(first, chars)
    BY <2>1, <2>2, <2>3, ZenonT(40) DEF shifted_keymap
  <2> QED BY <2>4, Groups DEF IsKeymap
<1> QED BY <1>1, <1>2, <1>3

LEMMA MapsToCharacters ==
    ASSUME NEW km, IsKeymap(km), NEW code \in Int, NEW c \in map_scan_code(km, code)
    PROVE  c \in 0 .. 127
<1>1. PICK g \in km : in_group(g, code) /\ c = Append(g.chars, NUL)[code - g.first + 1]
  BY DEF map_scan_code
<1>2. g.first \in Nat /\ g.chars \in Seq(0 .. 127) /\ Len(g.chars) \in Nat
  BY DEF IsKeymap
<1>3. code - g.first + 1 \in 1 .. Len(g.chars)
  BY <1>1, <1>2 DEF in_group
<1>4. c = g.chars[code - g.first + 1]
  BY <1>1, <1>2, <1>3
<1> QED BY <1>2, <1>3, <1>4, ElementOfSeq

LEMMA Characters ==
    ASSUME NEW c \in 0 .. 127
    PROVE  character(c) \in 0 .. 255
<1> DEFINE d == IF ctrl /\ c >= 64 /\ c < 96 THEN c - 64
                ELSE IF shift = caps_locks THEN tolower(c) ELSE c
<1>1. d \in 0 .. 127
  BY DEF tolower, isupper
<1>2. character(c) = IF alt THEN d + 128 ELSE d
  BY DEF character
<1> HIDE DEF d
<1> QED BY <1>1, <1>2

\* The character of a code, with the flags as they are.
Letter(code) == character(CHOOSE c \in printing(code) : TRUE)

LEMMA Prints ==
    ASSUME NEW code \in Int, printing(code) # {}
    PROVE  Letter(code) \in 0 .. 255
<1>1. PICK c : c = CHOOSE d \in printing(code) : TRUE
  OBVIOUS
<1>2. c \in printing(code)
  BY <1>1
<1>3. c \in 0 .. 127
  BY <1>2, Keymaps, MapsToCharacters DEF printing
<1>4. character(c) \in 0 .. 255
  BY <1>3, Characters
<1> QED BY <1>1, <1>4, Zenon DEF Letter

FlagsOK == /\ flag \in [Modifier -> BOOLEAN] /\ caps_locks \in BOOLEAN
           /\ typed \in Seq(0 .. 255)

\* The two halves of a code, and what is done with it.
Release7(scan_code) == scan_code % 256 >= 128
KeyOf(scan_code)    == IF Release7(scan_code) THEN scan_code - 128 ELSE scan_code

LEMMA Handles ==
    ASSUME NEW scan_code \in Nat, handle(scan_code)
    PROVE  \/ /\ KeyOf(scan_code) = 58
              /\ caps_locks' = IF Release7(scan_code) THEN caps_locks ELSE ~caps_locks
              /\ UNCHANGED <<flag, typed, console_vars>>
           \/ /\ KeyOf(scan_code) # 58 /\ printing(KeyOf(scan_code)) # {}
              /\ UNCHANGED <<flag, caps_locks>>
              /\ \/ Release7(scan_code) /\ UNCHANGED <<typed, console_vars>>
                 \/ /\ ~Release7(scan_code)
                    /\ typed' = Append(typed, Letter(KeyOf(scan_code)))
                    /\ Letter(KeyOf(scan_code)) \in 0 .. 255
                    /\ printk(Handler, <<Letter(KeyOf(scan_code))>>) /\ UNCHANGED todo
           \/ /\ KeyOf(scan_code) # 58 /\ printing(KeyOf(scan_code)) = {}
              /\ flag' = [k \in Modifier |-> IF k \in special(KeyOf(scan_code))
                                             THEN ~Release7(scan_code) ELSE flag[k]]
              /\ UNCHANGED <<caps_locks, typed, console_vars>>
<1> DEFINE code == KeyOf(scan_code)
<1>1. code \in Int
  BY DEF KeyOf
<1>2. CASE code = 58
  BY <1>2 DEF handle, KeyOf, Release7
<1>3. CASE code # 58 /\ printing(code) # {}
  <2>1. /\ UNCHANGED <<flag, caps_locks>>
        /\ \/ Release7(scan_code) /\ UNCHANGED <<typed, console_vars>>
           \/ /\ ~Release7(scan_code)
              /\ typed' = Append(typed, Letter(code))
              /\ printk(Handler, <<Letter(code)>>) /\ UNCHANGED todo
    BY <1>3, ZenonT(40) DEF handle, KeyOf, Release7, Letter
  <2>2. Letter(code) \in 0 .. 255
    BY <1>1, <1>3, Prints
  <2> QED BY <1>3, <2>1, <2>2
<1>4. CASE code # 58 /\ printing(code) = {}
  BY <1>4, Zenon DEF handle, KeyOf, Release7
<1> QED BY <1>2, <1>3, <1>4

ConsoleInv == ConsoleTypeOK /\ TextOK /\ CursorOK /\ FirstOK

DeviceOK ==
    /\ queue \in Seq(0 .. 255) /\ data \in 0 .. 255 /\ irq \in BOOLEAN
    /\ held \subseteq Key /\ caps \in BOOLEAN
    /\ keys \subseteq Key /\ presses \in Nat /\ mistimed \in BOOLEAN
    /\ meant \in Seq(0 .. Unclaimed)

LEMMA InvIs == IInv <=> ConsoleInv /\ FlagsOK /\ DeviceOK
  BY DEF IInv, TypeOK, ConsoleInv, FlagsOK, DeviceOK

LEMMA ConsoleStays ==
    ASSUME ConsoleInv, UNCHANGED console_vars
    PROVE  ConsoleInv'
<1>1. UNCHANGED <<fb, cx, cy, hw_cursor, printk_buf, pc, msg, num, i, ch, reg, todo, booted,
                  first_row, overlapped, written, texts>>
  BY DEF console_vars, screen, locals, ghosts
<1>2. ConsoleTypeOK'
  BY <1>1 DEF ConsoleInv, ConsoleTypeOK
<1>3. TextOK'
  BY <1>1 DEF ConsoleInv, TextOK, WritesOK, PrintsOK, Until, Text
<1>4. CursorOK'
  BY <1>1 DEF ConsoleInv, CursorOK
<1>5. FirstOK'
  BY <1>1 DEF ConsoleInv, FirstOK, FirstLine, LineEnded
<1> QED BY <1>2, <1>3, <1>4, <1>5 DEF ConsoleInv

LEMMA HandlerPrints ==
    ASSUME ConsoleInv, booted, pc[Handler] = "rest", NEW c \in 0 .. 255,
           printk(Handler, <<c>>), UNCHANGED todo
    PROVE  ConsoleInv'
<1>1. <<c>> \in Text
  BY Sizes DEF Text
<1>2. todo' \in [Task -> Seq(Message)]
  BY DEF ConsoleInv, ConsoleTypeOK
<1>3. ConsoleTypeOK' /\ TextOK' /\ CursorOK'
  BY <1>1, <1>2, Begun, Sizes DEF ConsoleInv
<1>4. booted'
  BY DEF printk
<1> QED BY <1>3, <1>4 DEF ConsoleInv, FirstOK

LEMMA HandleKeeps ==
    ASSUME ConsoleInv, FlagsOK, booted, pc[Handler] = "rest", NEW scan_code \in Nat,
           handle(scan_code)
    PROVE  ConsoleInv' /\ FlagsOK'
<1>1. ConsoleInv'
  BY Handles, HandlerPrints, ConsoleStays
<1>2. FlagsOK'
  <2>0. typed' \in Seq(0 .. 255)
    <3>1. \/ UNCHANGED typed
          \/ \E c \in 0 .. 255 : typed' = Append(typed, c)
      BY Handles
    <3>2. typed \in Seq(0 .. 255)
      BY DEF FlagsOK
    <3>3. ASSUME NEW c \in 0 .. 255 PROVE Append(typed, c) \in Seq(0 .. 255)
      BY <3>2, AppendProperties
    <3> QED BY <3>1, <3>2, <3>3
  <2>1. CASE UNCHANGED <<flag, caps_locks>>
    BY <2>0, <2>1 DEF FlagsOK
  <2>2. CASE UNCHANGED flag /\ caps_locks' = IF Release7(scan_code) THEN caps_locks ELSE ~caps_locks
    BY <2>0, <2>2 DEF FlagsOK
  <2>3. CASE /\ flag' = [k \in Modifier |-> IF k \in special(KeyOf(scan_code))
                                            THEN ~Release7(scan_code) ELSE flag[k]]
             /\ UNCHANGED caps_locks
    <3>1. ASSUME NEW k \in Modifier
          PROVE  (IF k \in special(KeyOf(scan_code)) THEN ~Release7(scan_code) ELSE flag[k]) \in BOOLEAN
      BY Zenon DEF FlagsOK, Release7
    <3>2. flag' \in [Modifier -> BOOLEAN]
      BY <2>3, <3>1, Zenon
    <3> QED BY <2>0, <2>3, <3>2 DEF FlagsOK
  <2> QED BY <2>1, <2>2, <2>3, Handles
<1> QED BY <1>1, <1>2

LEMMA HandlerStep ==
    ASSUME IInv, kbd_interrupt
    PROVE  IInv'
<1>1. ConsoleInv /\ FlagsOK /\ DeviceOK /\ booted /\ pc[Handler] = "rest"
      /\ UNCHANGED <<held, caps, keys, presses, meant>>
  BY InvIs DEF kbd_interrupt, user
<1>2. queue \in Seq(0 .. 255) /\ Len(queue) \in Nat /\ data \in 0 .. 255 /\ mistimed \in BOOLEAN
      /\ \A k \in 1 .. Len(queue) : queue[k] \in 0 .. 255
  <2>1. queue \in Seq(0 .. 255) /\ data \in 0 .. 255 /\ mistimed \in BOOLEAN
    BY <1>1 DEF DeviceOK
  <2> QED BY <2>1, ElementOfSeq
<1>3. Left(1) \in Seq(0 .. 255) /\ Left(2) \in Seq(0 .. 255)
  BY <1>2, SubSeqProperties DEF Left
<1>4. CASE read_one
  <2> DEFINE byte == IF queue = <<>> THEN data ELSE queue[1]
  <2>1. /\ queue' = Left(1) /\ data' = byte /\ irq' = (queue' # <<>>) /\ handle(byte)
        /\ UNCHANGED mistimed
    BY <1>4 DEF read_one
  <2>2. byte \in 0 .. 255
    BY <1>2
  <2> HIDE DEF byte
  <2>3. ConsoleInv' /\ FlagsOK'
    BY <1>1, <2>1, <2>2, HandleKeeps
  <2>4. DeviceOK'
    BY <1>1, <1>3, <2>1, <2>2 DEF DeviceOK
  <2> QED BY <2>3, <2>4, InvIs, PTL
<1>5. CASE read_both
  <2>1. /\ Len(queue) >= 2 /\ queue' = Left(2) /\ data' = queue[2]
        /\ irq' \in {queue' # <<>>, TRUE}
        /\ mistimed' = (mistimed \/ irq' # (queue' # <<>>))
        /\ handle(E0 * 256 + queue[2])
    BY <1>5 DEF read_both
  <2>2. queue[2] \in 0 .. 255
    BY <1>2, <2>1
  <2>6. E0 * 256 + queue[2] \in Nat
    BY <2>2 DEF E0
  <2>3. ConsoleInv' /\ FlagsOK'
    BY <1>1, <2>1, <2>6, HandleKeeps
  <2>4. irq' \in BOOLEAN /\ mistimed' \in BOOLEAN
    BY <1>2, <2>1
  <2>5. DeviceOK'
    BY <1>1, <1>3, <2>1, <2>2, <2>4 DEF DeviceOK
  <2> QED BY <2>3, <2>5, InvIs, PTL
<1>6. CASE read_prefix
  <2>1. /\ queue' = Left(1) /\ data' = E0 /\ irq' = TRUE /\ mistimed' = TRUE
        /\ handle(E0 * 256 + E0)
    BY <1>6 DEF read_prefix
  <2>2. ConsoleInv' /\ FlagsOK'
    BY <1>1, <2>1, HandleKeeps DEF E0
  <2>3. DeviceOK'
    BY <1>1, <1>3, <2>1 DEF DeviceOK, E0
  <2> QED BY <2>2, <2>3, InvIs, PTL
<1> QED BY <1>4, <1>5, <1>6 DEF kbd_interrupt

---------------------------------------------------------------------------
(* The user.                                                               *)

LEMMA CodeIs ==
    /\ Code["two"] = 3 /\ Code["backspace"] = 14 /\ Code["tab"] = 15
    /\ Code["rbracket"] = 27 /\ Code["enter"] = 28 /\ Code["a"] = 30 /\ Code["l"] = 38
    /\ Code["lctrl"] = 29 /\ Code["lshift"] = 42 /\ Code["rshift"] = 54
    /\ Code["lalt"] = 56 /\ Code["caps"] = 58 /\ Code["rctrl"] = 29
    /\ Code["ralt"] = 56 /\ Code["kpenter"] = 28
  BY DEF Code

LEMMA Codes ==
    ASSUME NEW k \in DOMAIN Code
    PROVE  Code[k] \in 1 .. 58
<1>1. k \in {"two", "backspace", "tab", "rbracket", "enter", "a", "l", "lctrl", "lshift",
             "rshift", "lalt", "caps", "rctrl", "ralt", "kpenter"}
  BY DEF Code
<1> QED BY <1>1, CodeIs

LEMMA Meanings ==
    ASSUME NEW k, NEW down, NEW lock
    PROVE  Meaning(k, down, lock) \in 0 .. 255
<1> DEFINE shifted == down \cap Shift # {}
           control == down \cap {"lctrl", "rctrl"} # {}
           plain   == CASE k = "a" -> IF control THEN 1 ELSE IF shifted # lock THEN 65 ELSE 97
                        [] k = "l" -> IF control THEN FF ELSE IF shifted # lock THEN 76 ELSE 108
                        [] k = "two" -> IF ~shifted THEN 50 ELSE IF control THEN 0 ELSE 64
                        [] k = "rbracket" -> IF shifted THEN 125 ELSE IF control THEN 29 ELSE 93
                        [] k = "enter" -> CR
                        [] k = "backspace" -> BS
                        [] OTHER -> HT
<1>1. Meaning(k, down, lock) = IF down \cap {"lalt", "ralt"} = {} THEN plain ELSE plain + 128
  BY Zenon DEF Meaning
<1> HIDE DEF shifted, control
<1>2. plain \in 0 .. 127
  BY DEF FF, CR, BS, HT
<1> HIDE DEF plain
<1> QED BY <1>1, <1>2

LEMMA Sends ==
    ASSUME IInv, NEW k \in Key, NEW code \in 0 .. 255, Send(Bytes(k, code)),
           held' \subseteq Key, caps' \in BOOLEAN, presses' \in Nat, meant' \in Seq(0 .. Unclaimed)
    PROVE  IInv'
<1>1. ConsoleInv /\ FlagsOK /\ DeviceOK
  BY InvIs
<1>2. /\ queue' = queue \o Bytes(k, code) /\ irq' = TRUE
      /\ UNCHANGED <<console_vars, flag, caps_locks, typed, data, keys, mistimed>>
  BY DEF Send
<1>3. Bytes(k, code) \in Seq(0 .. 255)
  <2>1. <<E0, code>> \in Seq(0 .. 255) /\ <<code>> \in Seq(0 .. 255)
    BY DEF E0
  <2> QED BY <2>1 DEF Bytes
<1>4. queue' \in Seq(0 .. 255)
  BY <1>1, <1>2, <1>3, ConcatProperties DEF DeviceOK
<1>5. DeviceOK'
  BY <1>1, <1>2, <1>4 DEF DeviceOK
<1>6. ConsoleInv' /\ FlagsOK'
  BY <1>1, <1>2, ConsoleStays DEF FlagsOK
<1> QED BY <1>5, <1>6, InvIs, PTL

LEMMA UserStep ==
    ASSUME IInv, NEW k \in Key, Press(k) \/ Release(k)
    PROVE  IInv'
<1>1. held \subseteq Key /\ caps \in BOOLEAN /\ presses \in Nat /\ meant \in Seq(0 .. Unclaimed)
  BY DEF IInv, TypeOK
<1>2. Code[k] \in 0 .. 255 /\ Code[k] + 128 \in 0 .. 255
  <2>1. k \in DOMAIN Code
    BY KeyboardAssumption
  <2> QED BY <2>1, Codes
<1>3. CASE Press(k)
  <2>1. /\ Send(Bytes(k, Code[k])) /\ held' = held \cup {k} /\ presses > 0
        /\ caps' = (IF k = "caps" THEN ~caps ELSE caps) /\ presses' = presses - 1
        /\ meant' = IF k \in Modifier \cup {"caps", "kpenter"} THEN meant
                    ELSE Append(meant, IF Crossed(held) THEN Unclaimed
                                       ELSE Meaning(k, held, caps))
    BY <1>3 DEF Press
  <2>2. caps' \in BOOLEAN
    BY <1>1, <2>1, Zenon
  <2>3. presses' \in Nat
    BY <1>1, <2>1
  <2>4. held' \subseteq Key
    BY <1>1, <2>1
  <2>5. meant' \in Seq(0 .. Unclaimed)
    <3>1. (IF Crossed(held) THEN Unclaimed ELSE Meaning(k, held, caps)) \in 0 .. Unclaimed
      BY Meanings DEF Unclaimed
    <3> QED BY <1>1, <2>1, <3>1, AppendProperties
  <2> QED BY <1>2, <2>1, <2>2, <2>3, <2>4, <2>5, Sends
<1>4. CASE Release(k)
  <2>1. Send(Bytes(k, Code[k] + 128)) /\ held' = held \ {k} /\ UNCHANGED <<caps, presses, meant>>
    BY <1>4 DEF Release
  <2>2. held' \subseteq Key /\ caps' \in BOOLEAN /\ presses' \in Nat /\ meant' \in Seq(0 .. Unclaimed)
    BY <1>1, <2>1
  <2> QED BY <1>2, <2>1, <2>2, Sends
<1> QED BY <1>3, <1>4

---------------------------------------------------------------------------
(* The invariant.                                                          *)

LEMMA ConsoleStep ==
    ASSUME IInv, console
    PROVE  IInv'
<1>1. ConsoleInv /\ FlagsOK /\ DeviceOK
  BY InvIs
<1>2. FlagsOK' /\ DeviceOK'
  BY <1>1 DEF console, device, user, FlagsOK, DeviceOK
<1>3. ASSUME NEW a \in Actor, fb_putc(a) PROVE ConsoleInv'
  BY <1>1, <1>3, PutcType, PutcText, PutcCursor, PutcFirst DEF ConsoleInv
<1>4. ASSUME NEW a \in Actor, loop(a) PROVE ConsoleInv'
  BY <1>1, <1>4, LoopMore, LoopReturns DEF ConsoleInv
<1>5. ASSUME NEW t \in Task, Say(t) PROVE ConsoleInv'
  BY <1>1, <1>5, Says DEF ConsoleInv
<1>6. ASSUME NEW a \in Actor, format(a) PROVE ConsoleInv'
  BY <1>1, <1>6, FormatKeeps, FormatFirst DEF ConsoleInv
<1>7. ConsoleInv'
  BY <1>3, <1>4, <1>5, <1>6 DEF console
<1> QED BY <1>2, <1>7, InvIs, PTL

LEMMA Initially == Init => IInv
<1> SUFFICES ASSUME Init PROVE IInv
  OBVIOUS
<1>1. ConsoleInit
  BY DEF Init
<1>2. PICK w \in Workload : todo = w.messages /\ keys = w.keys /\ presses = w.MaxPress
  BY DEF Init
<1>3. PICK y \in BiosRow : cy = y + 3 /\ cx = 0 /\ hw_cursor = COL_CNT * cy /\ first_row = cy
  BY <1>1 DEF ConsoleInit, init_cursor
<1>4. y \in Nat /\ cy \in Nat
  BY <1>3, ConsoleAssumption
<1>5. hw_cursor \in Nat
  <2>1. 0 + COL_CNT * cy \in Nat
    BY <1>4, Position
  <2>2. COL_CNT * cy \in Int
    BY <1>4, Sizes
  <2> QED BY <1>3, <2>1, <2>2
<1>6. ConsoleTypeOK
  <2>1. /\ fb \in [Cell -> 0 .. 255] /\ printk_buf \in [1 .. BufSize -> 0 .. 255]
    BY <1>1 DEF ConsoleInit, Blank, NUL
  <2>2. /\ num \in [Actor -> Nat] /\ i \in [Actor -> Nat] /\ ch \in [Actor -> 0 .. 255]
        /\ reg \in [Actor -> Nat]
    BY <1>1 DEF ConsoleInit
  <2>7. msg \in [Actor -> Seq(0 .. 255)]
    <3>1. <<>> \in Seq(0 .. 255) /\ msg = [a \in Actor |-> <<>>]
      BY <1>1 DEF ConsoleInit
    <3> QED BY <3>1
  <2>3. pc \in [Actor -> Statement]
    BY <1>1 DEF ConsoleInit, Statement
  <2>4. todo \in [Task -> Seq(Message)]
    BY <1>2, KeyboardAssumption
  <2>5. texts \in [Actor -> SUBSET Seq(0 .. 255)]
    <3>1. {} \in SUBSET Seq(0 .. 255)
      OBVIOUS
    <3>2. texts = [a \in Actor |-> {}]
      BY <1>1, Zenon DEF ConsoleInit
    <3>3. ASSUME NEW a \in Actor PROVE {} \in SUBSET Seq(0 .. 255)
      BY <3>1
    <3> QED BY <3>2, <3>3, Zenon
  <2>6. written \in Seq(0 .. 255) /\ booted \in BOOLEAN /\ overlapped \in BOOLEAN
    <3>1. written = <<>> /\ booted = FALSE /\ overlapped = FALSE
      BY <1>1, Zenon DEF ConsoleInit
    <3>2. <<>> \in Seq(0 .. 255)
      OBVIOUS
    <3> QED BY <3>1, <3>2
  <2> QED BY <1>3, <1>4, <1>5, <2>1, <2>2, <2>3, <2>4, <2>5, <2>6, <2>7
        DEF ConsoleTypeOK, Statement
<1>7. \A a \in Actor : pc[a] = "rest"
  BY <1>1 DEF ConsoleInit
<1>8. TextOK
  BY <1>7 DEF TextOK, WritesOK, PrintsOK
<1>9. CursorOK
  BY <1>1, <1>3, Sizes DEF CursorOK, ConsoleInit
<1>10. FirstOK
  BY <1>2, <1>7, KeyboardAssumption, Sizes DEF FirstOK
<1>11. FlagsOK
  <2>1. flag = [k \in Modifier |-> FALSE] /\ caps_locks = FALSE /\ typed = <<>>
    BY DEF Init
  <2>2. flag \in [Modifier -> BOOLEAN] /\ caps_locks \in BOOLEAN
    BY <2>1, Zenon
  <2> QED BY <2>1, <2>2 DEF FlagsOK
<1>12. DeviceOK
  <2>1. /\ queue = <<>> /\ data = 0 /\ irq = FALSE /\ held = {} /\ caps = FALSE /\ mistimed = FALSE
        /\ meant = <<>>
    BY DEF Init
  <2>2. keys \subseteq Key /\ presses \in Nat
    BY <1>2, KeyboardAssumption
  <2>3. <<>> \in Seq(0 .. 255) /\ <<>> \in Seq(0 .. Unclaimed) /\ 0 \in 0 .. 255
    OBVIOUS
  <2>4. FALSE \in BOOLEAN
    OBVIOUS
  <2>5. {} \subseteq Key
    OBVIOUS
  <2> QED BY <2>1, <2>2, <2>3, <2>4, <2>5, Zenon DEF DeviceOK
<1> QED BY <1>6, <1>8, <1>9, <1>10, <1>11, <1>12, InvIs DEF ConsoleInv

LEMMA Steps ==
    ASSUME IInv, [Next]_vars
    PROVE  IInv'
<1>1. CASE UNCHANGED vars
  <2>1. ConsoleInv /\ FlagsOK /\ DeviceOK
    BY InvIs
  <2>2. FlagsOK' /\ DeviceOK'
    BY <1>1, <2>1 DEF vars, device, user, FlagsOK, DeviceOK
  <2>3. ConsoleInv'
    BY <1>1, <2>1, ConsoleStays DEF vars
  <2> QED BY <2>2, <2>3, InvIs, PTL
<1>2. CASE console
  BY <1>2, ConsoleStep
<1>3. CASE kbd_interrupt
  BY <1>3, HandlerStep
<1>4. CASE \E k \in Key : Press(k) \/ Release(k)
  BY <1>4, UserStep
<1> QED BY <1>1, <1>2, <1>3, <1>4 DEF Next

LEMMA Invariance == Spec => []IInv
<1>1. IInv /\ [Next]_vars => IInv'
  BY Steps
<1> QED BY <1>1, Initially, PTL DEF Spec

\* Every variable of the console and the keyboard keeps its kind, whatever the
\* tasks and the handler do to the cursor and to printk_buf at the same time.
THEOREM TypeCorrect == Spec => []TypeOK
<1>1. IInv => TypeOK
  BY DEF IInv
<1> QED BY <1>1, Invariance, PTL

\* fb_putc takes a row or a column outside the screen only while somebody else is
\* about to move the cursor back, and the cursor is on the screen when nobody is
\* in fb_putc.
THEOREM CursorReturns == Spec => []CursorKept
<1>1. IInv => CursorKept
  <2> SUFFICES ASSUME IInv PROVE CursorKept
    OBVIOUS
  <2>1. CursorOK /\ cx \in Nat /\ cy \in Nat
    BY DEF IInv, TypeOK, ConsoleTypeOK
  <2>2. ASSUME NEW a \in Actor
        PROVE  /\ pc[a] = "load_row" /\ cy >= ROW_CNT =>
                     ~booted \/ \E b \in Actor \ {a} : pc[b] = "last_row"
               /\ pc[a] = "load_col" /\ cx >= COL_CNT =>
                     \E b \in Actor \ {a} : pc[b] = "newline"
    BY <2>1, <2>2 DEF CursorOK
  <2>3. ASSUME \A a \in Actor : ~Busy(a) PROVE cx < COL_CNT /\ (booted => cy < ROW_CNT)
    <3>1. \A a \in Actor : pc[a] # "newline" /\ pc[a] # "last_row"
      BY <2>3 DEF Busy
    <3> QED BY <2>1, <3>1, Sizes DEF CursorOK
  <2> QED BY <2>2, <2>3 DEF CursorKept
<1> QED BY <1>1, Invariance, PTL

\* printk shows at each position a character of its own message or of one that
\* was written since it began, or that one's terminator, whoever shares its
\* buffer, and however the characters of several vsprintf alternate.
THEOREM TextShown == Spec => []TextOfSomeMessage
<1>1. IInv => TextOfSomeMessage
  <2> SUFFICES ASSUME IInv, NEW a \in Actor, pc[a] = "switch"
               PROVE  \/ \E m \in texts[a] : i[a] \in DOMAIN m /\ ch[a] = m[i[a]]
                      \/ ch[a] = NUL /\ i[a] <= num[a] /\ \E m \in texts[a] : Len(m) + 1 = i[a]
    BY DEF TextOfSomeMessage
  <2>1. i[a] <= num[a] /\ Has(texts[a], i[a], ch[a])
    BY DEF IInv, TextOK, PrintsOK
  <2>2. \A m \in texts[a] : m \in Seq(0 .. 255)
    BY Zenon DEF IInv, TypeOK, ConsoleTypeOK
  <2>3. \A m \in texts[a] : DOMAIN m = 1 .. Len(m)
    BY <2>2
  <2> QED BY <2>1, <2>3 DEF Has
<1> QED BY <1>1, Invariance, PTL
=============================================================================
