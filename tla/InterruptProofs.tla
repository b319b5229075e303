-------------------------- MODULE InterruptProofs --------------------------
(***************************************************************************)
(* What holds of the interrupts for every set of tasks, any number of      *)
(* writers among them, any depth of nesting and however often the devices  *)
(* call.                                                                   *)
(***************************************************************************)
EXTENDS Interrupts, FiniteSetTheorems, SequenceTheorems, TLAPS

BootPC == {"init_interrupt", "hw_timer_init", "serial_init", "kbd_init",
           "sched_init", "ide_init"}

RecordType == [irq : Line \cup {TASK}, pc : PC, left : {0, 1}]

\* The record at the bottom of t's stack is t's own: main starts the machine,
\* and the writers call serial_putc.
OwnOK(t, r) ==
    /\ r.irq = TASK
    /\ r.pc \in BootPC => t = Main
    /\ r.pc \in {"down", "poll", "up"} => t \in Writer
    /\ r.pc \in BootPC \cup {"user", "down", "poll", "up"}

\* The others are handlers, of which only the serial port's writes.
HandlerOK(r) ==
    /\ r.irq \in Line
    /\ r.pc \in {"down", "poll", "up"} => r.irq = SERIAL
    /\ r.pc \in {"down", "poll", "up", "entry", "isr", "eoi", "test", "iret"}

StacksOK ==
    /\ stack \in [Task -> Seq(RecordType)]
    /\ \A t \in Task :
          /\ Len(stack[t]) \in 1 .. MaxDepth + 1
          /\ OwnOK(t, stack[t][1])
          /\ \A i \in 2 .. Len(stack[t]) : HandlerOK(stack[t][i])
    /\ \A t \in Task : putc[t] > 0 => t \in Writer

\* What no interrupt comes between: every handler but the serial port's up to
\* its `test', and that one until it writes.
Atomic(r) == /\ r.irq \in Line
             /\ \/ r.pc \in {"entry", "isr"}
                \/ r.irq # SERIAL /\ r.pc \in {"eoi", "test"}

AtomicOK ==
    \A t \in Task : \A i \in 2 .. Len(stack[t]) :
        Atomic(stack[t][i]) => t = cur /\ i = Len(stack[t]) /\ ~IF_flag

\* The record (t, i) has not ended the interrupt of line l.
Serves(t, i, l) == /\ t \in Task /\ i \in 2 .. Len(stack[t])
                   /\ stack[t][i].irq = l /\ stack[t][i].pc \notin {"test", "iret"}
Served(l) == \E t \in Task : \E i \in 2 .. Len(stack[t]) : Serves(t, i, l)

Masters == {MasterLine(l) : l \in {m \in Line : Served(m)}}
Slaves  == {l \in Line : l >= 8 /\ Served(l)}

\* One record serves a line.
Alone ==
    \A l \in Line : \A t, u \in Task : \A i \in 2 .. Len(stack[t]), j \in 2 .. Len(stack[u]) :
        Serves(t, i, l) /\ Serves(u, j, l) => t = u /\ i = j

BitsOK == Alone /\ master = Masters /\ slave = Slaves

Booting(pcs) == stack[Main][1].pc \in pcs
Quiet        == Booting({"init_interrupt", "hw_timer_init", "serial_init"})
Unscheduled  == Quiet \/ Booting({"kbd_init", "sched_init"})

\* What main has not started yet.
BootOK ==
    /\ Quiet => /\ ~IF_flag /\ ~crashed
                /\ \A t \in Task : Len(stack[t]) = 1
    /\ Unscheduled => /\ ready = <<>> /\ cur = Main /\ waiting["sema_write"] = {}
                      /\ \A t \in Task \ {Main} : Len(stack[t]) = 1 /\ stack[t][1].pc = "user"
GatesOK ==
    /\ gate \in [Line -> Gate]
    /\ \A l \in Line : gate[l] = "serial_interrupt" => l = SERIAL
    /\ ~Booting({"init_interrupt"}) => \A l \in Line : gate[l] # "none"
    /\ ~Booting({"init_interrupt", "hw_timer_init"}) => gate[TIMER] = "systick_intr"
    /\ Quiet \/ Booting({"kbd_init"}) => gate[KBD] # "kbd_interrupt"

\* The tick a handler has counted is not forgotten before `test'.
TickOK ==
    \A t \in Task : \A i \in 2 .. Len(stack[t]) :
        stack[t][i].irq = TIMER /\ stack[t][i].pc \in {"eoi", "test"} => sched_on_return

KeyOK ==
    obf /\ ~early =>
        /\ gate[KBD] = "kbd_interrupt"
        /\ \/ KBD \in irr
           \/ \E t \in Task : \E i \in 2 .. Len(stack[t]) :
                 stack[t][i].irq = KBD /\ stack[t][i].pc \in {"entry", "isr"}

\* Once there are lists, a task that does not wait is in the ready list, once.
QueueOK ==
    /\ ready \in Seq(Task)
    /\ IsInjective(ready)
    /\ ~Unscheduled => /\ ~crashed
                       /\ \A t \in Task : t \in Range(ready) <=> t \notin waiting["sema_write"]
                       /\ cur \notin waiting["sema_write"]

\* Who waits has called sema_down, and nothing runs above.
SleepOK == \A t \in waiting["sema_write"] : Top(t).pc = "poll"

\* The record (t, i) has gone down on sema_write and not up.
Holds(t, i) == /\ t \in Task /\ i \in 1 .. Len(stack[t])
               /\ stack[t][i].pc \in {"poll", "up"}
               /\ ~(t \in waiting["sema_write"] /\ i = Len(stack[t]))

\* Somebody has the unit that is not there, and whoever waits waits for somebody.
HoldOK ==
    ~Quiet /\ (value["sema_write"] = 0 \/ waiting["sema_write"] # {}) =>
        \E t \in Task : \E i \in 1 .. Len(stack[t]) : Holds(t, i)

IInv == /\ TypeOK /\ StacksOK /\ AtomicOK /\ BitsOK /\ BootOK /\ GatesOK
        /\ TickOK /\ KeyOK /\ QueueOK /\ SleepOK /\ HoldOK
---------------------------------------------------------------------------
(* Records, stacks and statements.                                         *)

LEMMA Lines ==
    /\ Line = {0, 1, 4, 14} /\ TASK = 100 /\ TIMER = 0 /\ KBD = 1 /\ SERIAL = 4 /\ DISK = 14
    /\ TASK \notin Line
  BY DEF Line, TASK, TIMER, KBD, SERIAL, DISK

LEMMA Statements ==
    /\ Len(Boot) = 6
    /\ Boot[1] = "init_interrupt" /\ Boot[2] = "hw_timer_init" /\ Boot[3] = "serial_init"
    /\ Boot[4] = "kbd_init" /\ Boot[5] = "sched_init" /\ Boot[6] = "ide_init"
  BY DEF Boot

LEMMA BootStatements == Range(Boot) = BootPC
<1>1. Boot \in Seq(BootPC)
  BY DEF Boot, BootPC
<1>2. Range(Boot) = {Boot[i] : i \in 1 .. Len(Boot)}
  BY <1>1, RangeEquality
<1> QED BY <1>2, Statements DEF BootPC

LEMMA PCs == PC = BootPC \cup {"user", "down", "poll", "up", "entry", "isr", "eoi", "test", "iret"}
  BY BootStatements, Zenon DEF PC

LEMMA RecordIs ==
    ASSUME NEW l, NEW p, NEW n
    PROVE  /\ Record(l, p, n).irq = l /\ Record(l, p, n).pc = p /\ Record(l, p, n).left = n
           /\ l \in Line \cup {TASK} /\ p \in PC /\ n \in {0, 1} => Record(l, p, n) \in RecordType
  BY DEF Record, RecordType

LEMMA OneOrMore ==
    ASSUME NEW n \in Nat, n >= 1, n # 1
    PROVE  n >= 2 /\ n \in 2 .. n
<1>1. n >= 2
  OBVIOUS
<1> QED BY <1>1

LEMMA TwoOrMore ==
    ASSUME NEW n \in Nat, n >= 2
    PROVE  n # 1
  OBVIOUS

LEMMA RecordTypes ==
    ASSUME StacksOK, NEW t \in Task
    PROVE  /\ Len(stack[t]) \in Nat /\ Len(stack[t]) >= 1
           /\ stack[t] \in Seq(RecordType)
           /\ \A i \in 1 .. Len(stack[t]) : /\ stack[t][i] \in RecordType
                                            /\ stack[t][i].irq \in Line \cup {TASK}
                                            /\ stack[t][i].pc \in PC
                                            /\ stack[t][i].left \in {0, 1}
           /\ Top(t) = stack[t][Len(stack[t])] /\ Top(t) \in RecordType
           /\ OwnOK(t, stack[t][1])
           /\ \A i \in 2 .. Len(stack[t]) : HandlerOK(stack[t][i])
<1>1. stack[t] \in Seq(RecordType) /\ Len(stack[t]) \in 1 .. MaxDepth + 1 /\ MaxDepth \in Nat
  BY InterruptsAssumption DEF StacksOK
<1>2. \A i \in 1 .. Len(stack[t]) : stack[t][i] \in RecordType
  BY <1>1, ElementOfSeq
<1>3. \A r \in RecordType : r.irq \in Line \cup {TASK} /\ r.pc \in PC /\ r.left \in {0, 1}
  BY DEF RecordType
<1> QED BY <1>1, <1>2, <1>3 DEF Top, StacksOK

\* The top record of t becomes r.
Replaced(t, r) ==
    /\ stack' \in [Task -> Seq(RecordType)]
    /\ \A u \in Task : Len(stack'[u]) = Len(stack[u])
    /\ \A u \in Task : \A i \in 1 .. Len(stack[u]) :
          stack'[u][i] = IF u = t /\ i = Len(stack[t]) THEN r ELSE stack[u][i]

LEMMA Replaces ==
    ASSUME StacksOK, NEW t \in Task, NEW r \in RecordType, SetTop(t, r)
    PROVE  Replaced(t, r)
<1>1. stack \in [Task -> Seq(RecordType)] /\ stack[t] \in Seq(RecordType)
      /\ Len(stack[t]) \in 1 .. Len(stack[t])
  BY RecordTypes DEF StacksOK
<1> DEFINE s == [stack[t] EXCEPT ![Len(stack[t])] = r]
<1>2. /\ s \in Seq(RecordType) /\ Len(s) = Len(stack[t])
      /\ \A j \in 1 .. Len(stack[t]) : s[j] = IF j = Len(stack[t]) THEN r ELSE stack[t][j]
  BY <1>1, ExceptSeq
<1>3. stack' = [stack EXCEPT ![t] = s]
  BY DEF SetTop
<1> HIDE DEF s
<1> QED BY <1>1, <1>2, <1>3 DEF Replaced

\* A record is put on t's stack.
Pushed(t, r) ==
    /\ stack' \in [Task -> Seq(RecordType)]
    /\ \A u \in Task : Len(stack'[u]) = IF u = t THEN Len(stack[u]) + 1 ELSE Len(stack[u])
    /\ \A u \in Task : \A i \in 1 .. Len(stack[u]) : stack'[u][i] = stack[u][i]
    /\ stack'[t][Len(stack[t]) + 1] = r

LEMMA Pushes ==
    ASSUME StacksOK, NEW t \in Task, NEW r \in RecordType,
           stack' = [stack EXCEPT ![t] = Append(@, r)]
    PROVE  Pushed(t, r)
<1>1. stack \in [Task -> Seq(RecordType)] /\ stack[t] \in Seq(RecordType)
  BY RecordTypes DEF StacksOK
<1> DEFINE s == Append(stack[t], r)
<1>2. /\ s \in Seq(RecordType) /\ Len(s) = Len(stack[t]) + 1
      /\ \A j \in 1 .. Len(stack[t]) : s[j] = stack[t][j]
      /\ s[Len(stack[t]) + 1] = r
  BY <1>1, AppendProperties
<1> HIDE DEF s
<1>3. stack' = [stack EXCEPT ![t] = s]
  BY DEF s
<1> QED BY <1>1, <1>2, <1>3 DEF Pushed

\* A record is taken off t's stack.
Popped(t) ==
    /\ stack' \in [Task -> Seq(RecordType)]
    /\ \A u \in Task : Len(stack'[u]) = IF u = t THEN Len(stack[u]) - 1 ELSE Len(stack[u])
    /\ \A u \in Task : \A i \in 1 .. Len(stack'[u]) : stack'[u][i] = stack[u][i]

LEMMA Pops ==
    ASSUME StacksOK, NEW t \in Task, Len(stack[t]) >= 2,
           stack' = [stack EXCEPT ![t] = Front(@)]
    PROVE  Popped(t)
<1>1. /\ stack \in [Task -> Seq(RecordType)] /\ Len(stack[t]) \in Nat
      /\ \A i \in 1 .. Len(stack[t]) : stack[t][i] \in RecordType
  BY RecordTypes DEF StacksOK
<1> DEFINE n == Len(stack[t]) - 1
           s == SubSeq(stack[t], 1, n)
<1>2. /\ s \in Seq(RecordType) /\ Len(s) = n
      /\ \A j \in 1 .. n : s[j] = stack[t][j]
  <2>1. /\ 1 \in Int /\ n \in Int /\ 1 <= n
        /\ \A i \in 1 .. n : stack[t][i] \in RecordType
    BY <1>1
  <2> QED BY <2>1, SubSeqProperties
<1>3. stack' = [stack EXCEPT ![t] = s]
  BY DEF Front
<1> HIDE DEF s
<1> QED BY <1>1, <1>2, <1>3 DEF Popped

---------------------------------------------------------------------------
(* The ready list: a task is in it once.                                   *)

Queue(q) == q \in Seq(Task) /\ IsInjective(q)

LEMMA QueueIs ==
    ASSUME NEW q \in Seq(Task)
    PROVE  /\ Len(q) \in Nat /\ DOMAIN q = 1 .. Len(q)
           /\ \A i \in 1 .. Len(q) : q[i] \in Task
           /\ Queue(q) <=> \A i, j \in 1 .. Len(q) : q[i] = q[j] => i = j
           /\ \A x : x \in Range(q) <=> \E i \in 1 .. Len(q) : q[i] = x
<1>1. /\ Len(q) \in Nat /\ DOMAIN q = 1 .. Len(q)
      /\ \A i \in 1 .. Len(q) : q[i] \in Task
  BY LenProperties, ElementOfSeq
<1>2. Range(q) = {q[i] : i \in 1 .. Len(q)}
  BY RangeEquality
<1> QED BY <1>1, <1>2 DEF Queue, IsInjective

LEMMA Unlinked ==
    ASSUME NEW q, Queue(q), NEW t \in Task
    PROVE  /\ Queue(list_del(q, t))
           /\ \A x : x \in Range(list_del(q, t)) <=> x \in Range(q) /\ x # t
<1>1. q \in Seq(Task)
  BY DEF Queue
<1>2. CASE t \notin Range(q)
  BY <1>2 DEF list_del
<1>3. CASE t \in Range(q)
  <2> DEFINE i == CHOOSE j \in DOMAIN q : q[j] = t
             w == RemoveAt(q, i)
             a == SubSeq(q, 1, i - 1)
             b == SubSeq(q, i + 1, Len(q))
  <2>1. i \in 1 .. Len(q) /\ q[i] = t /\ Len(q) \in Nat
    BY <1>1, <1>3, QueueIs
  <2>2. list_del(q, t) = w /\ w = a \o b
    BY <1>3 DEF list_del, RemoveAt
  <2> HIDE DEF i
  <2>3. /\ a \in Seq(Task) /\ Len(a) = i - 1
        /\ \A j \in 1 .. i - 1 : a[j] = q[j]
    <3>1. 1 \in Int /\ i - 1 \in Int /\ \A j \in 1 .. i - 1 : q[j] \in Task
      BY <1>1, <2>1, QueueIs
    <3>2. /\ a \in Seq(Task) /\ Len(a) = IF 1 <= i - 1 THEN i - 1 - 1 + 1 ELSE 0
          /\ \A j \in 1 .. i - 1 - 1 + 1 : a[j] = q[1 + j - 1]
      BY <3>1, SubSeqProperties
    <3> QED BY <2>1, <3>2
  <2>4. /\ b \in Seq(Task) /\ Len(b) = Len(q) - i
        /\ \A j \in 1 .. Len(q) - i : b[j] = q[i + j]
    <3>1. i + 1 \in Int /\ Len(q) \in Int /\ \A j \in i + 1 .. Len(q) : q[j] \in Task
      BY <1>1, <2>1, QueueIs
    <3>2. /\ b \in Seq(Task) /\ Len(b) = IF i + 1 <= Len(q) THEN Len(q) - (i + 1) + 1 ELSE 0
          /\ \A j \in 1 .. Len(q) - (i + 1) + 1 : b[j] = q[i + 1 + j - 1]
      BY <3>1, SubSeqProperties
    <3> QED BY <2>1, <3>2
  <2> HIDE DEF a, b, w
  <2>5. /\ w \in Seq(Task) /\ Len(w) = Len(q) - 1
        /\ \A j \in 1 .. Len(q) - 1 : w[j] = IF j < i THEN q[j] ELSE q[j + 1]
    <3>1. /\ a \o b \in Seq(Task) /\ Len(a \o b) = Len(a) + Len(b)
          /\ \A j \in 1 .. Len(a) + Len(b) : (a \o b)[j] = IF j <= Len(a) THEN a[j] ELSE b[j - Len(a)]
      BY <2>3, <2>4, ConcatProperties
    <3>2. w \in Seq(Task) /\ Len(w) = Len(q) - 1
      BY <2>1, <2>2, <2>3, <2>4, <3>1
    <3>3. ASSUME NEW j \in 1 .. Len(q) - 1 PROVE w[j] = IF j < i THEN q[j] ELSE q[j + 1]
      <4>1. w[j] = IF j <= i - 1 THEN a[j] ELSE b[j - (i - 1)]
        BY <2>1, <2>2, <2>3, <2>4, <3>1
      <4>2. CASE j < i
        BY <2>1, <2>3, <4>1, <4>2
      <4>3. CASE i <= j
        <5>1. j - (i - 1) \in 1 .. Len(q) - i /\ i + (j - (i - 1)) = j + 1
          BY <2>1, <4>3
        <5>2. b[j - (i - 1)] = q[j + 1]
          BY <2>4, <5>1
        <5> QED BY <2>1, <4>1, <4>3, <5>2
      <4> QED BY <2>1, <4>2, <4>3
    <3> QED BY <3>2, <3>3
  <2>6. \A j, k \in 1 .. Len(q) : q[j] = q[k] => j = k
    BY <1>1, QueueIs
  <2>7. \A j, k \in 1 .. Len(w) : w[j] = w[k] => j = k
    BY <2>1, <2>5, <2>6
  <2>8. ASSUME NEW x PROVE (\E j \in 1 .. Len(w) : w[j] = x) <=> x # t /\ \E j \in 1 .. Len(q) : q[j] = x
    <3>1. ASSUME NEW j \in 1 .. Len(w), w[j] = x
          PROVE  x # t /\ \E k \in 1 .. Len(q) : q[k] = x
      BY <2>1, <2>5, <2>6, <3>1
    <3>2. ASSUME x # t, NEW k \in 1 .. Len(q), q[k] = x
          PROVE  \E j \in 1 .. Len(w) : w[j] = x
      <4>1. CASE k < i
        <5>1. k \in 1 .. Len(w) /\ w[k] = x
          BY <2>1, <2>5, <3>2, <4>1
        <5> QED BY <5>1
      <4>2. CASE k > i
        <5>1. k - 1 \in 1 .. Len(q) - 1 /\ k - 1 + 1 = k /\ ~(k - 1 < i)
          BY <2>1, <4>2
        <5>2. k - 1 \in 1 .. Len(w) /\ w[k - 1] = x
          BY <2>5, <3>2, <5>1
        <5> QED BY <5>2
      <4> QED BY <2>1, <3>2, <4>1, <4>2
    <3> QED BY <3>1, <3>2
  <2> QED BY <1>1, <2>2, <2>5, <2>7, <2>8, QueueIs
<1> QED BY <1>2, <1>3

LEMMA Appended ==
    ASSUME NEW q, Queue(q), NEW t \in Task, t \notin Range(q)
    PROVE  /\ Queue(Append(q, t))
           /\ \A x : x \in Range(Append(q, t)) <=> x \in Range(q) \/ x = t
<1>1. q \in Seq(Task) /\ Len(q) \in Nat
  BY QueueIs DEF Queue
<1> DEFINE w == Append(q, t)
<1>2. /\ w \in Seq(Task) /\ Len(w) = Len(q) + 1 /\ w[Len(q) + 1] = t
      /\ \A i \in 1 .. Len(q) : w[i] = q[i]
  BY <1>1, AppendProperties
<1> HIDE DEF w
<1>3. /\ \A i, j \in 1 .. Len(q) : q[i] = q[j] => i = j
      /\ \A i \in 1 .. Len(q) : q[i] # t
  BY <1>1, QueueIs
<1>4. \A i, j \in 1 .. Len(w) : w[i] = w[j] => i = j
  BY <1>1, <1>2, <1>3
<1>5. \A x : (\E i \in 1 .. Len(w) : w[i] = x) <=> x = t \/ \E i \in 1 .. Len(q) : q[i] = x
  BY <1>1, <1>2
<1>6. /\ Queue(w)
      /\ \A x : x \in Range(w) <=> x \in Range(q) \/ x = t
  BY <1>1, <1>2, <1>4, <1>5, QueueIs
<1> QED BY <1>6 DEF w

\* schedule gives the processor to a task of the list, and keeps the list.
LEMMA Scheduled ==
    ASSUME NEW q, Queue(q), cur \in Task, schedule(q)
    PROVE  /\ q = <<>> => crashed' /\ UNCHANGED <<cur, ready, IF_flag>>
           /\ q # <<>> => /\ UNCHANGED crashed /\ IF_flag'
                          /\ cur' \in Task /\ cur' \in Range(q)
                          /\ Queue(ready')
                          /\ \A x : x \in Range(ready') <=> x \in Range(q)
<1>1. CASE q = <<>>
  BY <1>1 DEF schedule
<1>2. CASE q # <<>>
  <2>1. q \in Seq(Task) /\ Len(q) \in Nat \ {0}
    BY <1>2, EmptySeq DEF Queue
  <2>2. Head(q) = q[1] /\ Head(q) \in Task
    BY <1>2, <2>1, HeadTailProperties
  <2>3. cur' = Head(q) /\ cur' \in Range(q)
    BY <1>2, <2>1, <2>2, QueueIs DEF schedule
  <2>4. CASE cur \in Range(q)
    <3>1. ready' = Append(list_del(q, cur), cur)
      BY <1>2, <2>4 DEF schedule
    <3> DEFINE w == list_del(q, cur)
    <3>2. Queue(w) /\ \A x : x \in Range(w) <=> x \in Range(q) /\ x # cur
      BY Unlinked
    <3> HIDE DEF w
    <3>3. Queue(Append(w, cur)) /\ \A x : x \in Range(Append(w, cur)) <=> x \in Range(w) \/ x = cur
      BY <3>2, Appended
    <3>4. ready' = Append(w, cur)
      BY <3>1 DEF w
    <3> QED BY <1>2, <2>2, <2>3, <2>4, <3>2, <3>3, <3>4 DEF schedule
  <2>5. CASE cur \notin Range(q)
    BY <1>2, <2>2, <2>3, <2>5 DEF schedule
  <2> QED BY <2>4, <2>5
<1> QED BY <1>1, <1>2

\* sched_init puts every task in the list.
LEMMA AllListed ==
    LET q == <<Main>> \o SetToSeq(Task \ {Main})
    IN  Queue(q) /\ \A t \in Task : t \in Range(q)
<1> DEFINE S == Task \ {Main}
           n == Cardinality(S)
           f == SetToSeq(S)
           q == <<Main>> \o f
<1>1. IsFiniteSet(S) /\ n \in Nat /\ ExistsBijection(1 .. n, S)
  BY InterruptsAssumption, FS_RemoveElement, FS_Subset, FS_CardinalityType
<1>2. f \in [1 .. n -> S] /\ IsInjective(f)
  <2>1. \E g \in [1 .. n -> S] : IsInjective(g)
    BY <1>1 DEF ExistsBijection, Bijection, Injection
  <2> QED BY <2>1 DEF SetToSeq
<1>3. \A x \in S : \E i \in 1 .. n : f[i] = x
  <2>1. f \in Injection(1 .. n, S)
    BY <1>2 DEF Injection
  <2>2. Cardinality(1 .. n) = Cardinality(S)
    BY <1>1, FS_CountingElements, FS_Interval
  <2>3. f \in Surjection(1 .. n, S)
    BY <1>1, <2>1, <2>2, FS_Injection
  <2> QED BY <2>3 DEF Surjection
<1>4. Main \in Task
  BY InterruptsAssumption
<1> HIDE DEF n, f
<1>5. f \in Seq(Task) /\ Len(f) = n /\ <<Main>> \in Seq(Task) /\ Len(<<Main>>) = 1
  BY <1>1, <1>2, <1>4
<1>6. /\ q \in Seq(Task) /\ Len(q) = n + 1
      /\ \A i \in 1 .. n + 1 : q[i] = IF i <= 1 THEN <<Main>>[i] ELSE f[i - 1]
  BY <1>1, <1>5, ConcatProperties
<1> HIDE DEF q
<1>7. q[1] = Main /\ \A i \in 2 .. n + 1 : i - 1 \in 1 .. n /\ q[i] = f[i - 1] /\ q[i] # Main
  BY <1>1, <1>2, <1>6
<1>8. ASSUME NEW i \in 1 .. n + 1, NEW j \in 1 .. n + 1, q[i] = q[j] PROVE i = j
  <2>1. \A k, m \in 1 .. n : f[k] = f[m] => k = m
    BY <1>2 DEF IsInjective
  <2>2. CASE i = 1 \/ j = 1
    BY <1>1, <1>7, <1>8, <2>2
  <2>3. CASE i # 1 /\ j # 1
    <3>1. i \in 2 .. n + 1 /\ j \in 2 .. n + 1
      BY <1>1, <2>3
    <3>2. f[i - 1] = f[j - 1] /\ i - 1 \in 1 .. n /\ j - 1 \in 1 .. n
      BY <1>7, <1>8, <3>1
    <3> QED BY <2>1, <3>1, <3>2
  <2> QED BY <2>2, <2>3
<1>9. ASSUME NEW t \in Task PROVE \E i \in 1 .. n + 1 : q[i] = t
  <2>1. CASE t = Main
    BY <1>1, <1>7, <2>1
  <2>2. CASE t # Main
    <3>1. PICK i \in 1 .. n : f[i] = t
      BY <1>3, <2>2
    <3>2. i + 1 \in 2 .. n + 1 /\ i + 1 - 1 = i
      BY <1>1, <3>1
    <3>3. q[i + 1] = t
      BY <1>7, <3>1, <3>2
    <3> QED BY <1>1, <3>2, <3>3
  <2> QED BY <2>1, <2>2
<1>10. Queue(q) /\ \A t \in Task : t \in Range(q)
  BY <1>6, <1>8, <1>9, QueueIs
<1> QED BY <1>10 DEF q, f

---------------------------------------------------------------------------
(* What the processor does next.                                           *)

\* The task that runs changes its top record.
Turn(t) == \/ t = Main /\ main
           \/ entry(t) \/ isr(t) \/ eoi(t) \/ test(t)
           \/ serial_putc(t) \/ putc_step(t)

\* How the record o that is on top of t's stack becomes r.
Change(t, o, r) ==
    \/ t = Main /\ \/ o.pc = "init_interrupt" /\ r.pc = "hw_timer_init"
                   \/ o.pc = "hw_timer_init" /\ r.pc = "serial_init"
                   \/ o.pc = "serial_init" /\ r.pc = "kbd_init"
                   \/ o.pc = "kbd_init" /\ r.pc = "sched_init"
                   \/ o.pc = "sched_init" /\ r.pc = "ide_init"
                   \/ o.pc = "ide_init" /\ r.pc = "user"
    \/ o.pc = "entry" /\ r.pc = "isr"
    \/ o.pc = "isr" /\ r.pc = "eoi"
    \/ o.pc = "isr" /\ r.pc = "down" /\ gate[o.irq] = "serial_interrupt"
    \/ o.pc = "eoi" /\ r.pc = "test"
    \/ o.pc = "test" /\ r.pc = "iret"
    \/ o.pc = "user" /\ r.pc = "down" /\ putc[t] > 0
    \/ o.pc = "down" /\ r.pc = "poll"
    \/ o.pc = "poll" /\ r.pc = "up"
    \/ o.pc = "up" /\ o.irq = TASK /\ r.pc = "user"
    \/ o.pc = "up" /\ o.irq # TASK /\ r.pc \in {"down", "eoi"}

Changes(t) == \E r \in RecordType : Replaced(t, r) /\ r.irq = Top(t).irq /\ Change(t, Top(t), r)

LEMMA Gone ==
    ASSUME StacksOK, NEW t \in Task, NEW pc \in PC, Goto(t, pc)
    PROVE  \E r \in RecordType : Replaced(t, r) /\ r.irq = Top(t).irq /\ r.pc = pc
<1> DEFINE r == Record(Top(t).irq, pc, Top(t).left)
<1>1. r \in RecordType /\ r.irq = Top(t).irq /\ r.pc = pc
  BY RecordTypes, RecordIs DEF RecordType
<1>2. Replaced(t, r)
  BY <1>1, Replaces DEF Goto
<1> HIDE DEF r
<1> QED BY <1>1, <1>2

LEMMA Booted ==
    ASSUME StacksOK, NEW i \in 1 .. 6, NEW lines, NEW h, BootStep(i, lines, h)
    PROVE  /\ Main = cur /\ ~crashed /\ Top(Main).pc = Boot[i]
           /\ \E r \in RecordType : /\ Replaced(Main, r) /\ r.irq = Top(Main).irq
                                    /\ r.pc = IF i < 6 THEN Boot[i + 1] ELSE "user"
           /\ Changes(Main)
<1> DEFINE next == IF i < 6 THEN Boot[i + 1] ELSE "user"
<1>1. Main = cur /\ ~crashed /\ Top(Main).pc = Boot[i]
  BY DEF BootStep, At
<1>2. next \in PC
  BY Statements, PCs DEF BootPC
<1>3. Main \in Task
  BY InterruptsAssumption
<1>4. Goto(Main, next)
  BY Statements DEF BootStep
<1> HIDE DEF next
<1>5. \E r \in RecordType : Replaced(Main, r) /\ r.irq = Top(Main).irq /\ r.pc = next
  BY <1>2, <1>3, <1>4, Gone
<1>6. PICK r \in RecordType : Replaced(Main, r) /\ r.irq = Top(Main).irq /\ r.pc = next
  BY <1>5
<1>7. Change(Main, Top(Main), r)
  <2>1. i \in {1, 2, 3, 4, 5, 6}
    OBVIOUS
  <2> QED BY <1>1, <1>6, <2>1, Statements DEF Change, next
<1> QED BY <1>1, <1>5, <1>6, <1>7 DEF Changes, next

LEMMA MainBoots ==
    ASSUME main
    PROVE  \E i \in 1 .. 6 : \E lines, h : BootStep(i, lines, h)
  BY DEF main, init_interrupt, hw_timer_init, serial_init, kbd_init, sched_init, ide_init, Line

LEMMA Turns ==
    ASSUME StacksOK, NEW t \in Task, Turn(t)
    PROVE  t = cur /\ ~crashed /\ Changes(t)
<1>0. {"isr", "eoi", "test", "iret", "down", "poll", "up", "user"} \subseteq PC
  BY PCs
<1>1. CASE t = Main /\ main
  BY <1>1, MainBoots, Booted
<1>2. CASE entry(t)
  BY <1>0, <1>2, Gone DEF entry, At, Changes, Change
<1>3. CASE isr(t)
  <2>1. t = cur /\ ~crashed /\ Top(t).pc = "isr"
    BY <1>3 DEF isr, At
  <2>2. CASE Goto(t, "eoi")
    BY <1>0, <2>1, <2>2, Gone DEF Changes, Change
  <2>3. CASE gate[Top(t).irq] = "serial_interrupt" /\ serial_interrupt(t)
    <3>1. PICK second \in {0, 1} : SetTop(t, Record(Top(t).irq, "down", second))
      BY <2>3 DEF serial_interrupt
    <3> DEFINE r == Record(Top(t).irq, "down", second)
    <3>2. r \in RecordType /\ r.irq = Top(t).irq /\ r.pc = "down"
      BY <1>0, RecordTypes, RecordIs DEF RecordType
    <3>3. Replaced(t, r)
      BY <3>1, <3>2, Replaces
    <3> HIDE DEF r
    <3> QED BY <2>1, <2>3, <3>2, <3>3 DEF Changes, Change
  <2> QED BY <1>3, <2>2, <2>3
          DEF isr, systick_intr, kbd_interrupt, ide_interrupt, default_isr
<1>4. CASE eoi(t)
  BY <1>0, <1>4, Gone DEF eoi, At, Changes, Change
<1>5. CASE test(t)
  BY <1>0, <1>5, Gone DEF test, At, Changes, Change
<1>6. CASE serial_putc(t)
  BY <1>0, <1>6, Gone DEF serial_putc, At, Changes, Change
<1>7. CASE sema_down(t)
  BY <1>0, <1>7, Gone DEF sema_down, At, Changes, Change
<1>8. CASE serial_putc_poll(t)
  BY <1>0, <1>8, Gone DEF serial_putc_poll, At, Changes, Change
<1>9. CASE sema_up(t)
  <2> DEFINE o == Top(t)
             r == IF o.irq = TASK THEN Record(TASK, "user", 0)
                  ELSE IF o.left > 0 THEN Record(o.irq, "down", o.left - 1)
                  ELSE Record(o.irq, "eoi", 0)
  <2>1. t = cur /\ ~crashed /\ o.pc = "up" /\ SetTop(t, r)
    BY <1>9 DEF sema_up, At, SetTopAfterUp
  <2>2. o.irq \in Line \cup {TASK} /\ o.left \in {0, 1}
    BY RecordTypes DEF RecordType
  <2>3. /\ r \in RecordType /\ r.irq = o.irq
        /\ o.irq = TASK => r.pc = "user"
        /\ o.irq # TASK => r.pc \in {"down", "eoi"}
    BY <1>0, <2>2, RecordIs
  <2> HIDE DEF r
  <2>4. Replaced(t, r)
    BY <2>1, <2>3, Replaces
  <2> QED BY <2>1, <2>3, <2>4 DEF Changes, Change
<1> QED BY <1>1, <1>2, <1>3, <1>4, <1>5, <1>6, <1>7, <1>8, <1>9 DEF Turn, putc_step

\* What every step but those of the last kind leaves alone.
LEMMA TurnFrame ==
    ASSUME TypeOK, NEW t \in Task, Turn(t)
    PROVE  /\ putc' \in [Task -> 0 .. MaxPutc]
           /\ \A u \in Task : putc'[u] > 0 => putc[u] > 0
           /\ UNCHANGED <<early, events>>
           /\ Top(t).pc \in {"entry", "isr", "eoi"} => UNCHANGED <<cur, IF_flag>>
<1>1. CASE t = Main /\ main
  <2>1. UNCHANGED <<putc, early, events>>
    BY <1>1 DEF main, init_interrupt, hw_timer_init, serial_init, kbd_init, sched_init,
                ide_init, BootStep, devices
  <2>2. Top(t).pc \in BootPC
    BY <1>1, Statements DEF main, init_interrupt, hw_timer_init, serial_init, kbd_init,
                sched_init, ide_init, BootStep, At, BootPC
  <2> QED BY <2>1, <2>2 DEF TypeOK, BootPC
<1>2. CASE serial_putc(t)
  <2>1. /\ putc \in [Task -> 0 .. MaxPutc] /\ putc[t] > 0 /\ MaxPutc \in Nat
        /\ putc' = [putc EXCEPT ![t] = @ - 1]
    BY <1>2, InterruptsAssumption DEF serial_putc, TypeOK
  <2> QED BY <1>2, <2>1 DEF serial_putc, devices, At
<1>3. CASE entry(t) \/ isr(t) \/ eoi(t) \/ test(t) \/ putc_step(t)
  <2>1. UNCHANGED <<putc, early, events>>
    BY <1>3 DEF entry, isr, eoi, test, putc_step, sema_down, serial_putc_poll, sema_up,
                systick_intr, kbd_interrupt, serial_interrupt, ide_interrupt, default_isr, devices
  <2>2. Top(t).pc \in {"entry", "isr", "eoi"} => UNCHANGED <<cur, IF_flag>>
    BY <1>3 DEF entry, isr, eoi, test, putc_step, sema_down, serial_putc_poll, sema_up, At, threads
  <2> QED BY <2>1, <2>2 DEF TypeOK
<1> QED BY <1>1, <1>2, <1>3 DEF Turn

Device == tick \/ key \/ receive \/ disk

LEMMA DeviceFrame ==
    ASSUME Device
    PROVE  /\ UNCHANGED <<gate, IF_flag, stack, cur, ready, crashed, sched_on_return>>
           /\ UNCHANGED <<master, slave, value, waiting, putc>>
  BY DEF Device, tick, key, receive, disk, Edge, threads, semas, devices

\* The bottom of every stack but that of a task without handlers.
LEMMA Bottoms ==
    ASSUME StacksOK, NEW t \in Task
    PROVE  /\ Top(t).pc \in BootPC \cup {"user"} => Len(stack[t]) = 1
           /\ Top(t).pc \in {"entry", "isr", "eoi", "test", "iret"} => Len(stack[t]) >= 2
           /\ Len(stack[t]) = 1 <=> Top(t).irq = TASK
<1> DEFINE n == Len(stack[t])
<1>1. n \in Nat /\ n >= 1 /\ Top(t) = stack[t][n]
  BY RecordTypes
<1>2. OwnOK(t, stack[t][1]) /\ \A i \in 2 .. n : HandlerOK(stack[t][i])
  BY RecordTypes
<1> HIDE DEF n
<1>3. n \in Nat /\ (n = 1 \/ n >= 2)
  BY <1>1
<1>4. CASE n = 1
  <2>1. OwnOK(t, Top(t))
    BY <1>1, <1>2, <1>4
  <2>2. Top(t).irq = TASK /\ Top(t).pc \notin {"entry", "isr", "eoi", "test", "iret"}
    BY <2>1 DEF OwnOK, BootPC
  <2> QED BY <1>4, <2>2 DEF n
<1>5. CASE n >= 2
  <2>0. n \in 2 .. n
    BY <1>3, <1>5
  <2>1. HandlerOK(Top(t))
    BY <1>1, <1>2, <2>0
  <2>2. Top(t).irq # TASK /\ Top(t).pc \notin BootPC \cup {"user"}
    BY <2>1, Lines DEF HandlerOK, BootPC
  <2>3. n # 1
    BY <1>3, <1>5
  <2> QED BY <1>5, <2>2, <2>3 DEF n
<1> QED BY <1>3, <1>4, <1>5

---------------------------------------------------------------------------
(* The invariant holds after every step, one conjunct at a time.           *)

LEMMA TurnStacks ==
    ASSUME TypeOK, StacksOK, GatesOK, NEW t \in Task, Turn(t)
    PROVE  StacksOK'
<1>1. PICK r \in RecordType : Replaced(t, r) /\ r.irq = Top(t).irq /\ Change(t, Top(t), r)
  BY Turns DEF Changes
<1>2. \A u \in Task : putc'[u] > 0 => putc[u] > 0
  BY TurnFrame
<1>3. /\ Len(stack[t]) \in Nat /\ Len(stack[t]) >= 1
      /\ Top(t) = stack[t][Len(stack[t])] /\ Top(t) \in RecordType
      /\ OwnOK(t, stack[t][1])
      /\ \A i \in 2 .. Len(stack[t]) : HandlerOK(stack[t][i])
  BY RecordTypes
<1>4. CASE Len(stack[t]) = 1
  <2>1. OwnOK(t, Top(t)) /\ (putc[t] > 0 => t \in Writer)
    BY <1>3, <1>4 DEF StacksOK
  <2>2. OwnOK(t, r)
    BY <1>1, <2>1 DEF OwnOK, Change, BootPC
  <2> QED BY <1>1, <1>2, <1>4, <2>2 DEF StacksOK, Replaced
<1>5. CASE Len(stack[t]) # 1
  <2>0. Len(stack[t]) \in Nat /\ Len(stack[t]) >= 1
    BY <1>3
  <2>1. HandlerOK(Top(t)) /\ Len(stack[t]) >= 2
    <3>1. Len(stack[t]) >= 2 /\ Len(stack[t]) \in 2 .. Len(stack[t])
      BY <1>5, <2>0, OneOrMore
    <3> QED BY <1>3, <3>1
  <2>2. HandlerOK(r)
    BY <1>1, <2>1, Lines DEF HandlerOK, Change, GatesOK, BootPC
  <2> QED BY <1>1, <1>2, <2>1, <2>2 DEF StacksOK, Replaced
<1> QED BY <1>4, <1>5

LEMMA ReturnPops ==
    ASSUME StacksOK, NEW t \in Task, iret(t)
    PROVE  Popped(t) /\ Len(stack[t]) >= 2 /\ Top(t).pc = "iret" /\ t = cur /\ ~crashed
<1>1. Len(stack[t]) >= 2 /\ Top(t).pc = "iret"
  BY Bottoms DEF iret, At
<1> QED BY <1>1, Pops DEF iret, At

LEMMA ReturnStacks ==
    ASSUME StacksOK, NEW t \in Task, iret(t)
    PROVE  StacksOK'
<1>1. Popped(t) /\ Len(stack[t]) >= 2 /\ UNCHANGED putc
  BY ReturnPops DEF iret
<1>2. \A u \in Task : Len(stack[u]) \in 1 .. MaxDepth + 1
  BY DEF StacksOK
<1>3. MaxDepth \in Nat
  BY InterruptsAssumption
<1> QED BY <1>1, <1>2, <1>3 DEF StacksOK, Popped

LEMMA InterruptPushes ==
    ASSUME TypeOK, StacksOK, NEW l \in Line, Interrupt(l)
    PROVE  /\ cur \in Task /\ Pushed(cur, Record(l, "entry", 0))
           /\ HandlerOK(Record(l, "entry", 0)) /\ Record(l, "entry", 0) \in RecordType
           /\ Record(l, "entry", 0).irq = l /\ Record(l, "entry", 0).pc = "entry"
           /\ Len(stack[cur]) \in 1 .. MaxDepth
<1>1. cur \in Task /\ Len(stack[cur]) \in 1 .. MaxDepth
  BY DEF TypeOK, StacksOK, Interrupt
<1>2. Record(l, "entry", 0) \in RecordType
  BY RecordIs, PCs
<1>3. HandlerOK(Record(l, "entry", 0))
  BY RecordIs DEF HandlerOK
<1>4. stack' = [stack EXCEPT ![cur] = Append(@, Record(l, "entry", 0))]
  BY DEF Interrupt
<1>5. Pushed(cur, Record(l, "entry", 0))
  BY <1>1, <1>2, <1>4, Pushes
<1> QED BY <1>1, <1>2, <1>3, <1>5, RecordIs

LEMMA InterruptStacks ==
    ASSUME TypeOK, StacksOK, NEW l \in Line, Interrupt(l)
    PROVE  StacksOK'
<1> DEFINE r == Record(l, "entry", 0)
<1>1. /\ cur \in Task /\ Pushed(cur, r) /\ HandlerOK(r) /\ Len(stack[cur]) \in 1 .. MaxDepth
      /\ UNCHANGED putc /\ MaxDepth \in Nat
  BY InterruptPushes, InterruptsAssumption DEF Interrupt
<1> HIDE DEF r
<1>2. \A u \in Task : Len(stack[u]) \in 1 .. MaxDepth + 1
  BY DEF StacksOK
<1>3. ASSUME NEW u \in Task
      PROVE  /\ Len(stack'[u]) \in 1 .. MaxDepth + 1
             /\ OwnOK(u, stack'[u][1])
             /\ \A i \in 2 .. Len(stack'[u]) : HandlerOK(stack'[u][i])
  <2>1. /\ Len(stack'[u]) = IF u = cur THEN Len(stack[u]) + 1 ELSE Len(stack[u])
        /\ \A i \in 1 .. Len(stack[u]) : stack'[u][i] = stack[u][i]
        /\ u = cur => stack'[u][Len(stack[u]) + 1] = r
    BY <1>1 DEF Pushed
  <2>2. OwnOK(u, stack[u][1]) /\ \A i \in 2 .. Len(stack[u]) : HandlerOK(stack[u][i])
    BY DEF StacksOK
  <2> QED BY <1>1, <1>2, <2>1, <2>2
<1> QED BY <1>1, <1>3 DEF StacksOK, Pushed

LEMMA TurnAtomic ==
    ASSUME TypeOK, StacksOK, GatesOK, AtomicOK, NEW t \in Task, Turn(t)
    PROVE  AtomicOK'
<1>1. PICK r \in RecordType : Replaced(t, r) /\ r.irq = Top(t).irq /\ Change(t, Top(t), r)
  BY Turns DEF Changes
<1>2. t = cur /\ (Top(t).pc \in {"entry", "isr", "eoi"} => UNCHANGED <<cur, IF_flag>>)
  BY Turns, TurnFrame
<1>3. Top(t) = stack[t][Len(stack[t])] /\ Len(stack[t]) \in Nat
  BY RecordTypes
<1>4. Len(stack[t]) >= 2 => HandlerOK(Top(t))
  BY <1>3 DEF StacksOK
<1>5. Len(stack[t]) >= 2 /\ Atomic(r) => Atomic(Top(t)) /\ UNCHANGED <<cur, IF_flag>>
  BY <1>1, <1>2, <1>4, Lines DEF Atomic, HandlerOK, Change, BootPC
<1>6. ASSUME NEW u \in Task, NEW i \in 2 .. Len(stack'[u]), Atomic(stack'[u][i])
      PROVE  u = cur' /\ i = Len(stack'[u]) /\ ~IF_flag'
  <2>1. Len(stack'[u]) = Len(stack[u]) /\ Len(stack[u]) \in Nat
    BY <1>1, RecordTypes DEF Replaced
  <2>2. CASE u = t /\ i = Len(stack[t])
    <3>1. stack'[u][i] = r
      BY <1>1, <2>1, <2>2 DEF Replaced
    <3>2. Atomic(Top(t)) /\ UNCHANGED <<cur, IF_flag>>
      BY <1>5, <1>6, <2>1, <2>2, <3>1
    <3> QED BY <1>2, <1>3, <1>6, <2>1, <2>2, <3>2 DEF AtomicOK
  <2>3. CASE ~(u = t /\ i = Len(stack[t]))
    <3>1. stack'[u][i] = stack[u][i]
      BY <1>1, <1>6, <2>1, <2>3 DEF Replaced
    <3>2. u = cur /\ i = Len(stack[u])
      BY <1>6, <2>1, <3>1 DEF AtomicOK
    <3> QED BY <1>2, <2>3, <3>2
  <2> QED BY <2>2, <2>3
<1> QED BY <1>6 DEF AtomicOK

\* Nothing is atomic while a handler returns, or with interrupts enabled.
LEMMA NoAtomic ==
    ASSUME TypeOK, StacksOK, AtomicOK, IF_flag \/ ~Atomic(Top(cur))
    PROVE  \A t \in Task : \A i \in 2 .. Len(stack[t]) : ~Atomic(stack[t][i])
  BY DEF AtomicOK, Top

LEMMA ReturnAtomic ==
    ASSUME TypeOK, StacksOK, AtomicOK, NEW t \in Task, iret(t)
    PROVE  AtomicOK'
<1>1. Popped(t) /\ Top(t).pc = "iret" /\ t = cur
  BY ReturnPops
<1>2. \A u \in Task : \A i \in 2 .. Len(stack[u]) : ~Atomic(stack[u][i])
  BY <1>1, NoAtomic DEF Atomic
<1>3. \A u \in Task : Len(stack[u]) \in Nat
  BY RecordTypes
<1> QED BY <1>1, <1>2, <1>3 DEF AtomicOK, Popped

LEMMA InterruptAtomic ==
    ASSUME TypeOK, StacksOK, AtomicOK, NEW l \in Line, Interrupt(l)
    PROVE  AtomicOK'
<1> DEFINE r == Record(l, "entry", 0)
<1>1. /\ cur \in Task /\ Pushed(cur, r) /\ IF_flag /\ ~IF_flag' /\ UNCHANGED cur
  BY InterruptPushes DEF Interrupt, interrupt_gate, threads
<1> HIDE DEF r
<1>2. \A u \in Task : \A i \in 2 .. Len(stack[u]) : ~Atomic(stack[u][i])
  BY <1>1, NoAtomic
<1>3. \A u \in Task : Len(stack[u]) \in Nat
  BY RecordTypes
<1>4. ASSUME NEW u \in Task, NEW i \in 2 .. Len(stack'[u]), Atomic(stack'[u][i])
      PROVE  u = cur /\ i = Len(stack'[u])
  BY <1>1, <1>2, <1>3, <1>4 DEF Pushed
<1> QED BY <1>1, <1>4 DEF AtomicOK

---------------------------------------------------------------------------
(* The in-service bits.                                                    *)

LEMMA SameBits ==
    ASSUME BitsOK, UNCHANGED <<master, slave>>,
           \A t, i, l : Serves(t, i, l)' <=> Serves(t, i, l)
    PROVE  BitsOK'
<1>1. ASSUME NEW l PROVE Served(l)' <=> Served(l)
  <2>1. ASSUME Served(l)' PROVE Served(l)
    <3>1. PICK t, i : Serves(t, i, l)'
      BY <2>1 DEF Served
    <3>2. Serves(t, i, l)
      BY <3>1
    <3> QED BY <3>2 DEF Served, Serves
  <2>2. ASSUME Served(l) PROVE Served(l)'
    <3>1. PICK t, i : Serves(t, i, l)
      BY <2>2 DEF Served
    <3>2. Serves(t, i, l)'
      BY <3>1
    <3> QED BY <3>2 DEF Served, Serves
  <2> QED BY <2>1, <2>2
<1>2. Masters' = Masters /\ Slaves' = Slaves
  <2>1. \A x : x \in Masters' <=> x \in Masters
    BY <1>1, Zenon DEF Masters
  <2>2. \A x : x \in Slaves' <=> x \in Slaves
    BY <1>1, Zenon DEF Slaves
  <2> QED BY <2>1, <2>2, Zenon
<1>3. ASSUME NEW l \in Line, NEW t \in Task, NEW u \in Task,
             NEW i \in 2 .. Len(stack'[t]), NEW j \in 2 .. Len(stack'[u]),
             Serves(t, i, l)', Serves(u, j, l)'
      PROVE  t = u /\ i = j
  <2>1. Serves(t, i, l) /\ Serves(u, j, l)
    BY <1>3
  <2> QED BY <2>1 DEF BitsOK, Alone, Serves
<1>4. Alone'
  BY <1>3 DEF Alone
<1> QED BY <1>2, <1>4 DEF BitsOK

LEMMA ServesRange ==
    ASSUME StacksOK, NEW t \in Task, NEW i \in 2 .. Len(stack[t])
    PROVE  i \in 1 .. Len(stack[t]) /\ HandlerOK(stack[t][i])
BY RecordTypes

LEMMA TurnServes ==
    ASSUME StacksOK, NEW t \in Task, Turn(t), Top(t).pc # "eoi"
    PROVE  \A u, i, l : Serves(u, i, l)' <=> Serves(u, i, l)
<1>1. PICK r \in RecordType : Replaced(t, r) /\ r.irq = Top(t).irq /\ Change(t, Top(t), r)
  BY Turns DEF Changes
<1> SUFFICES ASSUME NEW u \in Task, NEW i \in 2 .. Len(stack[u]), NEW l
             PROVE  Serves(u, i, l)' <=> Serves(u, i, l)
  BY <1>1 DEF Serves, Replaced
<1>2. i \in 1 .. Len(stack[u]) /\ HandlerOK(stack[u][i]) /\ Len(stack'[u]) = Len(stack[u])
  BY <1>1, ServesRange DEF Replaced
<1>3. CASE u = t /\ i = Len(stack[t])
  <2>1. stack'[u][i] = r /\ stack[u][i] = Top(t)
    BY <1>1, <1>2, <1>3 DEF Replaced, Top
  <2>2. r.pc \in {"test", "iret"} <=> Top(t).pc \in {"test", "iret"}
    BY <1>1, <1>2, <2>1 DEF Change, HandlerOK
  <2> QED BY <1>1, <1>2, <2>1, <2>2 DEF Serves
<1>4. CASE ~(u = t /\ i = Len(stack[t]))
  <2>1. stack'[u][i] = stack[u][i]
    BY <1>1, <1>2, <1>4 DEF Replaced
  <2> QED BY <1>2, <2>1 DEF Serves
<1> QED BY <1>3, <1>4

LEMMA ReturnServes ==
    ASSUME StacksOK, NEW t \in Task, iret(t)
    PROVE  \A u, i, l : Serves(u, i, l)' <=> Serves(u, i, l)
<1>1. Popped(t) /\ Top(t).pc = "iret"
  BY ReturnPops
<1>2. \A u \in Task : Len(stack[u]) \in Nat
  BY RecordTypes
<1> SUFFICES ASSUME NEW u \in Task, NEW i, NEW l
             PROVE  Serves(u, i, l)' <=> Serves(u, i, l)
  BY DEF Serves
<1>3. CASE i \in 2 .. Len(stack'[u])
  <2>1. i \in 2 .. Len(stack[u]) /\ stack'[u][i] = stack[u][i]
    BY <1>1, <1>2, <1>3 DEF Popped
  <2> QED BY <1>3, <2>1 DEF Serves
<1>4. CASE i \notin 2 .. Len(stack'[u])
  <2>1. CASE i \in 2 .. Len(stack[u])
    <3>1. u = t /\ i = Len(stack[t])
      BY <1>1, <1>2, <1>4, <2>1 DEF Popped
    <3> QED BY <1>1, <1>4, <3>1 DEF Serves, Top
  <2> QED BY <1>4, <2>1 DEF Serves
<1> QED BY <1>3, <1>4

\* What serves below other handlers, or sleeps, is the serial port's.
LEMMA OthersAreSerial ==
    ASSUME StacksOK, NEW u \in Task, NEW i, NEW l, Serves(u, i, l), ~Atomic(stack[u][i])
    PROVE  l = SERIAL
  BY ServesRange, Lines DEF Serves, HandlerOK, Atomic

\* The end of interrupt clears the bit of the handler that gives it.
LEMMA EndedBits ==
    ASSUME StacksOK, AtomicOK, BitsOK, NEW t \in Task, eoi(t)
    PROVE  BitsOK'
<1> DEFINE n == Len(stack[t])
           k == Top(t).irq
<1>1. PICK r \in RecordType : Replaced(t, r) /\ r.irq = Top(t).irq /\ Change(t, Top(t), r)
  BY Turns DEF Changes, Turn
<1>2. Top(t).pc = "eoi" /\ t = cur /\ pic_end_of_interrupt(k)
  BY DEF eoi, At
<1>3. r.pc = "test"
  BY <1>1, <1>2 DEF Change, BootPC
<1>4. n >= 2 /\ n \in Nat /\ Top(t) = stack[t][n]
  BY <1>2, Bottoms, RecordTypes
<1>5. n \in 2 .. n /\ n \in 1 .. n
  BY <1>4
<1>6. HandlerOK(Top(t)) /\ k \in Line
  BY <1>4, <1>5, ServesRange DEF HandlerOK
<1>7. Serves(t, n, k)
  BY <1>2, <1>4, <1>5 DEF Serves
<1> HIDE DEF n, k
<1>8. \A u, i, l : Serves(u, i, l)' <=> Serves(u, i, l) /\ ~(u = t /\ i = n)
  <2> SUFFICES ASSUME NEW u \in Task, NEW i \in 2 .. Len(stack[u]), NEW l
               PROVE  Serves(u, i, l)' <=> Serves(u, i, l) /\ ~(u = t /\ i = n)
    BY <1>1 DEF Serves, Replaced
  <2>1. i \in 1 .. Len(stack[u]) /\ Len(stack'[u]) = Len(stack[u])
    BY <1>1, ServesRange DEF Replaced
  <2>2. stack'[u][i] = IF u = t /\ i = n THEN r ELSE stack[u][i]
    BY <1>1, <2>1 DEF Replaced, n
  <2> QED BY <1>3, <2>1, <2>2 DEF Serves
<1>9. \A u, i, l : Serves(u, i, l) /\ l \in Line /\ ~(u = t /\ i = n) => l # k /\ l = SERIAL
  <2> SUFFICES ASSUME NEW u, NEW i, NEW l \in Line, Serves(u, i, l), ~(u = t /\ i = n)
               PROVE  l # k /\ l = SERIAL
    OBVIOUS
  <2>1. u \in Task /\ i \in 2 .. Len(stack[u])
    BY DEF Serves
  <2>2. l # k
    BY <1>5, <1>7, <2>1 DEF BitsOK, Alone, n
  <2>3. ~Atomic(stack[u][i])
    BY <1>2, <2>1 DEF AtomicOK, n
  <2> QED BY <2>1, <2>2, <2>3, OthersAreSerial
<1>10. \A l \in Line : Served(l) => l = k \/ l = SERIAL
  BY <1>9, <1>7 DEF Served, Serves
<1>11. \A l \in Line : Served(l)' <=> Served(l) /\ l # k
  <2> SUFFICES ASSUME NEW l \in Line PROVE Served(l)' <=> Served(l) /\ l # k
    OBVIOUS
  <2>1. ASSUME Served(l)' PROVE Served(l) /\ l # k
    <3>1. PICK u, i : Serves(u, i, l)'
      BY <2>1 DEF Served
    <3>2. Serves(u, i, l) /\ l # k
      BY <1>8, <1>9, <3>1
    <3> QED BY <3>2 DEF Served, Serves
  <2>2. ASSUME Served(l), l # k PROVE Served(l)'
    <3>1. PICK u, i : Serves(u, i, l)
      BY <2>2 DEF Served
    <3>2. ~(u = t /\ i = n)
      BY <1>7, <2>2, <3>1 DEF Serves
    <3>3. Serves(u, i, l)'
      BY <1>8, <3>1, <3>2
    <3> QED BY <3>3 DEF Served, Serves
  <2> QED BY <2>1, <2>2
<1>12. Served(k)
  BY <1>7 DEF Served, Serves
<1>13. Alone'
  <2> SUFFICES ASSUME NEW l \in Line, NEW v \in Task, NEW u \in Task,
                      NEW i \in 2 .. Len(stack'[v]), NEW j \in 2 .. Len(stack'[u]),
                      Serves(v, i, l)', Serves(u, j, l)'
               PROVE  v = u /\ i = j
    BY DEF Alone
  <2>1. Serves(v, i, l) /\ Serves(u, j, l)
    BY <1>8
  <2> QED BY <2>1 DEF BitsOK, Alone, Serves
<1>14. \A x : x \in Masters' <=> x = 4 /\ Served(SERIAL) /\ k # SERIAL
  <2>1. \A x : x \in Masters' <=> \E l \in Line : Served(l)' /\ x = MasterLine(l)
    BY Zenon DEF Masters
  <2>2. SERIAL \in Line /\ MasterLine(SERIAL) = 4
    BY Lines DEF MasterLine
  <2> QED BY <1>10, <1>11, <2>1, <2>2
<1>15. master' = Masters'
  <2>1. \A x : x \in master <=> x = MasterLine(k) \/ (x = 4 /\ Served(SERIAL))
    <3>1. \A x : x \in Masters <=> \E l \in Line : Served(l) /\ x = MasterLine(l)
      BY Zenon DEF Masters
    <3>2. SERIAL \in Line /\ MasterLine(SERIAL) = 4
      BY Lines DEF MasterLine
    <3>3. master = Masters
      BY DEF BitsOK
    <3>4. ASSUME NEW x, x \in Masters PROVE x = MasterLine(k) \/ (x = 4 /\ Served(SERIAL))
      <4>1. PICK l \in Line : Served(l) /\ x = MasterLine(l)
        BY <3>1, <3>4
      <4>2. l = k \/ l = SERIAL
        BY <1>10, <4>1
      <4> QED BY <3>2, <4>1, <4>2, Zenon
    <3>5. MasterLine(k) \in Masters /\ (Served(SERIAL) => 4 \in Masters)
      BY <1>6, <1>12, <3>1, <3>2
    <3> QED BY <3>3, <3>4, <3>5
  <2>2. MasterLine(k) \in 0 .. 4 /\ (MasterLine(k) = 4 <=> k = SERIAL)
    BY <1>6, Lines DEF MasterLine
  <2>3. \A x : x \in master' <=> x \in master /\ \E c \in master : c < x
    BY <1>2 DEF pic_end_of_interrupt, EndOfInterrupt
  <2>4. \A x : x \in master' <=> x = 4 /\ Served(SERIAL) /\ k # SERIAL
    <3> DEFINE m == MasterLine(k)
    <3> HIDE DEF m
    <3>1. m \in 0 .. 4 /\ (m = 4 <=> k = SERIAL)
      BY <2>2 DEF m
    <3>2. \A x : x \in master <=> x = m \/ (x = 4 /\ Served(SERIAL))
      BY <2>1 DEF m
    <3> QED BY <2>3, <3>1, <3>2
  <2> QED BY <1>14, <2>4
<1>16. slave' = Slaves'
  <2>1. \A x : x \in Slaves' <=> x \in Line /\ x >= 8 /\ Served(x) /\ x # k
    BY <1>11 DEF Slaves
  <2>2. \A x : x \in slave <=> x \in Line /\ x >= 8 /\ Served(x)
    BY DEF BitsOK, Slaves
  <2>3. CASE k = DISK
    <3>1. \A x : x \in slave <=> x = 14
      BY <1>12, <2>2, <2>3, Lines
    <3>2. \A x : x \in slave' <=> x \in slave /\ \E c \in slave : c < x
      BY <1>2, <2>3, Lines DEF pic_end_of_interrupt, EndOfInterrupt
    <3>3. \A x : x \notin slave'
      BY <3>1, <3>2
    <3>4. \A x : x \notin Slaves'
      BY <2>1, <2>3, Lines
    <3> QED BY <3>3, <3>4
  <2>4. CASE k # DISK
    <3>1. slave' = slave /\ ~(k >= 8)
      BY <1>2, <1>6, <2>4, Lines DEF pic_end_of_interrupt
    <3>2. \A x : x \in slave' <=> x \in Slaves'
      BY <2>1, <2>2, <3>1
    <3> QED BY <3>2
  <2> QED BY <2>3, <2>4
<1> QED BY <1>13, <1>15, <1>16 DEF BitsOK

\* A line is taken while none of its own handlers serves it.
LEMMA TakenBits ==
    ASSUME TypeOK, StacksOK, BitsOK, NEW l \in Line, Interrupt(l)
    PROVE  BitsOK'
<1> DEFINE r == Record(l, "entry", 0)
           n == Len(stack[cur])
<1>1. cur \in Task /\ Pushed(cur, r) /\ r.irq = l /\ r.pc = "entry"
  BY InterruptPushes
<1>2. Requested(l) /\ Acknowledge(l)
  BY DEF Interrupt
<1>3. \A u \in Task : Len(stack[u]) \in Nat /\ Len(stack[u]) >= 1
  BY RecordTypes
<1> HIDE DEF r, n
<1>4. ASSUME NEW u, NEW i, NEW m
      PROVE  Serves(u, i, m)' <=> Serves(u, i, m) \/ (u = cur /\ i = n + 1 /\ m = l)
  <2>1. CASE u = cur /\ i = n + 1
    <3>1. i \in 2 .. Len(stack'[u]) /\ i \notin 2 .. Len(stack[u]) /\ stack'[u][i] = r
      BY <1>1, <1>3, <2>1 DEF Pushed, n
    <3> QED BY <1>1, <2>1, <3>1 DEF Serves
  <2>2. CASE u \in Task /\ i \in 2 .. Len(stack[u])
    <3>1. i \in 2 .. Len(stack'[u]) /\ stack'[u][i] = stack[u][i]
      BY <1>1, <1>3, <2>2 DEF Pushed
    <3>2. ~(u = cur /\ i = n + 1)
      BY <1>3, <2>2 DEF n
    <3> QED BY <2>2, <3>1, <3>2 DEF Serves
  <2>3. CASE ~(u = cur /\ i = n + 1) /\ ~(u \in Task /\ i \in 2 .. Len(stack[u]))
    <3>1. ~(u \in Task /\ i \in 2 .. Len(stack'[u]))
      BY <1>1, <1>3, <2>3 DEF Pushed, n
    <3> QED BY <2>3, <3>1 DEF Serves
  <2> QED BY <2>1, <2>2, <2>3
<1>5. ~Served(l)
  <2> SUFFICES ASSUME Served(l) PROVE FALSE
    OBVIOUS
  <2>1. MasterLine(l) \in master
    BY DEF BitsOK, Masters
  <2>2. MasterLine(l) \in Int
    BY Lines DEF MasterLine
  <2> QED BY <1>2, <2>1, <2>2 DEF Requested
<1>6. ASSUME NEW m PROVE Served(m)' <=> (Served(m) \/ m = l)
  <2>1. ASSUME Served(m)' PROVE Served(m) \/ m = l
    <3>1. PICK u, i : Serves(u, i, m)'
      BY <2>1 DEF Served
    <3>2. Serves(u, i, m) \/ m = l
      BY <1>4, <3>1
    <3> QED BY <3>2 DEF Served, Serves
  <2>2. ASSUME Served(m) PROVE Served(m)'
    <3>1. PICK u, i : Serves(u, i, m)
      BY <2>2 DEF Served
    <3>2. Serves(u, i, m)'
      BY <1>4, <3>1
    <3> QED BY <3>2 DEF Served, Serves
  <2>3. Served(l)'
    <3>1. PICK u, i : u = cur /\ i = n + 1
      OBVIOUS
    <3>2. Serves(u, i, l)'
      BY <1>4, <3>1
    <3> QED BY <3>2 DEF Served, Serves
  <2> QED BY <2>1, <2>2, <2>3
<1>7. Alone'
  <2> SUFFICES ASSUME NEW m \in Line, NEW v \in Task, NEW u \in Task,
                      NEW i \in 2 .. Len(stack'[v]), NEW j \in 2 .. Len(stack'[u]),
                      Serves(v, i, m)', Serves(u, j, m)'
               PROVE  v = u /\ i = j
    BY DEF Alone
  <2>1. CASE m = l
    <3>1. ~Serves(v, i, m) /\ ~Serves(u, j, m)
      BY <1>5, <2>1 DEF Served, Serves
    <3> QED BY <1>4, <3>1
  <2>2. CASE m # l
    <3>1. Serves(v, i, m) /\ Serves(u, j, m)
      BY <1>4, <2>2
    <3> QED BY <3>1 DEF BitsOK, Alone, Serves
  <2> QED BY <2>1, <2>2
<1>8. master' = Masters'
  <2>1. \A x : x \in Masters' <=> \E m \in Line : Served(m)' /\ x = MasterLine(m)
    BY Zenon DEF Masters
  <2>2. \A x : x \in Masters <=> \E m \in Line : Served(m) /\ x = MasterLine(m)
    BY Zenon DEF Masters
  <2>3. master' = Masters \cup {MasterLine(l)}
    BY <1>2 DEF Acknowledge, BitsOK
  <2>4. ASSUME NEW x, x \in Masters' PROVE x \in master'
    <3>1. PICK m \in Line : Served(m)' /\ x = MasterLine(m)
      BY <2>1, <2>4
    <3>2. Served(m) \/ m = l
      BY <1>6, <3>1
    <3>3. CASE m = l
      BY <2>3, <3>1, <3>3
    <3>4. CASE Served(m)
      BY <2>2, <2>3, <3>1, <3>4
    <3> QED BY <3>2, <3>3, <3>4
  <2>5. ASSUME NEW x, x \in master' PROVE x \in Masters'
    <3>1. CASE x \in Masters
      BY <1>6, <2>1, <2>2, <3>1
    <3>2. CASE x = MasterLine(l)
      BY <1>6, <2>1, <3>2
    <3> QED BY <2>3, <2>5, <3>1, <3>2
  <2> QED BY <2>4, <2>5
<1>9. slave' = Slaves'
  <2>1. \A x : x \in Slaves' <=> x \in Line /\ x >= 8 /\ Served(x)'
    BY DEF Slaves
  <2>2. \A x : x \in slave <=> x \in Line /\ x >= 8 /\ Served(x)
    BY DEF BitsOK, Slaves
  <2>3. \A x : x \in slave' <=> x \in slave \/ (x = l /\ l >= 8)
    BY <1>2 DEF Acknowledge
  <2>4. \A x : x \in slave' <=> x \in Slaves'
    BY <1>6, <2>1, <2>2, <2>3
  <2> QED BY <2>4
<1> QED BY <1>7, <1>8, <1>9 DEF BitsOK

LEMMA TurnBits ==
    ASSUME StacksOK, AtomicOK, BitsOK, BootOK, NEW t \in Task, Turn(t)
    PROVE  BitsOK'
<1>1. CASE eoi(t)
  BY <1>1, EndedBits
<1>2. CASE Turn(t) /\ ~eoi(t) /\ ~init_interrupt
  <2>1. Top(t).pc # "eoi"
    <3>0. t = cur
      BY Turns
    <3>1. CASE main
      BY <3>0, <3>1, Statements DEF main, init_interrupt, hw_timer_init, serial_init, kbd_init, sched_init,
                ide_init, BootStep, At
    <3> QED BY <1>2, <3>1 DEF Turn, entry, isr, test, serial_putc, putc_step,
                   sema_down, serial_putc_poll, sema_up, At
  <2>2. UNCHANGED <<master, slave>>
    BY <1>2 DEF Turn, main, hw_timer_init, serial_init, kbd_init, sched_init, ide_init,
                entry, isr, test, serial_putc, putc_step, sema_down, serial_putc_poll, sema_up, pics
  <2> QED BY <1>2, <2>1, <2>2, TurnServes, SameBits
<1>3. CASE t = Main /\ init_interrupt
  <2>1. Top(t).pc = "init_interrupt" /\ master' = {} /\ slave' = {}
    BY <1>3, Statements DEF init_interrupt, BootStep, At
  <2>2. Turn(t) /\ Top(t).pc # "eoi"
    BY <2>1
  <2>3. Quiet
    BY <1>3, <2>1, Bottoms DEF Quiet, Booting, Top, BootPC
  <2>4. \A u \in Task : Len(stack[u]) = 1
    BY <2>3 DEF BootOK
  <2>5. \A u, i, l : ~Serves(u, i, l)
    BY <2>4 DEF Serves
  <2>6. \A u, i, l : ~Serves(u, i, l)'
    BY <2>2, <2>5, TurnServes
  <2>7. \A l : ~Served(l)'
    BY <2>6 DEF Served
  <2>8. Masters' = {} /\ Slaves' = {} /\ Alone'
    BY <2>6, <2>7 DEF Masters, Slaves, Alone
  <2> QED BY <2>1, <2>8 DEF BitsOK
<1>4. init_interrupt => Turn(t) /\ (t = Main \/ ~init_interrupt)
  <2>1. init_interrupt => t = Main
    BY Statements, PCs DEF Turn, entry, isr, eoi, test, serial_putc, putc_step,
                   sema_down, serial_putc_poll, sema_up, init_interrupt, BootStep, At
  <2> QED BY <2>1
<1> QED BY <1>1, <1>2, <1>3, <1>4

---------------------------------------------------------------------------
(* What is left of the types.                                              *)

ThreadType == IF_flag \in BOOLEAN /\ cur \in Task /\ crashed \in BOOLEAN

DataType ==
    /\ sched_on_return \in BOOLEAN
    /\ irr \subseteq Line
    /\ obf \in BOOLEAN /\ dr \in BOOLEAN
    /\ value \in [Sem -> Nat] /\ waiting \in [Sem -> SUBSET Task]
    /\ putc \in [Task -> 0 .. MaxPutc]
    /\ DOMAIN events = {KBD, SERIAL, DISK} /\ \A l \in DOMAIN events : events[l] \in 0 .. MaxEvents[l]
    /\ early \in BOOLEAN

LEMMA StackTypes ==
    StacksOK => \A t \in Task :
                   /\ Len(stack[t]) \in 1 .. MaxDepth + 1
                   /\ \A i \in 1 .. Len(stack[t]) :
                         stack[t][i] \in [irq : IF i = 1 THEN {TASK} ELSE Line,
                                          pc : PC, left : {0, 1}]
<1> SUFFICES ASSUME StacksOK, NEW t \in Task
             PROVE  /\ Len(stack[t]) \in 1 .. MaxDepth + 1
                    /\ \A i \in 1 .. Len(stack[t]) :
                          stack[t][i] \in [irq : IF i = 1 THEN {TASK} ELSE Line,
                                           pc : PC, left : {0, 1}]
  OBVIOUS
<1>1. /\ Len(stack[t]) \in Nat
      /\ \A i \in 1 .. Len(stack[t]) : stack[t][i] \in RecordType
      /\ OwnOK(t, stack[t][1])
      /\ \A i \in 2 .. Len(stack[t]) : HandlerOK(stack[t][i])
  BY RecordTypes
<1>2. ASSUME NEW i \in 1 .. Len(stack[t])
      PROVE  stack[t][i] \in [irq : IF i = 1 THEN {TASK} ELSE Line, pc : PC, left : {0, 1}]
  <2>1. CASE i = 1
    <3>1. stack[t][i] \in RecordType /\ stack[t][i].irq = TASK
      BY <1>1, <2>1 DEF OwnOK
    <3> QED BY <2>1, <3>1 DEF RecordType
  <2>2. CASE i # 1
    <3>1. i \in 2 .. Len(stack[t])
      BY <1>1, <2>2
    <3>2. stack[t][i] \in RecordType /\ stack[t][i].irq \in Line
      BY <1>1, <3>1 DEF HandlerOK
    <3> QED BY <2>2, <3>2 DEF RecordType
  <2> QED BY <2>1, <2>2
<1> QED BY <1>2 DEF StacksOK

LEMMA BitTypes ==
    BitsOK => master \subseteq 0 .. 7 /\ slave \subseteq 8 .. 15
<1>1. \A l \in Line : MasterLine(l) \in 0 .. 7 /\ (l >= 8 => l \in 8 .. 15)
  BY Lines DEF MasterLine
<1> QED BY <1>1 DEF BitsOK, Masters, Slaves

LEMMA Types ==
    StacksOK /\ BitsOK /\ GatesOK /\ QueueOK /\ ThreadType /\ DataType => TypeOK
  BY StackTypes, BitTypes DEF GatesOK, QueueOK, ThreadType, DataType, TypeOK

LEMMA NextTypes ==
    (StacksOK /\ BitsOK /\ GatesOK /\ QueueOK /\ ThreadType /\ DataType)' => TypeOK'
  BY Types, PTL

\* What sema_down and sema_up do to sema_write.
LEMMA Downs ==
    ASSUME TypeOK, NEW t \in Task, sema_down(t)
    PROVE  /\ value' \in [Sem -> Nat] /\ waiting' \in [Sem -> SUBSET Task]
           /\ \/ /\ value["sema_write"] > 0 /\ value'["sema_write"] = value["sema_write"] - 1
                 /\ UNCHANGED <<waiting, IF_flag, cur, ready, crashed>>
              \/ /\ value["sema_write"] = 0 /\ UNCHANGED value
                 /\ t \notin waiting["sema_write"]
                 /\ waiting'["sema_write"] = waiting["sema_write"] \cup {t}
                 /\ schedule(list_del(ready, t))
<1>1. Sem = {"sema_write"} /\ value \in [Sem -> Nat] /\ waiting \in [Sem -> SUBSET Task]
  BY DEF TypeOK, Sem
<1>2. CASE Sema!Take("sema_write") /\ UNCHANGED <<IF_flag, threads>>
  <2>1. /\ value["sema_write"] > 0 /\ UNCHANGED waiting
        /\ value' = [value EXCEPT !["sema_write"] = value["sema_write"] - 1]
    BY <1>2 DEF Sema!Take
  <2> QED BY <1>1, <1>2, <2>1 DEF threads
<1>3. CASE Sema!Sleep("sema_write", t) /\ schedule(list_del(ready, t))
  <2>1. /\ value["sema_write"] = 0 /\ UNCHANGED value /\ t \notin waiting["sema_write"]
        /\ waiting' = [waiting EXCEPT !["sema_write"] = waiting["sema_write"] \cup {t}]
    BY <1>1, <1>3 DEF Sema!Sleep
  <2> QED BY <1>1, <1>3, <2>1
<1> QED BY <1>2, <1>3 DEF sema_down

LEMMA Ups ==
    ASSUME TypeOK, NEW t \in Task, sema_up(t)
    PROVE  /\ value' \in [Sem -> Nat] /\ waiting' \in [Sem -> SUBSET Task]
           /\ value'["sema_write"] = value["sema_write"] + 1
           /\ UNCHANGED <<IF_flag, cur, crashed>>
           /\ \/ waiting["sema_write"] = {} /\ waiting'["sema_write"] = {} /\ UNCHANGED ready
              \/ \E u \in waiting["sema_write"] :
                    /\ waiting'["sema_write"] = waiting["sema_write"] \ {u}
                    /\ ready' = Append(ready, u)
<1>1. Sem = {"sema_write"} /\ value \in [Sem -> Nat] /\ waiting \in [Sem -> SUBSET Task]
  BY DEF TypeOK, Sem
<1>2. /\ Sema!Raise("sema_write") /\ UNCHANGED <<IF_flag, cur, crashed>>
      /\ \/ waiting["sema_write"] = {} /\ UNCHANGED ready
         \/ \E u \in waiting["sema_write"] \ waiting'["sema_write"] : ready' = Append(ready, u)
  BY DEF sema_up
<1>3. value' = [value EXCEPT !["sema_write"] = value["sema_write"] + 1]
  BY <1>2 DEF Sema!Raise
<1>4. value' \in [Sem -> Nat] /\ value'["sema_write"] = value["sema_write"] + 1
  BY <1>1, <1>3
<1>5. CASE waiting["sema_write"] = {}
  BY <1>1, <1>2, <1>4, <1>5 DEF Sema!Raise
<1>6. CASE waiting["sema_write"] # {}
  <2>1. PICK w \in waiting["sema_write"] :
            waiting' = [waiting EXCEPT !["sema_write"] = waiting["sema_write"] \ {w}]
    BY <1>2, <1>6 DEF Sema!Raise
  <2>2. /\ waiting' \in [Sem -> SUBSET Task]
        /\ waiting'["sema_write"] = waiting["sema_write"] \ {w}
    BY <1>1, <2>1
  <2>3. ready' = Append(ready, w)
    BY <1>2, <1>6, <2>1, <2>2
  <2> QED BY <1>2, <1>4, <2>1, <2>2, <2>3
<1> QED BY <1>5, <1>6

LEMMA TurnData ==
    ASSUME TypeOK, NEW t \in Task, Turn(t)
    PROVE  DataType'
<1>1. DataType /\ putc' \in [Task -> 0 .. MaxPutc] /\ UNCHANGED <<early, events>>
  BY TurnFrame DEF TypeOK, DataType
<1>2. CASE t = Main /\ main
  <2>1. irr' \in {irr, {}} /\ UNCHANGED <<sched_on_return, obf, dr>>
    BY <1>2 DEF main, init_interrupt, hw_timer_init, serial_init, kbd_init, sched_init,
                ide_init, BootStep, devices, pics
  <2>2. value' \in [Sem -> Nat] /\ waiting' \in [Sem -> SUBSET Task]
    BY <1>1, <1>2 DEF main, init_interrupt, hw_timer_init, serial_init, kbd_init, sched_init,
                ide_init, semas, DataType
  <2> QED BY <1>1, <2>1, <2>2 DEF DataType
<1>3. CASE sema_down(t)
  BY <1>1, <1>3, Downs DEF sema_down, pics, devices, DataType
<1>4. CASE sema_up(t)
  BY <1>1, <1>4, Ups DEF sema_up, pics, devices, DataType
<1>5. CASE entry(t) \/ eoi(t) \/ test(t) \/ serial_putc(t) \/ serial_putc_poll(t)
  BY <1>1, <1>5 DEF entry, eoi, test, serial_putc, serial_putc_poll, pics, devices, semas, DataType
<1>6. CASE isr(t)
  <2>1. UNCHANGED <<irr, value, waiting>>
    BY <1>6 DEF isr, systick_intr, kbd_interrupt, serial_interrupt, ide_interrupt,
                default_isr, pics, semas
  <2>2. sched_on_return' \in BOOLEAN /\ obf' \in BOOLEAN /\ dr' \in BOOLEAN
    BY <1>1, <1>6 DEF isr, systick_intr, kbd_interrupt, serial_interrupt, ide_interrupt,
                default_isr, devices, DataType
  <2> QED BY <1>1, <2>1, <2>2 DEF DataType
<1> QED BY <1>2, <1>3, <1>4, <1>5, <1>6 DEF Turn, putc_step

LEMMA ReturnData ==
    ASSUME TypeOK, NEW t \in Task, iret(t)
    PROVE  DataType' /\ ThreadType'
<1>1. IF_flag' = TRUE /\ UNCHANGED <<cur, crashed>>
  BY DEF iret, threads
<1>2. UNCHANGED <<sched_on_return, irr, obf, dr, value, waiting, putc, events, early>>
  BY DEF iret, pics, devices, semas
<1> QED BY <1>1, <1>2 DEF TypeOK, DataType, ThreadType

LEMMA InterruptData ==
    ASSUME TypeOK, NEW l \in Line, Interrupt(l)
    PROVE  DataType' /\ ThreadType'
<1>1. IF_flag' = FALSE /\ UNCHANGED <<cur, crashed>>
  BY DEF Interrupt, threads, interrupt_gate
<1>2. UNCHANGED <<sched_on_return, obf, dr, value, waiting, putc, events, early>> /\ irr' = irr \ {l}
  BY DEF Interrupt, Acknowledge, devices, semas
<1> QED BY <1>1, <1>2 DEF TypeOK, DataType, ThreadType

LEMMA EdgeEvents ==
    ASSUME TypeOK, NEW l \in Line, Edge(l)
    PROVE  /\ DOMAIN events' = {KBD, SERIAL, DISK}
           /\ \A m \in DOMAIN events' : events'[m] \in 0 .. MaxEvents[m]
           /\ irr' \subseteq Line
<1>1. /\ DOMAIN events = {KBD, SERIAL, DISK}
      /\ \A m \in DOMAIN events : events[m] \in 0 .. MaxEvents[m]
      /\ irr \subseteq Line
  BY DEF TypeOK
<1>2. /\ events[l] > 0 /\ irr' = irr \cup {l}
      /\ events' = [events EXCEPT ![l] = events[l] - 1]
  BY DEF Edge
<1>3. ASSUME NEW m \in DOMAIN events' PROVE events'[m] \in 0 .. MaxEvents[m]
  <2>1. m \in DOMAIN events /\ events[m] \in 0 .. MaxEvents[m]
    BY <1>1, <1>2
  <2>2. CASE m = l
    <3>1. events'[m] = events[m] - 1 /\ events[m] > 0
      BY <1>2, <2>1, <2>2
    <3>2. MaxEvents[m] \in Nat
      BY <1>1, <2>1, InterruptsAssumption, Lines
    <3> QED BY <2>1, <3>1, <3>2
  <2>3. CASE m # l
    BY <1>2, <2>1, <2>3
  <2> QED BY <2>2, <2>3
<1> QED BY <1>1, <1>2, <1>3

LEMMA DeviceData ==
    ASSUME TypeOK, Device
    PROVE  DataType' /\ ThreadType'
<1>1. ThreadType' /\ UNCHANGED <<sched_on_return, value, waiting, putc>>
  BY DeviceFrame DEF TypeOK, ThreadType
<1>2. TIMER \in Line /\ KBD \in Line /\ SERIAL \in Line /\ DISK \in Line
  BY Lines
<1>3. CASE tick
  BY <1>1, <1>2, <1>3 DEF tick, devices, TypeOK, DataType
<1>4. CASE key
  <2>1. Edge(KBD) /\ obf' \in BOOLEAN /\ early' \in BOOLEAN /\ UNCHANGED dr
    BY <1>4 DEF key
  <2> QED BY <1>1, <1>2, <2>1, EdgeEvents DEF TypeOK, DataType
<1>5. CASE receive
  <2>1. Edge(SERIAL) /\ dr' \in BOOLEAN /\ UNCHANGED <<obf, early>>
    BY <1>5 DEF receive
  <2> QED BY <1>1, <1>2, <2>1, EdgeEvents DEF TypeOK, DataType
<1>6. CASE disk
  <2>1. Edge(DISK) /\ UNCHANGED <<dr, obf, early>>
    BY <1>6 DEF disk
  <2> QED BY <1>1, <1>2, <2>1, EdgeEvents DEF TypeOK, DataType
<1> QED BY <1>3, <1>4, <1>5, <1>6 DEF Device

---------------------------------------------------------------------------
(* How far main has come.                                                  *)

LEMMA Bases ==
    ASSUME StacksOK, NEW t \in Task, Turn(t)
    PROVE  /\ \A u \in Task : Len(stack'[u]) = Len(stack[u])
           /\ \A u \in Task : u # t => \A i \in 1 .. Len(stack[u]) : stack'[u][i] = stack[u][i]
           /\ Len(stack[t]) # 1 => stack'[t][1] = stack[t][1]
           /\ Len(stack[t]) = 1 => Change(t, stack[t][1], stack'[t][1])
<1>1. PICK r \in RecordType : Replaced(t, r) /\ r.irq = Top(t).irq /\ Change(t, Top(t), r)
  BY Turns DEF Changes
<1>2. Len(stack[t]) \in Nat /\ Len(stack[t]) >= 1 /\ Top(t) = stack[t][Len(stack[t])]
  BY RecordTypes
<1>3. 1 \in 1 .. Len(stack[t])
  BY <1>2
<1> QED BY <1>1, <1>2, <1>3 DEF Replaced

\* main's own record moves only when main runs.
LEMMA BootMoves ==
    ASSUME StacksOK, NEW t \in Task, Turn(t)
    PROVE  \/ /\ stack'[Main][1].pc = stack[Main][1].pc
              /\ t = Main => Len(stack[t]) # 1
           \/ /\ t = Main /\ Len(stack[t]) = 1
              /\ Change(t, stack[Main][1], stack'[Main][1])
           \/ /\ t # Main /\ stack'[Main][1].pc = stack[Main][1].pc
<1>1. Main \in Task
  BY InterruptsAssumption
<1>2. Len(stack[Main]) \in Nat /\ Len(stack[Main]) >= 1
  BY <1>1, RecordTypes
<1>3. 1 \in 1 .. Len(stack[Main])
  BY <1>2
<1>4. CASE t = Main
  BY <1>4, Bases
<1>5. CASE t # Main
  BY <1>1, <1>3, <1>5, Bases
<1> QED BY <1>4, <1>5

LEMMA BootForward ==
    ASSUME StacksOK, NEW t \in Task, Turn(t)
    PROVE  (Quiet' => Quiet) /\ (Unscheduled' => Unscheduled)
  BY BootMoves DEF Quiet, Unscheduled, Booting, Change

\* Before sched_init, what waits behind the serial handler finds a unit.
LEMMA FirstTaken ==
    ASSUME StacksOK, BitsOK, BootOK, HoldOK, TypeOK, Unscheduled, NEW t \in Task, sema_down(t)
    PROVE  value["sema_write"] # 0
<1> SUFFICES ASSUME value["sema_write"] = 0 PROVE FALSE
  OBVIOUS
<1>1. Top(t).pc = "down" /\ t = Main
  BY DEF sema_down, At, BootOK
<1>2. stack[Main][1].pc \in BootPC
  BY DEF Unscheduled, Quiet, Booting, BootPC
<1>3. Len(stack[t]) \in Nat /\ Len(stack[t]) >= 1 /\ Top(t) = stack[t][Len(stack[t])]
  BY RecordTypes
<1>4. Len(stack[t]) # 1
  BY <1>1, <1>2, <1>3 DEF BootPC
<1>5. Len(stack[t]) \in 2 .. Len(stack[t])
  BY <1>3, <1>4, OneOrMore
<1>6. HandlerOK(Top(t))
  BY <1>3, <1>5, ServesRange
<1>7. Serves(t, Len(stack[t]), SERIAL)
  BY <1>1, <1>3, <1>5, <1>6 DEF Serves, HandlerOK
<1>8. ~Quiet
  BY <1>4 DEF BootOK
<1>9. PICK u \in Task : \E j \in 1 .. Len(stack[u]) : Holds(u, j)
  BY <1>8 DEF HoldOK
<1>10. PICK j \in 1 .. Len(stack[u]) : Holds(u, j)
  BY <1>9
<1>11. stack[u][j].pc \in {"poll", "up"}
  BY <1>10 DEF Holds
<1>12. u = Main
  <2>1. u # Main => Len(stack[u]) = 1 /\ stack[u][1].pc = "user"
    BY DEF BootOK
  <2>2. ASSUME u # Main PROVE FALSE
    <3>1. Len(stack[u]) = 1
      BY <2>1, <2>2
    <3>2. j = 1
      BY <1>10, <3>1
    <3> QED BY <1>11, <2>1, <2>2, <3>2
  <2> QED BY <2>2
<1>13. j # 1
  BY <1>2, <1>11, <1>12 DEF BootPC
<1>14. j \in 2 .. Len(stack[t])
  BY <1>1, <1>12, <1>13, <1>3
<1>15. HandlerOK(stack[t][j])
  BY <1>14, ServesRange
<1>16. Serves(t, j, SERIAL)
  BY <1>1, <1>11, <1>12, <1>14, <1>15 DEF Serves, HandlerOK
<1>17. j = Len(stack[t])
  BY <1>5, <1>7, <1>14, <1>16, Lines DEF BitsOK, Alone
<1> QED BY <1>1, <1>3, <1>11, <1>12, <1>17

LEMMA TurnBoot ==
    ASSUME TypeOK, StacksOK, BitsOK, BootOK, HoldOK, NEW t \in Task, Turn(t)
    PROVE  BootOK'
<1>1. t = cur /\ Main \in Task
  BY Turns, InterruptsAssumption
<1>2. ASSUME Quiet'
      PROVE  ~IF_flag' /\ ~crashed' /\ \A u \in Task : Len(stack'[u]) = 1
  <2>1. Quiet /\ Unscheduled
    BY <1>2, BootForward DEF Unscheduled
  <2>2. ~IF_flag /\ ~crashed /\ t = Main /\ \A u \in Task : Len(stack[u]) = 1
    BY <1>1, <2>1 DEF BootOK
  <2>3. \A u \in Task : Len(stack'[u]) = 1
    BY <2>2, Bases
  <2>4. Top(t).pc \in BootPC /\ Top(t) = stack[t][1]
    BY <2>1, <2>2 DEF Top, Quiet, Booting, BootPC
  <2>5. main
    BY <2>4 DEF Turn, entry, isr, eoi, test, serial_putc, putc_step, sema_down,
                serial_putc_poll, sema_up, At, BootPC
  <2>6. ~serial_init
    <3>1. ASSUME serial_init PROVE ~Quiet'
      <4>1. PICK r \in RecordType : Replaced(Main, r) /\ r.pc = "kbd_init"
        BY <3>1, Booted, Statements DEF serial_init
      <4>2. stack'[Main][1] = r
        BY <1>1, <2>2, <4>1 DEF Replaced
      <4> QED BY <4>1, <4>2 DEF Quiet, Booting
    <3> QED BY <1>2, <3>1
  <2>7. UNCHANGED <<IF_flag, crashed>>
    BY <2>5, <2>6 DEF main, init_interrupt, hw_timer_init, kbd_init, sched_init, ide_init, BootStep
  <2> QED BY <2>2, <2>3, <2>7
<1>3. ASSUME Unscheduled'
      PROVE  /\ ready' = <<>> /\ cur' = Main /\ waiting'["sema_write"] = {}
             /\ \A u \in Task \ {Main} : Len(stack'[u]) = 1 /\ stack'[u][1].pc = "user"
  <2>1. Unscheduled
    BY <1>3, BootForward
  <2>2. /\ ready = <<>> /\ t = Main /\ cur = Main /\ waiting["sema_write"] = {}
        /\ \A u \in Task \ {Main} : Len(stack[u]) = 1 /\ stack[u][1].pc = "user"
    BY <1>1, <2>1 DEF BootOK
  <2>3. \A u \in Task \ {Main} : Len(stack'[u]) = 1 /\ stack'[u][1].pc = "user"
    BY <2>2, Bases
  <2>4. CASE main
    <3>1. ~sched_init
      <4>1. ASSUME sched_init PROVE ~Unscheduled'
        <5>1. PICK r \in RecordType : Replaced(Main, r) /\ r.pc = "ide_init"
          BY <4>1, Booted, Statements DEF sched_init
        <5>2. Top(Main).pc = "sched_init"
          BY <4>1, Statements DEF sched_init, BootStep, At
        <5>3. Len(stack[Main]) = 1
          BY <1>1, <5>2, Bottoms DEF BootPC
        <5>4. stack'[Main][1] = r
          BY <1>1, <5>1, <5>3 DEF Replaced
        <5> QED BY <5>1, <5>4 DEF Unscheduled, Quiet, Booting
      <4> QED BY <1>3, <4>1
    <3>2. UNCHANGED <<ready, cur>>
      BY <2>4, <3>1 DEF main, init_interrupt, hw_timer_init, serial_init, kbd_init, ide_init, BootStep
    <3>3. waiting'["sema_write"] = {}
      BY <2>2, <2>4, <3>1 DEF main, init_interrupt, hw_timer_init, serial_init, kbd_init, ide_init,
                              semas, Sem
    <3> QED BY <2>2, <2>3, <3>2, <3>3
  <2>5. CASE entry(t) \/ isr(t) \/ eoi(t) \/ serial_putc_poll(t) \/ serial_putc(t)
    <3>1. UNCHANGED <<ready, cur, waiting>>
      BY <2>5 DEF entry, isr, eoi, serial_putc_poll, serial_putc, threads, semas,
              systick_intr, kbd_interrupt, serial_interrupt, ide_interrupt, default_isr
    <3> QED BY <2>2, <2>3, <3>1
  <2>6. CASE test(t)
    <3>1. UNCHANGED <<ready, cur, waiting>>
      BY <2>2, <2>6 DEF test, schedule, threads, semas
    <3> QED BY <2>2, <2>3, <3>1
  <2>7. CASE sema_down(t)
    BY <2>1, <2>2, <2>3, <2>7, FirstTaken, Downs
  <2>8. CASE sema_up(t)
    BY <2>2, <2>3, <2>8, Ups
  <2> QED BY <2>4, <2>5, <2>6, <2>7, <2>8 DEF Turn, putc_step
<1> QED BY <1>2, <1>3 DEF BootOK

LEMMA ReturnBoot ==
    ASSUME TypeOK, StacksOK, BootOK, NEW t \in Task, iret(t)
    PROVE  /\ BootOK'
           /\ \A u \in Task : stack'[u][1] = stack[u][1]
<1>1. Popped(t) /\ Len(stack[t]) >= 2 /\ t = cur /\ Main \in Task
  BY ReturnPops, InterruptsAssumption
<1>2. \A u \in Task : Len(stack[u]) \in Nat /\ Len(stack[u]) >= 1
  BY RecordTypes
<1>3. ASSUME NEW u \in Task PROVE stack'[u][1] = stack[u][1]
  <2>1. Len(stack'[u]) = (IF u = t THEN Len(stack[u]) - 1 ELSE Len(stack[u]))
        /\ \A i \in 1 .. Len(stack'[u]) : stack'[u][i] = stack[u][i]
    BY <1>1 DEF Popped
  <2>2. Len(stack[u]) \in Nat /\ Len(stack[u]) >= 1 /\ (u = t => Len(stack[u]) >= 2)
    BY <1>1, <1>2
  <2>3. Len(stack'[u]) \in Nat /\ Len(stack'[u]) >= 1
    BY <2>1, <2>2
  <2>4. 1 \in 1 .. Len(stack'[u])
    BY <2>3
  <2> QED BY <2>1, <2>4
<1>4. (Quiet' <=> Quiet) /\ (Unscheduled' <=> Unscheduled)
  BY <1>1, <1>3 DEF Quiet, Unscheduled, Booting
<1>5. ~Quiet
  <2>1. Quiet => Len(stack[t]) = 1
    BY DEF BootOK
  <2>2. Len(stack[t]) \in Nat /\ Len(stack[t]) >= 2
    BY <1>1, <1>2
  <2>3. Len(stack[t]) # 1
    BY <2>2, TwoOrMore
  <2> QED BY <2>1, <2>3
<1>6. UNCHANGED <<ready, cur, waiting>>
  BY DEF iret, threads, semas
<1>7. \A u \in Task \ {t} : Len(stack'[u]) = Len(stack[u])
  BY <1>1 DEF Popped
<1> QED BY <1>1, <1>3, <1>4, <1>5, <1>6, <1>7 DEF BootOK

LEMMA InterruptBoot ==
    ASSUME TypeOK, StacksOK, BootOK, NEW l \in Line, Interrupt(l)
    PROVE  /\ BootOK'
           /\ \A u \in Task : stack'[u][1] = stack[u][1]
<1> DEFINE r == Record(l, "entry", 0)
<1>1. Pushed(cur, r) /\ cur \in Task /\ Main \in Task
  BY InterruptPushes, InterruptsAssumption
<1> HIDE DEF r
<1>2. \A u \in Task : Len(stack[u]) \in Nat /\ Len(stack[u]) >= 1
  BY RecordTypes
<1>3. ASSUME NEW u \in Task PROVE stack'[u][1] = stack[u][1]
  <2>1. 1 \in 1 .. Len(stack[u])
    BY <1>2
  <2> QED BY <1>1, <2>1 DEF Pushed
<1>4. (Quiet' <=> Quiet) /\ (Unscheduled' <=> Unscheduled)
  BY <1>1, <1>3 DEF Quiet, Unscheduled, Booting
<1>5. ~Quiet
  BY DEF BootOK, Interrupt
<1>6. UNCHANGED <<ready, cur, waiting>>
  BY DEF Interrupt, threads, semas
<1>7. \A u \in Task \ {cur} : Len(stack'[u]) = Len(stack[u])
  BY <1>1 DEF Pushed
<1> QED BY <1>1, <1>3, <1>4, <1>5, <1>6, <1>7 DEF BootOK

\* Who else runs leaves main at its statement, and the gates.
LEMMA BootStays ==
    ASSUME StacksOK, NEW t \in Task, Turn(t), ~main
    PROVE  /\ \A p \in BootPC : stack'[Main][1].pc = p <=> stack[Main][1].pc = p
           /\ UNCHANGED gate
           /\ (Quiet' <=> Quiet) /\ (Unscheduled' <=> Unscheduled)
<1>1. Top(t).pc \notin BootPC /\ UNCHANGED gate
  BY DEF Turn, entry, isr, eoi, test, serial_putc, putc_step, sema_down, serial_putc_poll,
         sema_up, At, BootPC
<1>2. \A p \in BootPC : stack'[Main][1].pc = p <=> stack[Main][1].pc = p
  <2>1. CASE t = Main /\ Len(stack[t]) = 1
    <3>1. Change(t, stack[t][1], stack'[t][1])
      BY <2>1, Bases
    <3>2. stack[t][1].pc \notin BootPC
      BY <1>1, <2>1 DEF Top
    <3>3. stack'[t][1].pc \notin BootPC
      BY <3>1, <3>2 DEF Change, BootPC
    <3> QED BY <2>1, <3>2, <3>3
  <2>2. CASE ~(t = Main /\ Len(stack[t]) = 1)
    BY <2>2, BootMoves
  <2> QED BY <2>1, <2>2
<1> QED BY <1>1, <1>2 DEF Quiet, Unscheduled, Booting, BootPC

\* main runs its statement i.
LEMMA MainMoves ==
    ASSUME StacksOK, NEW i \in 1 .. 6, NEW lines, NEW h, BootStep(i, lines, h)
    PROVE  /\ Len(stack[Main]) = 1 /\ stack[Main][1].pc = Boot[i]
           /\ stack'[Main][1].pc = IF i < 6 THEN Boot[i + 1] ELSE "user"
           /\ gate' = [l \in Line |-> IF l \in lines THEN h ELSE gate[l]]
<1>1. Main \in Task /\ Boot[i] \in BootPC
  <2>1. i \in {1, 2, 3, 4, 5, 6}
    OBVIOUS
  <2> QED BY <2>1, InterruptsAssumption, Statements DEF BootPC
<1>2. /\ Top(Main).pc = Boot[i]
      /\ \E r \in RecordType : /\ Replaced(Main, r)
                               /\ r.pc = IF i < 6 THEN Boot[i + 1] ELSE "user"
  BY Booted
<1>3. Len(stack[Main]) = 1
  BY <1>1, <1>2, Bottoms
<1> QED BY <1>1, <1>2, <1>3 DEF Replaced, Top, BootStep

LEMMA TurnGates ==
    ASSUME StacksOK, GatesOK, NEW t \in Task, Turn(t)
    PROVE  GatesOK'
<1>1. CASE ~main
  <2>1. /\ \A p \in BootPC : stack'[Main][1].pc = p <=> stack[Main][1].pc = p
        /\ UNCHANGED gate
    BY <1>1, BootStays
  <2> QED BY <2>1 DEF GatesOK, Quiet, Booting, BootPC
<1>2. CASE main
  <2> DEFINE b == stack[Main][1].pc
             c == stack'[Main][1].pc
  <2> SUFFICES /\ gate' \in [Line -> Gate]
               /\ \A l \in Line : gate'[l] = "serial_interrupt" => l = SERIAL
               /\ c # "init_interrupt" => \A l \in Line : gate'[l] # "none"
               /\ c \notin {"init_interrupt", "hw_timer_init"} => gate'[TIMER] = "systick_intr"
               /\ c \in {"init_interrupt", "hw_timer_init", "serial_init", "kbd_init"} =>
                     gate'[KBD] # "kbd_interrupt"
    BY DEF GatesOK, Quiet, Booting
  <2>1. /\ gate \in [Line -> Gate]
        /\ \A l \in Line : gate[l] = "serial_interrupt" => l = SERIAL
        /\ b # "init_interrupt" => \A l \in Line : gate[l] # "none"
        /\ b \notin {"init_interrupt", "hw_timer_init"} => gate[TIMER] = "systick_intr"
        /\ b \in {"init_interrupt", "hw_timer_init", "serial_init", "kbd_init"} =>
              gate[KBD] # "kbd_interrupt"
    BY DEF GatesOK, Quiet, Booting
  <2> HIDE DEF b, c
  <2>2. CASE init_interrupt
    <3>1. c = "hw_timer_init" /\ gate' = [l \in Line |-> IF l \in Line THEN "default_isr" ELSE gate[l]]
      BY <2>2, MainMoves, Statements DEF init_interrupt, c
    <3> QED BY <3>1, Lines DEF Gate
  <2>3. CASE hw_timer_init
    <3>1. /\ b = "hw_timer_init" /\ c = "serial_init"
          /\ gate' = [l \in Line |-> IF l \in {TIMER} THEN "systick_intr" ELSE gate[l]]
      BY <2>3, MainMoves, Statements DEF hw_timer_init, b, c
    <3> QED BY <2>1, <3>1, Lines DEF Gate
  <2>4. CASE serial_init
    <3>1. /\ b = "serial_init" /\ c = "kbd_init"
          /\ gate' = [l \in Line |-> IF l \in {SERIAL} THEN "serial_interrupt" ELSE gate[l]]
      BY <2>4, MainMoves, Statements DEF serial_init, b, c
    <3> QED BY <2>1, <3>1, Lines DEF Gate
  <2>5. CASE kbd_init
    <3>1. /\ b = "kbd_init" /\ c = "sched_init"
          /\ gate' = [l \in Line |-> IF l \in {KBD} THEN "kbd_interrupt" ELSE gate[l]]
      BY <2>5, MainMoves, Statements DEF kbd_init, b, c
    <3> QED BY <2>1, <3>1, Lines DEF Gate
  <2>6. CASE sched_init
    <3>1. /\ b = "sched_init" /\ c = "ide_init"
          /\ gate' = [l \in Line |-> IF l \in {} THEN "none" ELSE gate[l]]
      BY <2>6, MainMoves, Statements DEF sched_init, b, c
    <3> QED BY <2>1, <3>1, Lines DEF Gate
  <2>7. CASE ide_init
    <3>1. /\ b = "ide_init" /\ c = "user"
          /\ gate' = [l \in Line |-> IF l \in {DISK} THEN "ide_interrupt" ELSE gate[l]]
      BY <2>7, MainMoves, Statements DEF ide_init, b, c
    <3> QED BY <2>1, <3>1, Lines DEF Gate
  <2> QED BY <1>2, <2>2, <2>3, <2>4, <2>5, <2>6, <2>7 DEF main
<1> QED BY <1>1, <1>2

\* Neither a return nor an interrupt is main's.
LEMMA SameGates ==
    ASSUME GatesOK, UNCHANGED gate, stack'[Main][1] = stack[Main][1]
    PROVE  GatesOK'
  BY DEF GatesOK, Quiet, Booting

---------------------------------------------------------------------------
(* The tick that is counted and the byte that is read.                     *)

\* A handler runs with the gates main has set.
LEMMA HandlersGated ==
    ASSUME StacksOK, BootOK, GatesOK, NEW t \in Task, NEW i \in 2 .. Len(stack[t])
    PROVE  gate[TIMER] = "systick_intr"
<1>1. Len(stack[t]) \in Nat
  BY RecordTypes
<1>2. Len(stack[t]) >= 2
  BY <1>1
<1>3. Len(stack[t]) # 1
  BY <1>1, <1>2, TwoOrMore
<1>4. ~Quiet
  BY <1>3 DEF BootOK
<1> QED BY <1>4 DEF Quiet, Booting, GatesOK

\* Which statement runs, by the top record.
LEMMA TurnIs ==
    ASSUME NEW t \in Task, Turn(t)
    PROVE  /\ main => cur = Main /\ Top(Main).pc \in BootPC
           /\ Top(t).pc = "entry" => entry(t)
           /\ Top(t).pc = "isr" => isr(t)
           /\ Top(t).pc = "eoi" => eoi(t)
           /\ Top(t).pc \notin {"entry", "isr"} /\ ~main => UNCHANGED <<obf, irr, early, gate>>
<1>1. ASSUME main PROVE cur = Main /\ Top(Main).pc \in BootPC
  BY <1>1, Statements DEF main, init_interrupt, hw_timer_init, serial_init, kbd_init, sched_init,
                ide_init, BootStep, At, BootPC
<1>2. t = cur
  BY DEF Turn, main, init_interrupt, hw_timer_init, serial_init, kbd_init, sched_init,
                ide_init, BootStep, At, entry, isr, eoi, test, serial_putc, putc_step,
                sema_down, serial_putc_poll, sema_up
<1>3. CASE main
  BY <1>1, <1>2, <1>3 DEF BootPC
<1>4. CASE ~main
  <2>1. /\ Top(t).pc = "entry" => entry(t)
        /\ Top(t).pc = "isr" => isr(t)
        /\ Top(t).pc = "eoi" => eoi(t)
    BY <1>4 DEF Turn, At, entry, isr, eoi, test, serial_putc, putc_step,
                sema_down, serial_putc_poll, sema_up
  <2>2. Top(t).pc \notin {"entry", "isr"} => UNCHANGED <<obf, irr, early, gate>>
    BY <1>4 DEF Turn, At, entry, isr, eoi, test, serial_putc, putc_step,
                sema_down, serial_putc_poll, sema_up, pics, devices
  <2> QED BY <1>4, <2>1, <2>2
<1> QED BY <1>3, <1>4

LEMMA TurnTick ==
    ASSUME StacksOK, AtomicOK, BootOK, GatesOK, TickOK, NEW t \in Task, Turn(t)
    PROVE  TickOK'
<1>1. PICK r \in RecordType : Replaced(t, r) /\ r.irq = Top(t).irq /\ Change(t, Top(t), r)
  BY Turns DEF Changes
<1> SUFFICES ASSUME NEW u \in Task, NEW i \in 2 .. Len(stack'[u]),
                    stack'[u][i].irq = TIMER, stack'[u][i].pc \in {"eoi", "test"}
             PROVE  sched_on_return'
  BY DEF TickOK
<1>2. i \in 2 .. Len(stack[u]) /\ i \in 1 .. Len(stack[u]) /\ HandlerOK(stack[u][i])
  BY <1>1, ServesRange DEF Replaced
<1>3. t = cur
  BY Turns
<1>4. u = t /\ i = Len(stack[t])
  <2>1. SUFFICES ASSUME ~(u = t /\ i = Len(stack[t])) PROVE FALSE
    OBVIOUS
  <2>2. stack'[u][i] = stack[u][i]
    BY <1>1, <1>2, <2>1 DEF Replaced
  <2>3. Atomic(stack[u][i])
    BY <2>2, Lines DEF Atomic
  <2> QED BY <1>2, <1>3, <2>1, <2>3 DEF AtomicOK
<1>5. stack'[u][i] = r /\ stack[u][i] = Top(t)
  BY <1>1, <1>2, <1>4 DEF Replaced, Top
<1>6. Top(t).pc \in {"isr", "eoi"} /\ Top(t).irq = TIMER
  BY <1>1, <1>2, <1>5, Lines DEF Change, HandlerOK
<1>7. CASE Top(t).pc = "isr"
  <2>1. isr(t) /\ gate[Top(t).irq] = "systick_intr"
    BY <1>2, <1>4, <1>6, <1>7, TurnIs, HandlersGated
  <2> QED BY <2>1 DEF isr, systick_intr
<1>8. CASE Top(t).pc = "eoi"
  <2>1. eoi(t) /\ sched_on_return
    BY <1>2, <1>5, <1>6, <1>8, TurnIs DEF TickOK
  <2> QED BY <2>1 DEF eoi
<1> QED BY <1>6, <1>7, <1>8

LEMMA ReturnTick ==
    ASSUME StacksOK, TickOK, NEW t \in Task, iret(t)
    PROVE  TickOK'
<1>1. Popped(t) /\ UNCHANGED sched_on_return
  BY ReturnPops DEF iret
<1> SUFFICES ASSUME NEW u \in Task, NEW i \in 2 .. Len(stack'[u]),
                    stack'[u][i].irq = TIMER, stack'[u][i].pc \in {"eoi", "test"}
             PROVE  sched_on_return'
  BY DEF TickOK
<1>2. Len(stack[u]) \in Nat
  BY RecordTypes
<1>3. i \in 2 .. Len(stack[u]) /\ stack'[u][i] = stack[u][i]
  BY <1>1, <1>2 DEF Popped
<1> QED BY <1>1, <1>3 DEF TickOK

LEMMA InterruptTick ==
    ASSUME TypeOK, StacksOK, TickOK, NEW l \in Line, Interrupt(l)
    PROVE  TickOK'
<1> DEFINE r == Record(l, "entry", 0)
<1>1. Pushed(cur, r) /\ r.pc = "entry" /\ UNCHANGED sched_on_return
  BY InterruptPushes DEF Interrupt
<1> HIDE DEF r
<1> SUFFICES ASSUME NEW u \in Task, NEW i \in 2 .. Len(stack'[u]),
                    stack'[u][i].irq = TIMER, stack'[u][i].pc \in {"eoi", "test"}
             PROVE  sched_on_return'
  BY DEF TickOK
<1>2. Len(stack[u]) \in Nat
  BY RecordTypes
<1>3. i \in 2 .. Len(stack[u]) /\ stack'[u][i] = stack[u][i]
  BY <1>1, <1>2 DEF Pushed
<1> QED BY <1>1, <1>3 DEF TickOK

LEMMA UnreadIsNext ==
    ASSUME AtomicOK, NEW t \in Task, t = cur, NEW u \in Task, NEW i \in 2 .. Len(stack[u]),
           stack[u][i].irq \in Line, stack[u][i].pc \in {"entry", "isr"}
    PROVE  u = t /\ i = Len(stack[t]) /\ stack[u][i] = Top(t)
  BY DEF AtomicOK, Atomic, Top

LEMMA TurnKey ==
    ASSUME StacksOK, AtomicOK, BootOK, GatesOK, KeyOK, NEW t \in Task, Turn(t)
    PROVE  KeyOK'
<1>1. PICK r \in RecordType : Replaced(t, r) /\ r.irq = Top(t).irq /\ Change(t, Top(t), r)
  BY Turns DEF Changes
<1>2. t = cur /\ UNCHANGED early /\ Len(stack[t]) \in Nat
  <2>1. UNCHANGED early
    BY DEF Turn, main, init_interrupt, hw_timer_init, serial_init, kbd_init, sched_init, ide_init,
           BootStep, entry, isr, eoi, test, serial_putc, putc_step, sema_down, serial_putc_poll, sema_up
  <2> QED BY <2>1, Turns, RecordTypes
<1> SUFFICES ASSUME obf', ~early'
             PROVE  /\ gate'[KBD] = "kbd_interrupt"
                    /\ \/ KBD \in irr'
                       \/ \E u \in Task : \E i \in 2 .. Len(stack'[u]) :
                             stack'[u][i].irq = KBD /\ stack'[u][i].pc \in {"entry", "isr"}
  BY DEF KeyOK
<1>3. obf
  BY DEF Turn, main, init_interrupt, hw_timer_init, serial_init, kbd_init, sched_init, ide_init,
         BootStep, entry, isr, eoi, test, serial_putc, putc_step, sema_down, serial_putc_poll, sema_up,
         devices, systick_intr, kbd_interrupt, serial_interrupt, ide_interrupt, default_isr
<1>4. gate[KBD] = "kbd_interrupt"
  BY <1>2, <1>3 DEF KeyOK
<1>5. CASE KBD \in irr \/ main
  <2>1. CASE main
    <3>1. ~init_interrupt /\ ~hw_timer_init /\ ~serial_init /\ ~kbd_init
      BY <1>4, MainMoves, Statements
         DEF GatesOK, Quiet, Booting, init_interrupt, hw_timer_init, serial_init, kbd_init
    <3>2. UNCHANGED irr /\ gate'[KBD] = "kbd_interrupt"
      BY <1>4, <2>1, <3>1, Lines DEF main, sched_init, ide_init, BootStep, pics
    <3>3. ASSUME NEW u \in Task, NEW i \in 2 .. Len(stack[u]),
                 stack[u][i].irq = KBD, stack[u][i].pc \in {"entry", "isr"}
          PROVE  FALSE
      <4>1. t = Main /\ Top(t).pc \in BootPC
        BY <1>2, <2>1, TurnIs
      <4>2. stack[u][i] = Top(t)
        BY <1>2, <3>3, UnreadIsNext, Lines
      <4> QED BY <3>3, <4>1, <4>2 DEF BootPC
    <3> QED BY <1>2, <1>3, <3>2, <3>3 DEF KeyOK
  <2>2. CASE ~main
    <3>1. UNCHANGED <<irr, gate>>
      BY <2>2 DEF Turn, entry, isr, eoi, test, serial_putc, putc_step, sema_down, serial_putc_poll,
                  sema_up, pics
    <3> QED BY <1>4, <1>5, <2>2, <3>1
  <2> QED BY <2>1, <2>2
<1>6. CASE KBD \notin irr /\ ~main
  <2>1. PICK u \in Task : \E i \in 2 .. Len(stack[u]) :
                             stack[u][i].irq = KBD /\ stack[u][i].pc \in {"entry", "isr"}
    BY <1>2, <1>3, <1>6 DEF KeyOK
  <2>2. PICK i \in 2 .. Len(stack[u]) :
            stack[u][i].irq = KBD /\ stack[u][i].pc \in {"entry", "isr"}
    BY <2>1
  <2>3. u = t /\ i = Len(stack[t]) /\ Top(t).irq = KBD /\ Top(t).pc \in {"entry", "isr"}
    BY <1>2, <2>2, UnreadIsNext, Lines
  <2>4. CASE Top(t).pc = "isr"
    <3>1. isr(t)
      BY <2>4, TurnIs
    <3>2. obf' = FALSE
      BY <1>4, <2>3, <3>1 DEF isr, kbd_interrupt
    <3> QED BY <3>2
  <2>5. CASE Top(t).pc = "entry"
    <3>1. UNCHANGED gate
      BY <2>5, TurnIs DEF entry
    <3>2. r.pc = "isr" /\ r.irq = KBD
      BY <1>1, <2>3, <2>5 DEF Change, BootPC
    <3>3. Len(stack'[t]) = Len(stack[t]) /\ i \in 1 .. Len(stack[t])
      BY <1>1, <1>2, <2>2, <2>3 DEF Replaced
    <3>4. stack'[t][i] = r
      BY <1>1, <2>3, <3>3 DEF Replaced
    <3> QED BY <1>4, <2>2, <2>3, <3>1, <3>2, <3>3, <3>4
  <2> QED BY <2>3, <2>4, <2>5
<1> QED BY <1>5, <1>6

LEMMA ReturnKey ==
    ASSUME StacksOK, KeyOK, NEW t \in Task, iret(t)
    PROVE  KeyOK'
<1>1. Popped(t) /\ Top(t).pc = "iret" /\ UNCHANGED <<gate, irr, obf, early>>
  BY ReturnPops DEF iret, pics, devices
<1>2. ASSUME NEW u \in Task, NEW i \in 2 .. Len(stack[u]),
             stack[u][i].irq = KBD, stack[u][i].pc \in {"entry", "isr"}
      PROVE  i \in 2 .. Len(stack'[u]) /\ stack'[u][i] = stack[u][i]
  <2>1. Len(stack[u]) \in Nat
    BY RecordTypes
  <2>2. ~(u = t /\ i = Len(stack[u]))
    BY <1>1, <1>2 DEF Top
  <2>3. i \in 2 .. Len(stack'[u])
    BY <1>1, <2>1, <2>2 DEF Popped
  <2>4. i \in 1 .. Len(stack'[u])
    BY <2>3
  <2> QED BY <1>1, <2>3, <2>4 DEF Popped
<1> QED BY <1>1, <1>2 DEF KeyOK

LEMMA InterruptKey ==
    ASSUME TypeOK, StacksOK, KeyOK, NEW l \in Line, Interrupt(l)
    PROVE  KeyOK'
<1> DEFINE r == Record(l, "entry", 0)
<1>1. Pushed(cur, r) /\ cur \in Task /\ r.pc = "entry" /\ r.irq = l
  BY InterruptPushes
<1>2. UNCHANGED <<gate, obf, early>> /\ irr' = irr \ {l}
  BY DEF Interrupt, Acknowledge, devices
<1> HIDE DEF r
<1>3. \A u \in Task : Len(stack[u]) \in Nat /\ Len(stack[u]) >= 1
  BY RecordTypes
<1>4. ASSUME NEW u \in Task, NEW i \in 2 .. Len(stack[u])
      PROVE  i \in 2 .. Len(stack'[u]) /\ stack'[u][i] = stack[u][i]
  <2>1. i \in 1 .. Len(stack[u])
    BY <1>3
  <2>2. i \in 2 .. Len(stack'[u])
    BY <1>1, <1>3 DEF Pushed
  <2> QED BY <1>1, <2>1, <2>2 DEF Pushed
<1>5. Len(stack[cur]) + 1 \in 2 .. Len(stack'[cur]) /\ stack'[cur][Len(stack[cur]) + 1] = r
  BY <1>1, <1>3 DEF Pushed
<1>6. CASE l = KBD
  BY <1>1, <1>2, <1>5, <1>6 DEF KeyOK
<1>7. CASE l # KBD
  BY <1>2, <1>4, <1>7 DEF KeyOK
<1> QED BY <1>6, <1>7

LEMMA DeviceKey ==
    ASSUME KeyOK, Device
    PROVE  KeyOK'
<1>1. UNCHANGED <<stack, gate>>
  BY DeviceFrame
<1>2. CASE key
  BY <1>1, <1>2 DEF key, Edge, KeyOK
<1>3. CASE tick \/ receive \/ disk
  <2>1. irr \subseteq irr' /\ UNCHANGED <<obf, early>>
    BY <1>3 DEF tick, receive, disk, Edge, devices
  <2> QED BY <1>1, <2>1 DEF KeyOK
<1> QED BY <1>2, <1>3 DEF Device

---------------------------------------------------------------------------
(* Who waits, who holds the semaphore and who is in the list.              *)

LEMMA Awake ==
    ASSUME BootOK, QueueOK
    PROVE  cur \notin waiting["sema_write"]
  BY DEF BootOK, QueueOK

\* The top record of a task whose own record is not on top.
LEMMA TopHandler ==
    ASSUME StacksOK, NEW t \in Task, Len(stack[t]) # 1
    PROVE  /\ Len(stack[t]) \in 2 .. Len(stack[t]) /\ HandlerOK(Top(t))
           /\ Top(t).pc \in {"down", "poll", "up"} => Serves(t, Len(stack[t]), SERIAL)
<1>1. /\ Len(stack[t]) \in Nat /\ Len(stack[t]) >= 1 /\ Top(t) = stack[t][Len(stack[t])]
  BY RecordTypes
<1>2. Len(stack[t]) \in 2 .. Len(stack[t])
  BY <1>1, OneOrMore
<1>3. HandlerOK(Top(t))
  BY <1>1, <1>2, ServesRange
<1>4. Top(t).pc \in {"down", "poll", "up"} => Serves(t, Len(stack[t]), SERIAL)
  BY <1>1, <1>2, <1>3 DEF Serves, HandlerOK
<1> QED BY <1>2, <1>3, <1>4

\* A task that is not on top of its stack and holds the semaphore is in
\* serial_putc, and the handler above it waits, or is about to.
LEMMA HolderIsBelow ==
    ASSUME StacksOK, BitsOK, NEW t \in Task, NEW j \in 1 .. Len(stack[t]),
           j # Len(stack[t]), stack[t][j].pc \in {"poll", "up"},
           Top(t).pc \in {"down", "poll", "up"}
    PROVE  j = 1 /\ t \in Writer /\ Serves(t, Len(stack[t]), SERIAL)
<1>1. Len(stack[t]) \in Nat /\ Len(stack[t]) # 1
  BY RecordTypes
<1>2. Len(stack[t]) \in 2 .. Len(stack[t]) /\ Serves(t, Len(stack[t]), SERIAL)
  BY <1>1, TopHandler
<1>3. j = 1
  <2>1. SUFFICES ASSUME j # 1 PROVE FALSE
    OBVIOUS
  <2>2. j \in 2 .. Len(stack[t])
    BY <1>1, <2>1
  <2>3. HandlerOK(stack[t][j])
    BY <2>2, ServesRange
  <2>4. Serves(t, j, SERIAL)
    BY <2>2, <2>3 DEF Serves, HandlerOK
  <2> QED BY <1>2, <2>2, <2>4, Lines DEF BitsOK, Alone
<1>4. OwnOK(t, stack[t][1])
  BY RecordTypes
<1> QED BY <1>2, <1>3, <1>4 DEF OwnOK

\* Whoever goes to sleep leaves somebody to run.
LEMMA SomebodyRuns ==
    ASSUME TypeOK, StacksOK, BitsOK, SleepOK, HoldOK, ~Quiet, NEW t \in Task, Top(t).pc = "down",
           value["sema_write"] = 0
    PROVE  \E u \in Task : u # t /\ u \notin waiting["sema_write"]
<1> SUFFICES ASSUME \A u \in Task : u = t \/ u \in waiting["sema_write"]
             PROVE  FALSE
  OBVIOUS
<1>1. PICK e \in Task : e \notin Writer
  BY InterruptsAssumption
<1>2. \A u \in Task : Top(u).pc \in {"down", "poll"}
  BY DEF SleepOK
<1>3. Len(stack[e]) # 1
  <2>1. OwnOK(e, stack[e][1]) /\ Top(e) = stack[e][Len(stack[e])]
    BY RecordTypes
  <2> QED BY <1>1, <1>2, <2>1 DEF OwnOK
<1>4. Serves(e, Len(stack[e]), SERIAL)
  BY <1>2, <1>3, TopHandler
<1>5. PICK v \in Task : \E j \in 1 .. Len(stack[v]) : Holds(v, j)
  BY DEF HoldOK
<1>6. PICK j \in 1 .. Len(stack[v]) : Holds(v, j)
  BY <1>5
<1>7. j # Len(stack[v]) /\ stack[v][j].pc \in {"poll", "up"}
  <2>1. Top(v) = stack[v][Len(stack[v])]
    BY RecordTypes
  <2> QED BY <1>6, <2>1 DEF Holds
<1>8. v \in Writer /\ Serves(v, Len(stack[v]), SERIAL)
  BY <1>2, <1>7, HolderIsBelow
<1>9. v = e
  BY <1>4, <1>8, Lines DEF BitsOK, Alone, Serves
<1> QED BY <1>1, <1>8, <1>9

LEMMA SameQueue ==
    ASSUME QueueOK, UNCHANGED <<ready, cur, crashed, waiting>>, Unscheduled' <=> Unscheduled
    PROVE  QueueOK'
  BY DEF QueueOK

LEMMA DownQueue ==
    ASSUME TypeOK, StacksOK, BitsOK, BootOK, QueueOK, SleepOK, HoldOK, NEW t \in Task, sema_down(t)
    PROVE  QueueOK' /\ ThreadType'
<1>1. /\ Turn(t) /\ ~main /\ Top(t).pc = "down" /\ t = cur
  BY TurnIs, Statements DEF Turn, putc_step, sema_down, At, BootPC
<1>2. Unscheduled' <=> Unscheduled
  BY <1>1, BootStays
<1>3. CASE UNCHANGED <<waiting, IF_flag, cur, ready, crashed>>
  BY <1>2, <1>3, SameQueue DEF TypeOK, ThreadType
<1>4. CASE /\ value["sema_write"] = 0 /\ waiting'["sema_write"] = waiting["sema_write"] \cup {t}
           /\ schedule(list_del(ready, t))
  <2>1. ~Unscheduled /\ ~Quiet
    BY <1>4, FirstTaken DEF Unscheduled
  <2>2. /\ ~crashed /\ Queue(ready) /\ cur \in Task
        /\ \A u \in Task : u \in Range(ready) <=> u \notin waiting["sema_write"]
    BY <2>1 DEF QueueOK, TypeOK, Queue
  <2> DEFINE q == list_del(ready, t)
  <2>3. Queue(q) /\ \A x : x \in Range(q) <=> x \in Range(ready) /\ x # t
    BY <2>2, Unlinked
  <2>4. schedule(q)
    BY <1>4
  <2> HIDE DEF q
  <2>5. q # <<>>
    <3>1. PICK u \in Task : u # t /\ u \notin waiting["sema_write"]
      BY <1>1, <1>4, <2>1, SomebodyRuns
    <3>2. u \in Range(q)
      BY <2>2, <2>3, <3>1
    <3>3. Range(<<>>) = {}
      BY DEF Range
    <3> QED BY <3>2, <3>3
  <2>6. /\ UNCHANGED crashed /\ IF_flag' /\ cur' \in Task /\ cur' \in Range(q) /\ Queue(ready')
        /\ \A x : x \in Range(ready') <=> x \in Range(q)
    BY <2>2, <2>3, <2>4, <2>5, Scheduled
  <2>7. QueueOK'
    BY <1>4, <2>2, <2>3, <2>6 DEF QueueOK, Queue
  <2>8. IF_flag' = TRUE
    BY <2>4, <2>5 DEF schedule
  <2> QED BY <2>2, <2>6, <2>7, <2>8 DEF ThreadType, TypeOK
<1> QED BY <1>3, <1>4, Downs

LEMMA UpQueue ==
    ASSUME TypeOK, StacksOK, BootOK, QueueOK, NEW t \in Task, sema_up(t)
    PROVE  QueueOK' /\ ThreadType'
<1>1. Turn(t) /\ ~main
  BY TurnIs, Statements DEF Turn, putc_step, sema_up, At, BootPC
<1>2. Unscheduled' <=> Unscheduled
  BY <1>1, BootStays
<1>3. UNCHANGED <<IF_flag, cur, crashed>> /\ ThreadType'
  BY Ups DEF TypeOK, ThreadType
<1>4. CASE waiting["sema_write"] = {} /\ waiting'["sema_write"] = {} /\ UNCHANGED ready
  BY <1>2, <1>3, <1>4 DEF QueueOK
<1>5. CASE \E u \in waiting["sema_write"] :
               waiting'["sema_write"] = waiting["sema_write"] \ {u} /\ ready' = Append(ready, u)
  <2>1. PICK u \in waiting["sema_write"] :
               waiting'["sema_write"] = waiting["sema_write"] \ {u} /\ ready' = Append(ready, u)
    BY <1>5
  <2>2. u \in Task
    BY DEF TypeOK, Sem
  <2>3. /\ Queue(ready) /\ ~crashed /\ cur \notin waiting["sema_write"]
        /\ \A v \in Task : v \in Range(ready) <=> v \notin waiting["sema_write"]
    BY <2>1 DEF BootOK, QueueOK, Queue
  <2>4. /\ Queue(Append(ready, u))
        /\ \A x : x \in Range(Append(ready, u)) <=> x \in Range(ready) \/ x = u
    BY <2>1, <2>2, <2>3, Appended
  <2> QED BY <1>3, <2>1, <2>2, <2>3, <2>4 DEF QueueOK, Queue
<1> QED BY <1>3, <1>4, <1>5, Ups

LEMMA TestQueue ==
    ASSUME TypeOK, StacksOK, BootOK, QueueOK, NEW t \in Task, test(t)
    PROVE  QueueOK' /\ ThreadType'
<1>1. Turn(t) /\ ~main /\ UNCHANGED waiting
  BY TurnIs, Statements DEF Turn, test, At, BootPC, semas
<1>2. Unscheduled' <=> Unscheduled
  BY <1>1, BootStays
<1>3. CASE UNCHANGED <<IF_flag, threads>>
  BY <1>1, <1>2, <1>3, SameQueue DEF TypeOK, ThreadType, threads
<1>4. CASE schedule(ready)
  <2>1. Queue(ready) /\ cur \in Task
    BY DEF QueueOK, Queue, TypeOK
  <2>2. CASE ready = <<>>
    <3>1. crashed' = TRUE /\ UNCHANGED <<cur, ready, IF_flag>>
      BY <1>4, <2>2 DEF schedule
    <3>2. Unscheduled
      <4>1. Range(<<>>) = {}
        BY DEF Range
      <4> QED BY <2>1, <2>2, <4>1 DEF QueueOK
    <3> QED BY <1>1, <1>2, <3>1, <3>2 DEF QueueOK, TypeOK, ThreadType
  <2>3. CASE ready # <<>>
    <3>1. IF_flag' = TRUE
      BY <1>4, <2>3 DEF schedule
    <3>2. /\ UNCHANGED crashed /\ cur' \in Task /\ cur' \in Range(ready) /\ Queue(ready')
          /\ \A x : x \in Range(ready') <=> x \in Range(ready)
      BY <1>4, <2>1, <2>3, Scheduled
    <3>3. QueueOK'
      BY <1>1, <1>2, <3>2 DEF QueueOK, Queue
    <3> QED BY <3>1, <3>2, <3>3 DEF TypeOK, ThreadType
  <2> QED BY <2>2, <2>3
<1> QED BY <1>3, <1>4 DEF test

LEMMA MainQueue ==
    ASSUME TypeOK, StacksOK, BootOK, QueueOK, main
    PROVE  QueueOK' /\ ThreadType'
<1>1. ThreadType'
  <2>1. UNCHANGED <<cur, crashed>> /\ IF_flag' \in {IF_flag, TRUE}
    BY DEF main, init_interrupt, hw_timer_init, serial_init, kbd_init, sched_init, ide_init, BootStep
  <2> QED BY <2>1 DEF TypeOK, ThreadType
<1>2. ~crashed /\ UNCHANGED <<cur, crashed>>
  BY DEF main, init_interrupt, hw_timer_init, serial_init, kbd_init, sched_init, ide_init,
         BootStep, At
<1>3. CASE init_interrupt \/ hw_timer_init \/ serial_init \/ kbd_init
  <2>1. UNCHANGED ready
    BY <1>3 DEF init_interrupt, hw_timer_init, serial_init, kbd_init
  <2>2. stack'[Main][1].pc \in {"hw_timer_init", "serial_init", "kbd_init", "sched_init"}
    BY <1>3, MainMoves, Statements DEF init_interrupt, hw_timer_init, serial_init, kbd_init
  <2>3. Unscheduled'
    BY <2>2 DEF Unscheduled, Quiet, Booting
  <2> QED BY <1>1, <2>1, <2>3 DEF QueueOK
<1>4. CASE sched_init
  <2>1. /\ UNCHANGED waiting /\ ready' = <<Main>> \o SetToSeq(Task \ {Main})
        /\ stack[Main][1].pc = "sched_init"
    BY <1>4, MainMoves, Statements DEF sched_init, semas
  <2>2. waiting'["sema_write"] = {}
    BY <2>1 DEF BootOK, Unscheduled, Booting
  <2>3. Queue(ready') /\ \A t \in Task : t \in Range(ready')
    BY <2>1, AllListed
  <2> QED BY <1>1, <1>2, <2>2, <2>3 DEF QueueOK, Queue
<1>5. CASE ide_init
  <2>1. /\ UNCHANGED <<ready, waiting>>
        /\ stack[Main][1].pc = "ide_init" /\ stack'[Main][1].pc = "user"
    BY <1>5, MainMoves, Statements DEF ide_init, semas
  <2>2. ~Unscheduled /\ ~Unscheduled'
    BY <2>1 DEF Unscheduled, Quiet, Booting
  <2> QED BY <1>1, <1>2, <2>1, <2>2, SameQueue
<1> QED BY <1>3, <1>4, <1>5 DEF main

LEMMA TurnQueue ==
    ASSUME TypeOK, StacksOK, BitsOK, BootOK, QueueOK, SleepOK, HoldOK, NEW t \in Task, Turn(t)
    PROVE  QueueOK' /\ ThreadType'
<1>1. CASE entry(t) \/ isr(t) \/ eoi(t) \/ serial_putc(t) \/ serial_putc_poll(t)
  <2>1. UNCHANGED <<ready, cur, crashed, waiting, IF_flag>>
    BY <1>1 DEF entry, isr, eoi, serial_putc_poll, serial_putc, threads, semas,
            systick_intr, kbd_interrupt, serial_interrupt, ide_interrupt, default_isr
  <2>2. ~main
    BY <1>1, TurnIs DEF entry, isr, eoi, serial_putc_poll, serial_putc, At, BootPC
  <2>3. Unscheduled' <=> Unscheduled
    BY <2>2, BootStays
  <2> QED BY <2>1, <2>3, SameQueue DEF TypeOK, ThreadType
<1> QED BY <1>1, DownQueue, UpQueue, TestQueue, MainQueue DEF Turn, putc_step

\* Nothing but sema_down and sema_up changes who waits, nor main but once.
LEMMA SemaphoreFrame ==
    ASSUME StacksOK, NEW t \in Task, Turn(t)
    PROVE  \/ /\ UNCHANGED <<value, waiting>>
              /\ Top(t).pc # "up"
              /\ ~sema_down(t) /\ ~serial_init
           \/ sema_down(t) /\ ~main
           \/ sema_up(t) /\ ~main
           \/ serial_init
<1>1. CASE main
  <2>1. cur = Main /\ Top(Main).pc \in BootPC /\ t = cur
    BY <1>1, TurnIs, Turns
  <2> QED BY <1>1, <2>1 DEF main, init_interrupt, hw_timer_init, serial_init, kbd_init, sched_init,
                ide_init, semas, BootPC, sema_down, At
<1>2. CASE entry(t) \/ isr(t) \/ eoi(t) \/ test(t) \/ serial_putc(t) \/ serial_putc_poll(t)
  <2>1. UNCHANGED <<value, waiting>> /\ Top(t).pc \notin {"down", "up"}
    BY <1>2 DEF entry, isr, eoi, test, serial_putc, serial_putc_poll, semas, At,
            systick_intr, kbd_interrupt, serial_interrupt, ide_interrupt, default_isr
  <2>2. ~main
    BY <1>2, TurnIs DEF BootPC, entry, isr, eoi, test, serial_putc, serial_putc_poll, At
  <2> QED BY <2>1, <2>2 DEF main, sema_down, At
<1>3. CASE sema_down(t) \/ sema_up(t)
  <2>1. ~main
    BY <1>3, TurnIs DEF BootPC, sema_down, sema_up, At
  <2> QED BY <1>3, <2>1
<1> QED BY <1>1, <1>2, <1>3 DEF Turn, putc_step

LEMMA FirstUnit ==
    ASSUME serial_init
    PROVE  /\ value'["sema_write"] = 1 /\ waiting'["sema_write"] = {}
  BY DEF serial_init, Sem

LEMMA TurnSleep ==
    ASSUME TypeOK, StacksOK, BootOK, QueueOK, SleepOK, NEW t \in Task, Turn(t)
    PROVE  SleepOK'
<1>1. PICK r \in RecordType : Replaced(t, r) /\ r.irq = Top(t).irq /\ Change(t, Top(t), r)
  BY Turns DEF Changes
<1>2. t = cur /\ t \notin waiting["sema_write"]
  BY Turns, Awake
<1>3. ASSUME NEW u \in Task, u # t PROVE Top(u)' = Top(u)
  <2>1. Len(stack[u]) \in 1 .. Len(stack[u]) /\ Len(stack'[u]) = Len(stack[u])
    BY <1>1, RecordTypes DEF Replaced
  <2> QED BY <1>1, <1>3, <2>1 DEF Replaced, Top
<1>4. waiting["sema_write"] \subseteq Task
  BY DEF TypeOK, Sem
<1>5. CASE sema_down(t)
  <2>1. Top(t).pc = "down"
    BY <1>5 DEF sema_down, At
  <2>2. r.pc = "poll"
    BY <1>1, <2>1 DEF Change, BootPC
  <2>3. stack'[t][Len(stack'[t])] = r
    <3>1. Len(stack[t]) \in 1 .. Len(stack[t]) /\ Len(stack'[t]) = Len(stack[t])
      BY <1>1, RecordTypes DEF Replaced
    <3> QED BY <1>1, <3>1 DEF Replaced
  <2>4. waiting'["sema_write"] \subseteq waiting["sema_write"] \cup {t}
    BY <1>5, Downs
  <2>5. ASSUME NEW u \in waiting'["sema_write"] PROVE Top(u)'.pc = "poll"
    <3>1. CASE u = t
      BY <2>2, <2>3, <3>1 DEF Top
    <3>2. CASE u # t
      BY <1>3, <1>4, <2>4, <3>2 DEF SleepOK
    <3> QED BY <3>1, <3>2
  <2> QED BY <2>5 DEF SleepOK
<1>6. CASE waiting'["sema_write"] \subseteq waiting["sema_write"]
  <2>1. ASSUME NEW u \in waiting'["sema_write"] PROVE Top(u)'.pc = "poll"
    BY <1>2, <1>3, <1>4, <1>6 DEF SleepOK
  <2> QED BY <2>1 DEF SleepOK
<1>7. sema_down(t) \/ waiting'["sema_write"] \subseteq waiting["sema_write"]
  BY SemaphoreFrame, Ups, FirstUnit
<1> QED BY <1>5, <1>6, <1>7

LEMMA TurnHold ==
    ASSUME TypeOK, StacksOK, BootOK, QueueOK, SleepOK, HoldOK, NEW t \in Task, Turn(t)
    PROVE  HoldOK'
<1>1. PICK r \in RecordType : Replaced(t, r) /\ r.irq = Top(t).irq /\ Change(t, Top(t), r)
  BY Turns DEF Changes
<1>2. t = cur /\ t \notin waiting["sema_write"]
  BY Turns, Awake
<1>3. /\ \A u \in Task : Len(stack'[u]) = Len(stack[u])
      /\ \A u \in Task : Len(stack[u]) \in 1 .. Len(stack[u])
      /\ Top(t) = stack[t][Len(stack[t])]
      /\ stack'[t][Len(stack[t])] = r
  BY <1>1, RecordTypes DEF Replaced
<1>4. ASSUME NEW u \in Task, NEW j \in 1 .. Len(stack[u]), ~(u = t /\ j = Len(stack[t]))
      PROVE  stack'[u][j] = stack[u][j]
  BY <1>1, <1>4 DEF Replaced
<1> SUFFICES ASSUME ~Quiet', value'["sema_write"] = 0 \/ waiting'["sema_write"] # {}
             PROVE  \E u \in Task : \E j \in 1 .. Len(stack'[u]) : Holds(u, j)'
  BY DEF HoldOK
<1>5. CASE UNCHANGED <<value, waiting>> /\ Top(t).pc # "up" /\ ~serial_init
  <2>1. ~Quiet
    <3>1. CASE ~main
      BY <3>1, BootStays
    <3>2. CASE main
      <4>1. ASSUME Quiet PROVE init_interrupt \/ hw_timer_init
        BY <1>5, <3>2, <4>1, MainMoves, Statements
           DEF main, kbd_init, sched_init, ide_init, Quiet, Booting
      <4>2. ASSUME init_interrupt \/ hw_timer_init PROVE Quiet'
        <5>1. stack'[Main][1].pc \in {"hw_timer_init", "serial_init"}
          BY <4>2, MainMoves, Statements DEF init_interrupt, hw_timer_init
        <5> QED BY <5>1 DEF Quiet, Booting
      <4> QED BY <4>1, <4>2
    <3> QED BY <3>1, <3>2
  <2>2. PICK u \in Task : \E j \in 1 .. Len(stack[u]) : Holds(u, j)
    BY <1>5, <2>1 DEF HoldOK
  <2>3. PICK j \in 1 .. Len(stack[u]) : Holds(u, j)
    BY <2>2
  <2>4. stack'[u][j].pc \in {"poll", "up"}
    <3>1. CASE u = t /\ j = Len(stack[t])
      <4>1. Top(t).pc = "poll"
        BY <1>3, <1>5, <2>3, <3>1 DEF Holds
      <4>2. r.pc = "up"
        BY <1>1, <4>1 DEF Change, BootPC
      <4> QED BY <1>3, <3>1, <4>2
    <3>2. CASE ~(u = t /\ j = Len(stack[t]))
      BY <1>4, <2>3, <3>2 DEF Holds
    <3> QED BY <3>1, <3>2
  <2>5. Holds(u, j)'
    BY <1>3, <1>5, <2>3, <2>4 DEF Holds
  <2> QED BY <1>3, <2>5
<1>6. CASE sema_down(t)
  <2>1. Top(t).pc = "down"
    BY <1>6 DEF sema_down, At
  <2>2. r.pc = "poll"
    BY <1>1, <2>1 DEF Change, BootPC
  <2>3. CASE UNCHANGED waiting
    <3>1. PICK j : j = Len(stack[t])
      OBVIOUS
    <3>2. Holds(t, j)'
      BY <1>2, <1>3, <2>2, <2>3, <3>1 DEF Holds
    <3> QED BY <1>3, <3>1, <3>2
  <2>4. CASE /\ value["sema_write"] = 0
             /\ waiting'["sema_write"] = waiting["sema_write"] \cup {t}
    <3>1. ~Quiet
      <4>1. ASSUME Quiet PROVE FALSE
        <5>1. t = Main /\ Len(stack[t]) = 1 /\ Top(t) = stack[Main][1]
          BY <1>2, <4>1 DEF BootOK, Unscheduled, Top
        <5> QED BY <2>1, <4>1, <5>1 DEF Quiet, Booting
      <4> QED BY <4>1
    <3>2. PICK u \in Task : \E j \in 1 .. Len(stack[u]) : Holds(u, j)
      BY <2>4, <3>1 DEF HoldOK
    <3>3. PICK j \in 1 .. Len(stack[u]) : Holds(u, j)
      BY <3>2
    <3>4. ~(u = t /\ j = Len(stack[t]))
      BY <1>3, <2>1, <3>3 DEF Holds
    <3>5. stack'[u][j].pc \in {"poll", "up"}
      BY <1>4, <3>3, <3>4 DEF Holds
    <3>6. Holds(u, j)'
      BY <1>3, <2>4, <3>3, <3>4, <3>5 DEF Holds
    <3> QED BY <1>3, <3>6
  <2> QED BY <1>6, <2>3, <2>4, Downs
<1>7. CASE sema_up(t)
  <2>1. waiting'["sema_write"] # {} /\ ~(waiting["sema_write"] = {})
    <3>1. value["sema_write"] \in Nat /\ value'["sema_write"] = value["sema_write"] + 1
      BY <1>7, Ups DEF TypeOK, Sem
    <3>2. value'["sema_write"] # 0
      BY <3>1
    <3> QED BY <1>7, <3>2, Ups
  <2>2. PICK u \in waiting["sema_write"] : waiting'["sema_write"] = waiting["sema_write"] \ {u}
    BY <1>7, <2>1, Ups
  <2>3. u \in Task /\ u # t /\ Top(u).pc = "poll"
    BY <1>2, <2>2 DEF TypeOK, Sem, SleepOK
  <2>4. PICK j : j = Len(stack[u])
    OBVIOUS
  <2>5. j \in 1 .. Len(stack[u]) /\ stack'[u][j].pc = "poll"
    BY <1>3, <1>4, <2>3, <2>4 DEF Top
  <2>6. Holds(u, j)'
    BY <1>3, <2>2, <2>3, <2>5 DEF Holds
  <2> QED BY <1>3, <2>3, <2>5, <2>6
<1>8. ~serial_init
  BY FirstUnit
<1> QED BY <1>5, <1>6, <1>7, <1>8, SemaphoreFrame

LEMMA ReturnWait ==
    ASSUME TypeOK, StacksOK, BootOK, QueueOK, SleepOK, HoldOK, NEW t \in Task, iret(t)
    PROVE  QueueOK' /\ SleepOK' /\ HoldOK'
<1>1. Popped(t) /\ Top(t).pc = "iret" /\ t = cur
  BY ReturnPops
<1>2. /\ UNCHANGED <<ready, cur, crashed, value, waiting>>
      /\ t \notin waiting["sema_write"] /\ waiting["sema_write"] \subseteq Task
  BY <1>1, Awake DEF iret, threads, semas, TypeOK, Sem
<1>3. (Quiet' <=> Quiet) /\ (Unscheduled' <=> Unscheduled)
  <2>1. stack'[Main][1] = stack[Main][1]
    BY ReturnBoot, InterruptsAssumption
  <2> QED BY <2>1 DEF Quiet, Unscheduled, Booting
<1>4. ASSUME NEW u \in Task
      PROVE  /\ Len(stack[u]) \in Nat /\ Len(stack[u]) \in 1 .. Len(stack[u])
             /\ Top(u) = stack[u][Len(stack[u])]
             /\ \A i \in 1 .. Len(stack'[u]) : stack'[u][i] = stack[u][i]
             /\ Len(stack'[u]) = IF u = t THEN Len(stack[u]) - 1 ELSE Len(stack[u])
  BY <1>1, RecordTypes DEF Popped
<1>5. SleepOK'
  <2> SUFFICES ASSUME NEW u \in waiting["sema_write"] PROVE Top(u)'.pc = "poll"
    BY <1>2 DEF SleepOK
  <2>1. u \in Task /\ u # t
    BY <1>2
  <2>2. Top(u)' = Top(u)
    BY <1>4, <2>1 DEF Top
  <2> QED BY <2>2 DEF SleepOK
<1>6. HoldOK'
  <2> SUFFICES ASSUME ~Quiet, value["sema_write"] = 0 \/ waiting["sema_write"] # {}
               PROVE  \E u \in Task : \E j \in 1 .. Len(stack'[u]) : Holds(u, j)'
    BY <1>2, <1>3 DEF HoldOK
  <2>1. PICK u \in Task : \E j \in 1 .. Len(stack[u]) : Holds(u, j)
    BY DEF HoldOK
  <2>2. PICK j \in 1 .. Len(stack[u]) : Holds(u, j)
    BY <2>1
  <2>3. ~(u = t /\ j = Len(stack[u]))
    BY <1>1, <1>4, <2>2 DEF Holds
  <2>4. j \in 1 .. Len(stack'[u])
    BY <1>4, <2>3
  <2>5. Holds(u, j)'
    BY <1>2, <1>4, <2>2, <2>4 DEF Holds
  <2> QED BY <2>4, <2>5
<1> QED BY <1>2, <1>3, <1>5, <1>6, SameQueue

LEMMA InterruptWait ==
    ASSUME TypeOK, StacksOK, BootOK, QueueOK, SleepOK, HoldOK, NEW l \in Line, Interrupt(l)
    PROVE  QueueOK' /\ SleepOK' /\ HoldOK'
<1> DEFINE r == Record(l, "entry", 0)
<1>1. Pushed(cur, r) /\ cur \in Task
  BY InterruptPushes
<1> HIDE DEF r
<1>2. /\ UNCHANGED <<ready, cur, crashed, value, waiting>>
      /\ cur \notin waiting["sema_write"] /\ waiting["sema_write"] \subseteq Task
  BY <1>1, Awake DEF Interrupt, threads, semas, TypeOK, Sem
<1>3. (Quiet' <=> Quiet) /\ (Unscheduled' <=> Unscheduled)
  <2>1. stack'[Main][1] = stack[Main][1]
    BY InterruptBoot, InterruptsAssumption
  <2> QED BY <2>1 DEF Quiet, Unscheduled, Booting
<1>4. ASSUME NEW u \in Task
      PROVE  /\ Len(stack[u]) \in Nat /\ Len(stack[u]) \in 1 .. Len(stack[u])
             /\ Top(u) = stack[u][Len(stack[u])]
             /\ \A i \in 1 .. Len(stack[u]) : stack'[u][i] = stack[u][i]
             /\ Len(stack'[u]) = IF u = cur THEN Len(stack[u]) + 1 ELSE Len(stack[u])
  BY <1>1, RecordTypes DEF Pushed
<1>5. SleepOK'
  <2> SUFFICES ASSUME NEW u \in waiting["sema_write"] PROVE Top(u)'.pc = "poll"
    BY <1>2 DEF SleepOK
  <2>1. u \in Task /\ u # cur
    BY <1>2
  <2>2. Top(u)' = Top(u)
    BY <1>4, <2>1 DEF Top
  <2> QED BY <2>2 DEF SleepOK
<1>6. HoldOK'
  <2> SUFFICES ASSUME ~Quiet, value["sema_write"] = 0 \/ waiting["sema_write"] # {}
               PROVE  \E u \in Task : \E j \in 1 .. Len(stack'[u]) : Holds(u, j)'
    BY <1>2, <1>3 DEF HoldOK
  <2>1. PICK u \in Task : \E j \in 1 .. Len(stack[u]) : Holds(u, j)
    BY DEF HoldOK
  <2>2. PICK j \in 1 .. Len(stack[u]) : Holds(u, j)
    BY <2>1
  <2>3. j \in 1 .. Len(stack'[u])
    BY <1>4
  <2>4. Holds(u, j)'
    BY <1>2, <1>4, <2>2, <2>3 DEF Holds
  <2> QED BY <2>3, <2>4
<1> QED BY <1>2, <1>3, <1>5, <1>6, SameQueue

---------------------------------------------------------------------------
(* The inductive invariant.                                                *)

\* A device requests an interrupt, or nothing happens.
LEMMA Unmoved ==
    ASSUME IInv,
           UNCHANGED <<gate, IF_flag, stack, cur, ready, crashed, sched_on_return>>,
           UNCHANGED <<master, slave, value, waiting, putc>>
    PROVE  /\ StacksOK' /\ AtomicOK' /\ BitsOK' /\ BootOK' /\ GatesOK' /\ TickOK'
           /\ QueueOK' /\ SleepOK' /\ HoldOK' /\ ThreadType'
<1>1. /\ StacksOK /\ AtomicOK /\ BitsOK /\ BootOK /\ GatesOK /\ TickOK
      /\ QueueOK /\ SleepOK /\ HoldOK /\ ThreadType
  BY DEF IInv, TypeOK, ThreadType
<1>2. StacksOK' /\ AtomicOK' /\ ThreadType'
  BY <1>1 DEF StacksOK, AtomicOK, ThreadType
<1>3. \A t, i, l : Serves(t, i, l)' <=> Serves(t, i, l)
  BY DEF Serves
<1>4. BitsOK'
  BY <1>1, <1>3, SameBits
<1>5. (Quiet' <=> Quiet) /\ (Unscheduled' <=> Unscheduled)
  BY DEF Quiet, Unscheduled, Booting
<1>6. BootOK' /\ QueueOK'
  BY <1>1, <1>5 DEF BootOK, QueueOK
<1>7. GatesOK' /\ TickOK'
  BY <1>1, SameGates DEF TickOK
<1>8. SleepOK' /\ HoldOK'
  BY <1>1, <1>5 DEF SleepOK, HoldOK, Top, Holds
<1> QED BY <1>2, <1>4, <1>6, <1>7, <1>8

LEMMA Assembled ==
    ASSUME (StacksOK /\ BitsOK /\ GatesOK /\ QueueOK /\ ThreadType /\ DataType)',
           (AtomicOK /\ BootOK /\ TickOK /\ KeyOK /\ SleepOK /\ HoldOK)'
    PROVE  IInv'
  BY NextTypes DEF IInv

LEMMA Steps ==
    ASSUME TypeOK, [Next]_vars
    PROVE  \/ \E t \in Task : Turn(t) \/ iret(t)
           \/ \E l \in Line : Interrupt(l)
           \/ Device
           \/ UNCHANGED vars
  BY InterruptsAssumption DEF Next, generic_isr, Turn, Device

LEMMA Inductive ==
    ASSUME IInv, [Next]_vars
    PROVE  IInv'
<1>1. /\ TypeOK /\ StacksOK /\ AtomicOK /\ BitsOK /\ BootOK /\ GatesOK
      /\ TickOK /\ KeyOK /\ QueueOK /\ SleepOK /\ HoldOK
  BY DEF IInv
<1>2. ASSUME NEW t \in Task, Turn(t) PROVE IInv'
  <2>1. StacksOK' /\ AtomicOK' /\ BitsOK' /\ BootOK'
    BY <1>1, <1>2, TurnStacks, TurnAtomic, TurnBits, TurnBoot
  <2>2. GatesOK' /\ TickOK' /\ KeyOK' /\ DataType'
    BY <1>1, <1>2, TurnGates, TurnTick, TurnKey, TurnData
  <2>3. QueueOK' /\ ThreadType' /\ SleepOK' /\ HoldOK'
    BY <1>1, <1>2, TurnQueue, TurnSleep, TurnHold
  <2> QED BY <2>1, <2>2, <2>3, Assembled
<1>3. ASSUME NEW t \in Task, iret(t) PROVE IInv'
  <2>1. StacksOK' /\ AtomicOK' /\ BootOK' /\ stack'[Main][1] = stack[Main][1]
    BY <1>1, <1>3, ReturnStacks, ReturnAtomic, ReturnBoot, InterruptsAssumption
  <2>2. BitsOK' /\ GatesOK'
    <3>1. UNCHANGED <<master, slave, gate>>
      BY <1>3 DEF iret, pics
    <3> QED BY <1>1, <1>3, <2>1, <3>1, ReturnServes, SameBits, SameGates
  <2>3. TickOK' /\ KeyOK' /\ DataType' /\ ThreadType'
    BY <1>1, <1>3, ReturnTick, ReturnKey, ReturnData
  <2>4. QueueOK' /\ SleepOK' /\ HoldOK'
    BY <1>1, <1>3, ReturnWait
  <2> QED BY <2>1, <2>2, <2>3, <2>4, Assembled
<1>4. ASSUME NEW l \in Line, Interrupt(l) PROVE IInv'
  <2>1. StacksOK' /\ AtomicOK' /\ BootOK' /\ stack'[Main][1] = stack[Main][1]
    BY <1>1, <1>4, InterruptStacks, InterruptAtomic, InterruptBoot, InterruptsAssumption
  <2>2. BitsOK' /\ GatesOK'
    BY <1>1, <1>4, <2>1, TakenBits, SameGates DEF Interrupt
  <2>3. TickOK' /\ KeyOK' /\ DataType' /\ ThreadType'
    BY <1>1, <1>4, InterruptTick, InterruptKey, InterruptData
  <2>4. QueueOK' /\ SleepOK' /\ HoldOK'
    BY <1>1, <1>4, InterruptWait
  <2> QED BY <2>1, <2>2, <2>3, <2>4, Assembled
<1>5. CASE Device
  BY <1>1, <1>5, DeviceFrame, Unmoved, DeviceKey, DeviceData, Assembled
<1>6. CASE UNCHANGED vars
  <2>1. /\ UNCHANGED <<gate, IF_flag, stack, cur, ready, crashed, sched_on_return>>
        /\ UNCHANGED <<master, slave, value, waiting, putc>>
    BY <1>6 DEF vars, threads, pics, semas
  <2>2. UNCHANGED <<irr, obf, dr, events, early>>
    BY <1>6 DEF vars, pics, devices
  <2>3. KeyOK' /\ DataType'
    BY <1>1, <2>1, <2>2 DEF KeyOK, DataType, TypeOK
  <2> QED BY <2>1, <2>3, Unmoved, Assembled
<1> QED BY <1>1, <1>2, <1>3, <1>4, <1>5, <1>6, Steps

LEMMA Started == Init => IInv
<1> SUFFICES ASSUME Init PROVE IInv
  OBVIOUS
<1>1. Main \in Task /\ MaxPutc \in Nat /\ MaxDepth \in Nat /\ MaxEvents \in [{1, 4, 14} -> Nat]
  BY InterruptsAssumption
<1> DEFINE first(t) == Record(TASK, IF t = Main THEN Boot[1] ELSE "user", 0)
<1>2. ASSUME NEW t \in Task
      PROVE  /\ first(t) \in RecordType /\ first(t).irq = TASK
             /\ first(t).pc = IF t = Main THEN "init_interrupt" ELSE "user"
  <2>1. (IF t = Main THEN Boot[1] ELSE "user") \in PC
    BY Statements, PCs DEF BootPC
  <2> QED BY <2>1, RecordIs, Statements
<1>3. stack = [t \in Task |-> <<first(t)>>]
  BY DEF Init
<1> HIDE DEF first
<1>4. /\ stack \in [Task -> Seq(RecordType)]
      /\ \A t \in Task : stack[t] = <<first(t)>>
  <2>1. \A t \in Task : <<first(t)>> \in Seq(RecordType)
    BY <1>2
  <2> QED BY <1>3, <2>1
<1>5. ASSUME NEW t \in Task PROVE Len(stack[t]) = 1 /\ stack[t][1] = first(t)
  <2>1. \A x : Len(<<x>>) = 1 /\ <<x>>[1] = x
    OBVIOUS
  <2> QED BY <1>4, <2>1
<1>6. StacksOK
  <2>1. ASSUME NEW t \in Task PROVE OwnOK(t, stack[t][1])
    BY <1>2, <1>5 DEF OwnOK, BootPC
  <2>2. \A t \in Task : putc[t] > 0 => t \in Writer
    BY <1>1 DEF Init
  <2>3. 1 \in 1 .. MaxDepth + 1 /\ 2 .. 1 = {}
    BY <1>1
  <2>4. ASSUME NEW t \in Task
        PROVE  Len(stack[t]) \in 1 .. MaxDepth + 1 /\ \A i \in 2 .. Len(stack[t]) : HandlerOK(stack[t][i])
    BY <1>5, <2>3
  <2> QED BY <1>4, <2>1, <2>2, <2>4 DEF StacksOK
<1>7. Quiet /\ Unscheduled /\ Booting({"init_interrupt"})
  BY <1>1, <1>2, <1>5 DEF Quiet, Unscheduled, Booting
<1>8. AtomicOK /\ TickOK
  BY <1>5 DEF AtomicOK, TickOK
<1>9. BitsOK
  <2>1. \A t, i, l : ~Serves(t, i, l)
    BY <1>5 DEF Serves
  <2>2. \A l : ~Served(l)
    BY <2>1 DEF Served
  <2>3. Masters = {} /\ Slaves = {} /\ Alone
    BY <2>1, <2>2 DEF Masters, Slaves, Alone
  <2> QED BY <2>3 DEF BitsOK, Init
<1>10. BootOK
  <2>1. \A t \in Task \ {Main} : stack[t][1].pc = "user"
    BY <1>2, <1>5
  <2>2. waiting["sema_write"] = {}
    BY DEF Init, Sem
  <2> QED BY <1>5, <1>7, <2>1, <2>2 DEF BootOK, Init
<1>11. GatesOK
  <2>1. gate = [l \in Line |-> "none"]
    BY DEF Init
  <2> QED BY <1>7, <2>1, Lines DEF GatesOK, Booting, Gate
<1>12. KeyOK /\ HoldOK
  BY <1>7 DEF KeyOK, HoldOK, Init
<1>13. QueueOK
  <2>1. ready = <<>>
    BY DEF Init
  <2> QED BY <1>7, <2>1 DEF QueueOK, IsInjective
<1>14. SleepOK
  BY DEF SleepOK, Init, Sem
<1>15. ThreadType
  BY <1>1 DEF ThreadType, Init
<1>16. DataType
  <2>1. putc \in [Task -> 0 .. MaxPutc]
    BY <1>1 DEF Init
  <2>2. DOMAIN events = {KBD, SERIAL, DISK} /\ \A l \in DOMAIN events : events[l] \in 0 .. MaxEvents[l]
    BY <1>1, Lines DEF Init
  <2>3. value \in [Sem -> Nat] /\ waiting \in [Sem -> SUBSET Task]
    BY DEF Init
  <2> QED BY <2>1, <2>2, <2>3 DEF DataType, Init
<1> QED BY <1>6, <1>8, <1>9, <1>10, <1>11, <1>12, <1>13, <1>14, <1>15, <1>16, Types DEF IInv

LEMMA Invariance == Spec => []IInv
  BY Started, Inductive, PTL DEF Spec

---------------------------------------------------------------------------
(* What holds of every behaviour.                                          *)

\* Every variable keeps its type through generic_isr, schedule and the boot:
\* below the handlers of a stack is one record of its task, and nothing that is
\* no task gets into the ready list.
THEOREM TypeCorrect == Spec => []TypeOK
<1>1. IInv => TypeOK
  BY DEF IInv
<1> QED BY <1>1, Invariance, PTL

LEMMA ServingIs ==
    ASSUME StacksOK, NEW l
    PROVE  /\ \A p : p \in Serving(l) <=> \E t, i : p = <<t, i>> /\ Serves(t, i, l)
           /\ Serving(l) # {} <=> Served(l)
<1>1. ASSUME NEW p PROVE p \in Serving(l) <=> \E t, i : p = <<t, i>> /\ Serves(t, i, l)
  <2>1. p \in Serving(l) <=> /\ \E t \in Task : p \in {t} \X (2 .. Len(stack[t]))
                             /\ stack[p[1]][p[2]].irq = l
                             /\ stack[p[1]][p[2]].pc \notin {"test", "iret"}
    BY DEF Serving
  <2>2. ASSUME p \in Serving(l) PROVE \E t, i : p = <<t, i>> /\ Serves(t, i, l)
    <3>1. PICK t \in Task : p \in {t} \X (2 .. Len(stack[t]))
      BY <2>1, <2>2
    <3>2. PICK i \in 2 .. Len(stack[t]) : p = <<t, i>>
      BY <3>1
    <3>3. Serves(t, i, l)
      BY <2>1, <2>2, <3>2 DEF Serves
    <3> QED BY <3>2, <3>3
  <2>3. ASSUME NEW t, NEW i, p = <<t, i>>, Serves(t, i, l) PROVE p \in Serving(l)
    <3>1. t \in Task /\ p \in {t} \X (2 .. Len(stack[t])) /\ p[1] = t /\ p[2] = i
      BY <2>3 DEF Serves
    <3> QED BY <2>1, <2>3, <3>1 DEF Serves
  <2> QED BY <2>2, <2>3
<1>2. Serving(l) # {} <=> \E t, i : Serves(t, i, l)
  BY <1>1
<1>3. (\E t, i : Serves(t, i, l)) <=> Served(l)
  BY DEF Served, Serves
<1> QED BY <1>1, <1>2, <1>3

\* However the handlers nest and sleep on the tasks' stacks, a bit in service
\* has one handler that will end it (pic_end_of_interrupt's non-specific end).
THEOREM BitsServed == Spec => []EveryBitIsServed
<1>1. ASSUME IInv PROVE EveryBitIsServed
  <2>1. StacksOK /\ BitsOK
    BY <1>1 DEF IInv
  <2>2. ASSUME NEW l \in Line PROVE Cardinality(Serving(l)) <= 1
    <3>1. CASE Serving(l) = {}
      BY <3>1, FS_EmptySet
    <3>2. CASE Serving(l) # {}
      <4>1. PICK p : p \in Serving(l)
        BY <3>2
      <4>2. ASSUME NEW q \in Serving(l) PROVE q = p
        <5>1. PICK t, i : p = <<t, i>> /\ Serves(t, i, l)
          BY <2>1, <4>1, ServingIs
        <5>2. PICK u, j : q = <<u, j>> /\ Serves(u, j, l)
          BY <2>1, <4>2, ServingIs
        <5> QED BY <2>1, <5>1, <5>2 DEF BitsOK, Alone, Serves
      <4>3. Serving(l) = {p}
        BY <4>1, <4>2
      <4> QED BY <4>3, FS_Singleton
    <3> QED BY <3>1, <3>2
  <2>3. \A l : Serving(l) # {} <=> Served(l)
    BY <2>1, ServingIs
  <2>4. master = {MasterLine(l) : l \in {m \in Line : Serving(m) # {}}}
    <3>1. {m \in Line : Serving(m) # {}} = {m \in Line : Served(m)}
      BY <2>3, Zenon
    <3> QED BY <2>1, <3>1 DEF BitsOK, Masters
  <2>5. slave = {l \in Line : l >= 8 /\ Serving(l) # {}}
    BY <2>1, <2>3 DEF BitsOK, Slaves
  <2> QED BY <2>2, <2>4, <2>5 DEF EveryBitIsServed
<1> QED BY <1>1, Invariance, PTL

\* What task_tick asks for is still asked for when generic_isr tests it.
THEOREM TicksReschedule == Spec => []TickReschedules
<1>1. ASSUME IInv PROVE TickReschedules
  <2>1. StacksOK /\ TickOK
    BY <1>1 DEF IInv
  <2> SUFFICES ASSUME NEW t \in Task, Top(t).irq = TIMER, Top(t).pc = "test"
               PROVE  sched_on_return
    BY DEF TickReschedules
  <2>2. Len(stack[t]) # 1
    BY <2>1, Bottoms, Lines
  <2>3. Len(stack[t]) \in 2 .. Len(stack[t]) /\ Top(t) = stack[t][Len(stack[t])]
    BY <2>1, <2>2, TopHandler, RecordTypes
  <2> QED BY <2>1, <2>3 DEF TickOK
<1> QED BY <1>1, Invariance, PTL

\* A byte that came after kbd_init is pending, or kbd_interrupt will read it.
THEOREM KeysAnnounced == Spec => []KeyAnnounced
<1>1. ASSUME IInv PROVE KeyAnnounced
  <2>1. StacksOK /\ KeyOK
    BY <1>1 DEF IInv
  <2> SUFFICES ASSUME obf, ~early, KBD \notin irr
               PROVE  \E p \in Serving(KBD) : stack[p[1]][p[2]].pc \in {"entry", "isr"}
    BY DEF KeyAnnounced
  <2>2. PICK t \in Task : \E i \in 2 .. Len(stack[t]) :
                             stack[t][i].irq = KBD /\ stack[t][i].pc \in {"entry", "isr"}
    BY <2>1 DEF KeyOK
  <2>3. PICK i \in 2 .. Len(stack[t]) :
            stack[t][i].irq = KBD /\ stack[t][i].pc \in {"entry", "isr"}
    BY <2>2
  <2>4. Serves(t, i, KBD)
    BY <2>3 DEF Serves
  <2>5. <<t, i>> \in Serving(KBD)
    BY <2>1, <2>4, ServingIs
  <2> QED BY <2>3, <2>5
<1> QED BY <1>1, Invariance, PTL

\* Nobody waits for sema_write that nobody will raise, but for the handler that
\* has interrupted the owner itself.
THEOREM SleepersOwned == Spec => []SleepersHaveAnOwner
<1>1. ASSUME IInv PROVE SleepersHaveAnOwner
  <2>1. TypeOK /\ StacksOK /\ BitsOK /\ BootOK /\ QueueOK /\ SleepOK /\ HoldOK
    BY <1>1 DEF IInv
  <2> SUFFICES ASSUME waiting["sema_write"] # {}, ~OwnerAsleep
               PROVE  \E t \in Task : Owner(t) /\ t \in Range(ready)
    BY DEF SleepersHaveAnOwner
  <2>2. ~Unscheduled /\ ~Quiet
    BY <2>1 DEF BootOK, Unscheduled
  <2>3. PICK t \in Task : \E j \in 1 .. Len(stack[t]) : Holds(t, j)
    BY <2>1, <2>2 DEF HoldOK
  <2>4. PICK j \in 1 .. Len(stack[t]) : Holds(t, j)
    BY <2>3
  <2>5. t \notin waiting["sema_write"]
    <3> SUFFICES ASSUME t \in waiting["sema_write"] PROVE FALSE
      OBVIOUS
    <3>1. Top(t).pc = "poll" /\ j # Len(stack[t]) /\ stack[t][j].pc \in {"poll", "up"}
      BY <2>1, <2>4 DEF SleepOK, Holds
    <3>2. j = 1 /\ Serves(t, Len(stack[t]), SERIAL)
      BY <2>1, <3>1, HolderIsBelow
    <3>3. Top(t).irq = SERIAL
      BY <3>2 DEF Serves, Top
    <3> QED BY <3>1, <3>2, <3>3 DEF OwnerAsleep
  <2>6. Owner(t)
    BY <2>4, <2>5 DEF Owner, Holds
  <2>7. t \in Range(ready)
    BY <2>1, <2>2, <2>5 DEF QueueOK
  <2> QED BY <2>6, <2>7
<1> QED BY <1>1, Invariance, PTL

\* schedule finds a task whenever the ready list has been initialised: the
\* machine faults only on a tick between serial_init and sched_init.
THEOREM FaultsBeforeScheduler == Spec => []FaultsOnlyBeforeScheduler
<1>1. ASSUME IInv PROVE FaultsOnlyBeforeScheduler
  <2>1. BootOK /\ QueueOK
    BY <1>1 DEF IInv
  <2> QED BY <2>1 DEF FaultsOnlyBeforeScheduler, BootOK, QueueOK, Unscheduled, Booting
<1> QED BY <1>1, Invariance, PTL
=============================================================================
