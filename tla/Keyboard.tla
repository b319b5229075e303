----------------------------- MODULE Keyboard -----------------------------
(***************************************************************************)
(* The keyboard's handler: from scan codes to the characters it prints on  *)
(* the console, and the flags of the modifier keys.                        *)
(*                                                                         *)
(* The controller delivers bytes, each with an edge of its line.  Codes    *)
(* with prefix 0xe0 are two bytes.  The handler reads both without asking  *)
(* whether the second is there.  If it is not, it reads the prefix again;  *)
(* if it is, its edge may stay latched and the handler runs once more for  *)
(* a byte already read.                                                    *)
(***************************************************************************)
EXTENDS Console

CONSTANTS
    Key,       \* keys of the keyboard
    Workload,  \* what happens: a record of messages, keys and MaxPress
    MaxQueue   \* bound: a key moves while fewer bytes than this wait

\* Scan codes (set 1), without their prefix.
Code == [two |-> 3, backspace |-> 14, tab |-> 15, rbracket |-> 27, enter |-> 28,
         a |-> 30, l |-> 38,
         lctrl |-> 29, lshift |-> 42, rshift |-> 54, lalt |-> 56, caps |-> 58,
         rctrl |-> 29, ralt |-> 56, kpenter |-> 28]
Prefixed == {"rctrl", "ralt", "kpenter"}
Shift    == {"lshift", "rshift"}
Modifier == Shift \cup {"lctrl", "rctrl", "lalt", "ralt"}
E0 == 224

\* The first message, mm_init's, ends its line.
ASSUME KeyboardAssumption ==
    /\ MaxQueue \in Nat
    /\ Key \subseteq DOMAIN Code
    /\ \A w \in Workload :
          /\ w.keys \subseteq Key /\ w.MaxPress \in Nat
          /\ w.messages \in [Task -> Seq(Message)]
          /\ w.messages[Main] # <<>> /\ LF \in Range(Head(w.messages[Main]))

VARIABLES
    flag,        \* left_shift, right_shift, left_ctrl, ... by key
    caps_locks,
    queue,       \* the controller's bytes
    data,        \* what its data register holds
    irq,         \* an edge of its line is latched
    held,        \* the keys held down
    caps,        \* the caps lock as the user counts it
    keys, presses,   \* the workload's keys, and how many it still presses
    mistimed,    \* history: a second byte was not there, or came twice
    typed,       \* history: what the handler printed
    meant        \* history: what the keys pressed mean, or Unclaimed

device == <<queue, data, irq>>
user   == <<held, caps, keys, presses>>
vars   == <<console_vars, flag, caps_locks, device, user, mistimed, typed, meant>>

---------------------------------------------------------------------------
(* Keymaps: the first scan code of a group, and its characters.            *)

Group(first, chars) == [first |-> first, chars |-> chars]

invariant_keymap ==
    {Group(1, <<27>>), Group(14, <<BS>>),
     Group(15, <<HT, 81, 87, 69, 82, 84, 89, 85, 73, 79, 80>>),
     Group(28, <<CR>>),
     Group(30, <<65, 83, 68, 70, 71, 72, 74, 75, 76>>),
     Group(44, <<90, 88, 67, 86, 66, 78, 77>>),
     Group(55, <<42>>), Group(57, <<32>>), Group(83, <<127>>)}

unshifted_keymap ==
    {Group(2, <<49, 50, 51, 52, 53, 54, 55, 56, 57, 48, 45, 61>>),
     Group(26, <<91, 93>>), Group(39, <<59, 39, 96>>), Group(43, <<92>>),
     Group(51, <<44, 46, 47>>)}

shifted_keymap ==
    {Group(2, <<33, 64, 35, 36, 37, 94, 38, 42, 40, 41, 95, 43>>),
     Group(26, <<123, 125>>), Group(39, <<58, 34, 126>>), Group(43, <<124>>),
     Group(51, <<60, 62, 63>>)}

in_group(g, code) == code >= g.first /\ code < g.first + Len(g.chars)

\* The characters map_scan_code may return: one, or none.  A string ends in NUL.
map_scan_code(km, code) ==
    {Append(g.chars, NUL)[code - g.first + 1] : g \in {g \in km : in_group(g, code)}}

\* The flag of a code, if it has one.
special(code) ==
    {k \in Modifier : code = IF k \in Prefixed THEN E0 * 256 + Code[k] ELSE Code[k]}

---------------------------------------------------------------------------
(* kbd_interrupt, with a scan code it has read.                            *)

shift == flag["lshift"] \/ flag["rshift"]
alt   == flag["lalt"] \/ flag["ralt"]
ctrl  == flag["lctrl"] \/ flag["ralt"]

isupper(c) == c >= 65 /\ c <= 90
tolower(c) == IF isupper(c) THEN c + 32 ELSE c

\* Mutant: the caps lock is taken for a shift.
caps_is_shift(c) ==
    LET d == IF ctrl /\ c >= 64 /\ c < 96 THEN c - 64
             ELSE IF ~shift /\ ~caps_locks THEN tolower(c) ELSE c
    IN  IF alt THEN d + 128 ELSE d

character(c) ==
    LET d == IF ctrl /\ c >= 64 /\ c < 96 THEN c - 64
             ELSE IF shift = caps_locks THEN tolower(c) ELSE c
    IN  IF alt THEN d + 128 ELSE d

printing(code) ==
    map_scan_code(invariant_keymap, code)
        \cup map_scan_code(IF shift THEN shifted_keymap ELSE unshifted_keymap, code)

\* Bit 7 is the release; for a prefixed code that is bit 7 of its second byte.
handle(scan_code) ==
    LET release == scan_code % 256 >= 128
        code    == IF release THEN scan_code - 128 ELSE scan_code
    IN  IF code = 58
        THEN /\ caps_locks' = IF release THEN caps_locks ELSE ~caps_locks
             /\ UNCHANGED <<flag, typed, console_vars>>
        ELSE IF printing(code) # {}
        THEN /\ IF release THEN UNCHANGED <<typed, console_vars>>
                ELSE LET c == character(CHOOSE c \in printing(code) : TRUE)
                     IN  /\ typed' = Append(typed, c)
                         /\ printk(Handler, <<c>>)
                         /\ UNCHANGED todo
             /\ UNCHANGED <<flag, caps_locks>>
        ELSE /\ flag' = [k \in Modifier |-> IF k \in special(code) THEN ~release ELSE flag[k]]
             /\ UNCHANGED <<caps_locks, typed, console_vars>>

\* The bytes left behind by a run of the handler keep the line high.
Left(n) == SubSeq(queue, n + 1, Len(queue))

\* One byte, which may be one read before.
read_one ==
    LET byte == IF queue = <<>> THEN data ELSE queue[1] IN
    /\ byte # E0
    /\ queue' = Left(1) /\ data' = byte
    /\ irq' = (queue' # <<>>)
    /\ handle(byte)
    /\ UNCHANGED mistimed

\* Both bytes.
read_both ==
    /\ Len(queue) >= 2 /\ queue[1] = E0
    /\ queue' = Left(2) /\ data' = queue[2]
    /\ irq' \in {queue' # <<>>, TRUE}
    /\ mistimed' = (mistimed \/ irq' # (queue' # <<>>))
    /\ handle(E0 * 256 + queue[2])

\* The prefix twice.
read_prefix ==
    /\ Len(queue) >= 1 /\ queue[1] = E0
    /\ queue' = Left(1) /\ data' = E0
    /\ irq' = TRUE
    /\ mistimed' = TRUE
    /\ handle(E0 * 256 + E0)

kbd_interrupt ==
    /\ irq /\ booted
    /\ pc[Handler] = "rest"
    /\ read_one \/ read_both \/ read_prefix
    /\ UNCHANGED <<user, meant>>

---------------------------------------------------------------------------
(* The keyboard and its user.                                              *)

Send(bytes) ==
    /\ Len(queue) < MaxQueue
    /\ queue' = queue \o bytes
    /\ irq' = TRUE
    /\ UNCHANGED <<console_vars, flag, caps_locks, data, keys, mistimed, typed>>

Bytes(k, code) == IF k \in Prefixed THEN <<E0, code>> ELSE <<code>>

\* What a key means to its user, who holds the keys of down, with the caps lock
\* on or off.
Meaning(k, down, lock) ==
    LET shifted == down \cap Shift # {}
        control == down \cap {"lctrl", "rctrl"} # {}
        plain   == CASE k = "a" -> IF control THEN 1 ELSE IF shifted # lock THEN 65 ELSE 97
                     [] k = "l" -> IF control THEN FF ELSE IF shifted # lock THEN 76 ELSE 108
                     [] k = "two" -> IF ~shifted THEN 50 ELSE IF control THEN 0 ELSE 64
                     [] k = "rbracket" -> IF shifted THEN 125 ELSE IF control THEN 29 ELSE 93
                     [] k = "enter" -> CR
                     [] k = "backspace" -> BS
                     [] OTHER -> HT
    IN  IF down \cap {"lalt", "ralt"} = {} THEN plain ELSE plain + 128

\* The control of the code is the left one or the right alt; it never reads
\* right_ctrl.  What these keys do alone is not claimed to be meant.
Crossed(down) == "lctrl" \notin down /\ ("rctrl" \in down) # ("ralt" \in down)
Unclaimed == 256

Press(k) ==
    /\ booted /\ presses > 0
    /\ k \in keys \ held
    /\ Send(Bytes(k, Code[k]))
    /\ held' = held \cup {k}
    /\ caps' = IF k = "caps" THEN ~caps ELSE caps
    /\ presses' = presses - 1
    /\ meant' = IF k \in Modifier \cup {"caps", "kpenter"} THEN meant
                ELSE Append(meant, IF Crossed(held) THEN Unclaimed
                                   ELSE Meaning(k, held, caps))

Release(k) ==
    /\ k \in held
    /\ Send(Bytes(k, Code[k] + 128))
    /\ held' = held \ {k}
    /\ UNCHANGED <<caps, presses, meant>>

---------------------------------------------------------------------------
Init ==
    /\ ConsoleInit
    /\ flag = [k \in Modifier |-> FALSE] /\ caps_locks = FALSE
    /\ queue = <<>> /\ data = 0 /\ irq = FALSE
    /\ held = {} /\ caps = FALSE
    /\ \E w \in Workload : /\ todo = w.messages
                           /\ keys = w.keys /\ presses = w.MaxPress
    /\ mistimed = FALSE
    /\ typed = <<>> /\ meant = <<>>

console == /\ \/ \E t \in Task : Say(t)
              \/ \E a \in Actor : format(a) \/ loop(a) \/ fb_putc(a)
           /\ UNCHANGED <<flag, caps_locks, device, user, mistimed, typed, meant>>

Next ==
    \/ console
    \/ kbd_interrupt
    \/ \E k \in Key : Press(k) \/ Release(k)

Spec == Init /\ [][Next]_vars

---------------------------------------------------------------------------
(* Properties.                                                             *)

\* The kind of every variable.
TypeOK ==
    /\ ConsoleTypeOK
    /\ flag \in [Modifier -> BOOLEAN] /\ caps_locks \in BOOLEAN
    /\ queue \in Seq(0 .. 255) /\ data \in 0 .. 255 /\ irq \in BOOLEAN
    /\ held \subseteq Key /\ caps \in BOOLEAN
    /\ keys \subseteq Key /\ presses \in Nat /\ mistimed \in BOOLEAN
    /\ typed \in Seq(0 .. 255) /\ meant \in Seq(0 .. Unclaimed)

\* Once every byte is read, the handler's flags are those of the keys held down
\* and of the caps lock.  This is so for the shift keys whatever happens to the
\* second bytes of other keys, and for the rest only while each of those is read
\* once: otherwise the right control key is taken for the left one, and may
\* leave it set for ever.
ModifiersTrack ==
    queue = <<>> /\ ~irq =>
        /\ \A k \in (IF mistimed THEN Shift ELSE Modifier) : flag[k] = (k \in held)
        /\ caps_locks = caps

\* What the handler prints is what the keys meant when they were pressed, in
\* that order, however late it runs and although it asks for the modifiers only
\* then; and it is left with the flags of the keys that are held.  What is
\* pressed while the code and its user differ on the control key is excluded.
TypedIsMeant ==
    /\ mistimed \/ /\ Len(typed) <= Len(meant)
                   /\ \A j \in DOMAIN typed : meant[j] \in {typed[j], Unclaimed}
    /\ ModifiersTrack
=============================================================================
