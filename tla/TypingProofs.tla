--------------------------- MODULE TypingProofs ---------------------------
(***************************************************************************)
(* What is typed is what is meant, for every set of keys, however many     *)
(* moves of keys wait in the controller's queue, but for the keys that are *)
(* pressed while only one of right ctrl and right alt is held, and not the *)
(* left ctrl.                                                              *)
(***************************************************************************)
EXTENDS KeyboardProofs

---------------------------------------------------------------------------
(* The keymaps, for the codes of the keys.                                 *)

LEMMA InvariantGroups ==
    ASSUME NEW code \in Int, NEW g \in invariant_keymap, in_group(g, code)
    PROVE  \/ code \in {1} /\ g = Group(1, <<27>>)
           \/ code \in {14} /\ g = Group(14, <<BS>>)
           \/ /\ code \in 15 .. 25
              /\ g = Group(15, <<HT, 81, 87, 69, 82, 84, 89, 85, 73, 79, 80>>)
           \/ code \in {28} /\ g = Group(28, <<CR>>)
           \/ code \in 30 .. 38 /\ g = Group(30, <<65, 83, 68, 70, 71, 72, 74, 75, 76>>)
           \/ code \in {44, 45, 46, 47, 48, 49, 50, 55, 57, 83}
<1>1. \A n \in Int : \A c \in {27, BS, CR, 42, 32, 127} :
         in_group(Group(n, <<c>>), code) => code = n
  BY DEF in_group, Group
<1>2. in_group(Group(15, <<HT, 81, 87, 69, 82, 84, 89, 85, 73, 79, 80>>), code) => code \in 15 .. 25
  BY DEF in_group, Group
<1>3. in_group(Group(30, <<65, 83, 68, 70, 71, 72, 74, 75, 76>>), code) => code \in 30 .. 38
  BY DEF in_group, Group
<1>4. in_group(Group(44, <<90, 88, 67, 86, 66, 78, 77>>), code) => code \in 44 .. 50
  BY DEF in_group, Group
<1>5. 1 \in Int /\ 14 \in Int /\ 28 \in Int /\ 55 \in Int /\ 57 \in Int /\ 83 \in Int
  OBVIOUS
<1>6. CASE g = Group(44, <<90, 88, 67, 86, 66, 78, 77>>)
  BY <1>4, <1>6
<1>7. CASE g = Group(1, <<27>>)
  BY <1>1, <1>5, <1>7
<1>8. CASE g = Group(14, <<BS>>)
  BY <1>1, <1>5, <1>8
<1>9. CASE g = Group(28, <<CR>>)
  BY <1>1, <1>5, <1>9
<1>10. CASE g \in {Group(55, <<42>>), Group(57, <<32>>), Group(83, <<127>>)}
  BY <1>1, <1>5, <1>10
<1>11. CASE g = Group(15, <<HT, 81, 87, 69, 82, 84, 89, 85, 73, 79, 80>>)
  BY <1>2, <1>11
<1>12. CASE g = Group(30, <<65, 83, 68, 70, 71, 72, 74, 75, 76>>)
  BY <1>3, <1>12
<1>13. \/ g = Group(1, <<27>>) \/ g = Group(14, <<BS>>) \/ g = Group(28, <<CR>>)
       \/ g = Group(15, <<HT, 81, 87, 69, 82, 84, 89, 85, 73, 79, 80>>)
       \/ g = Group(30, <<65, 83, 68, 70, 71, 72, 74, 75, 76>>)
       \/ g = Group(44, <<90, 88, 67, 86, 66, 78, 77>>)
       \/ g \in {Group(55, <<42>>), Group(57, <<32>>), Group(83, <<127>>)}
  BY Zenon DEF invariant_keymap
<1> QED BY <1>6, <1>7, <1>8, <1>9, <1>10, <1>11, <1>12, <1>13, ZenonT(40)

LEMMA UnshiftedGroups ==
    ASSUME NEW code \in Int, NEW g \in unshifted_keymap, in_group(g, code)
    PROVE  \/ /\ code \in 2 .. 13
              /\ g = Group(2, <<49, 50, 51, 52, 53, 54, 55, 56, 57, 48, 45, 61>>)
           \/ code \in {26, 27} /\ g = Group(26, <<91, 93>>)
           \/ code \in {39, 40, 41, 43, 51, 52, 53}
<1>1. in_group(Group(2, <<49, 50, 51, 52, 53, 54, 55, 56, 57, 48, 45, 61>>), code) => code \in 2 .. 13
  BY DEF in_group, Group
<1>2. in_group(Group(26, <<91, 93>>), code) => code \in {26, 27}
  BY DEF in_group, Group
<1>3. in_group(Group(39, <<59, 39, 96>>), code) => code \in {39, 40, 41}
  BY DEF in_group, Group
<1>4. in_group(Group(43, <<92>>), code) => code = 43
  BY DEF in_group, Group
<1>5. in_group(Group(51, <<44, 46, 47>>), code) => code \in {51, 52, 53}
  BY DEF in_group, Group
<1> QED BY <1>1, <1>2, <1>3, <1>4, <1>5, ZenonT(40) DEF unshifted_keymap

LEMMA ShiftedGroups ==
    ASSUME NEW code \in Int, NEW g \in shifted_keymap, in_group(g, code)
    PROVE  \/ /\ code \in 2 .. 13
              /\ g = Group(2, <<33, 64, 35, 36, 37, 94, 38, 42, 40, 41, 95, 43>>)
           \/ code \in {26, 27} /\ g = Group(26, <<123, 125>>)
           \/ code \in {39, 40, 41, 43, 51, 52, 53}
<1>1. in_group(Group(2, <<33, 64, 35, 36, 37, 94, 38, 42, 40, 41, 95, 43>>), code) => code \in 2 .. 13
  BY DEF in_group, Group
<1>2. in_group(Group(26, <<123, 125>>), code) => code \in {26, 27}
  BY DEF in_group, Group
<1>3. in_group(Group(39, <<58, 34, 126>>), code) => code \in {39, 40, 41}
  BY DEF in_group, Group
<1>4. in_group(Group(43, <<124>>), code) => code = 43
  BY DEF in_group, Group
<1>5. in_group(Group(51, <<60, 62, 63>>), code) => code \in {51, 52, 53}
  BY DEF in_group, Group
<1> QED BY <1>1, <1>2, <1>3, <1>4, <1>5, ZenonT(40) DEF shifted_keymap

LEMMA NoGroup ==
    ASSUME NEW km, NEW code, \A g \in km : ~in_group(g, code)
    PROVE  map_scan_code(km, code) = {}
  BY Zenon DEF map_scan_code

LEMMA InvariantPrints ==
    ASSUME NEW code \in Int
    PROVE  /\ code = 14 => map_scan_code(invariant_keymap, code) = {BS}
           /\ code = 15 => map_scan_code(invariant_keymap, code) = {HT}
           /\ code = 28 => map_scan_code(invariant_keymap, code) = {CR}
           /\ code = 30 => map_scan_code(invariant_keymap, code) = {65}
           /\ code = 38 => map_scan_code(invariant_keymap, code) = {76}
           /\ code \in {3, 27, 29, 42, 54, 56} \/ code > 255
                 => map_scan_code(invariant_keymap, code) = {}
<1> DEFINE tabs == Group(15, <<HT, 81, 87, 69, 82, 84, 89, 85, 73, 79, 80>>)
           home == Group(30, <<65, 83, 68, 70, 71, 72, 74, 75, 76>>)
<1>1. /\ Group(14, <<BS>>) \in invariant_keymap /\ Group(28, <<CR>>) \in invariant_keymap
      /\ tabs \in invariant_keymap /\ home \in invariant_keymap
  BY ZenonT(40) DEF invariant_keymap
<1>2. CASE code = 14
  <2>0. PICK g : g = Group(14, <<BS>>)
    OBVIOUS
  <2>1. in_group(g, code) /\ Append(g.chars, NUL)[code - g.first + 1] = BS
    BY <1>2, <2>0 DEF in_group, Group
  <2>4. g \in invariant_keymap
    BY <1>1, <2>0
  <2>2. \A h \in invariant_keymap : in_group(h, code) => h = g
    BY <1>1, <2>0, <1>2, InvariantGroups
  <2>3. map_scan_code(invariant_keymap, code) = {BS}
    BY <2>1, <2>2, <2>4, Zenon DEF map_scan_code
  <2> QED BY <1>2, <2>3
<1>3. CASE code = 15
  <2>0. PICK g : g = tabs
    OBVIOUS
  <2>1. in_group(g, code) /\ Append(g.chars, NUL)[code - g.first + 1] = HT
    BY <1>3, <2>0 DEF in_group, Group
  <2>4. g \in invariant_keymap
    BY <1>1, <2>0
  <2>2. \A h \in invariant_keymap : in_group(h, code) => h = g
    BY <1>1, <2>0, <1>3, InvariantGroups
  <2>3. map_scan_code(invariant_keymap, code) = {HT}
    BY <2>1, <2>2, <2>4, Zenon DEF map_scan_code
  <2> QED BY <1>3, <2>3
<1>4. CASE code = 28
  <2>0. PICK g : g = Group(28, <<CR>>)
    OBVIOUS
  <2>1. in_group(g, code) /\ Append(g.chars, NUL)[code - g.first + 1] = CR
    BY <1>4, <2>0 DEF in_group, Group
  <2>4. g \in invariant_keymap
    BY <1>1, <2>0
  <2>2. \A h \in invariant_keymap : in_group(h, code) => h = g
    BY <1>1, <2>0, <1>4, InvariantGroups
  <2>3. map_scan_code(invariant_keymap, code) = {CR}
    BY <2>1, <2>2, <2>4, Zenon DEF map_scan_code
  <2> QED BY <1>4, <2>3
<1>5. CASE code \in {30, 38}
  <2>0. PICK g : g = home
    OBVIOUS
  <2>5. PICK c : c = IF code = 30 THEN 65 ELSE 76
    OBVIOUS
  <2>1. in_group(g, code) /\ Append(g.chars, NUL)[code - g.first + 1] = c
    BY <1>5, <2>0, <2>5 DEF in_group, Group
  <2>4. g \in invariant_keymap
    BY <1>1, <2>0
  <2>2. \A h \in invariant_keymap : in_group(h, code) => h = g
    BY <1>1, <2>0, <1>5, InvariantGroups
  <2>3. map_scan_code(invariant_keymap, code) = {c}
    BY <2>1, <2>2, <2>4, Zenon DEF map_scan_code
  <2> QED BY <1>5, <2>3, <2>5
<1>6. CASE code \in {3, 27, 29, 42, 54, 56} \/ code > 255
  <2>1. \A g \in invariant_keymap : ~in_group(g, code)
    BY <1>6, InvariantGroups
  <2> QED BY <1>6, <2>1, NoGroup
<1> QED BY <1>2, <1>3, <1>4, <1>5, <1>6

LEMMA UnshiftedPrints ==
    ASSUME NEW code \in Int
    PROVE  /\ code = 3 => map_scan_code(unshifted_keymap, code) = {50}
           /\ code = 27 => map_scan_code(unshifted_keymap, code) = {93}
           /\ code \in {14, 15, 28, 29, 30, 38, 42, 54, 56} \/ code > 255
                 => map_scan_code(unshifted_keymap, code) = {}
<1> DEFINE digits   == Group(2, <<49, 50, 51, 52, 53, 54, 55, 56, 57, 48, 45, 61>>)
           brackets == Group(26, <<91, 93>>)
<1>1. digits \in unshifted_keymap /\ brackets \in unshifted_keymap
  BY Zenon DEF unshifted_keymap
<1>2. CASE code = 3
  <2>0. PICK g : g = digits
    OBVIOUS
  <2>1. in_group(g, code) /\ Append(g.chars, NUL)[code - g.first + 1] = 50
    BY <1>2, <2>0 DEF in_group, Group
  <2>4. g \in unshifted_keymap
    BY <1>1, <2>0
  <2>2. \A h \in unshifted_keymap : in_group(h, code) => h = g
    BY <1>1, <2>0, <1>2, UnshiftedGroups
  <2>3. map_scan_code(unshifted_keymap, code) = {50}
    BY <2>1, <2>2, <2>4, Zenon DEF map_scan_code
  <2> QED BY <1>2, <2>3
<1>3. CASE code = 27
  <2>0. PICK g : g = brackets
    OBVIOUS
  <2>1. in_group(g, code) /\ Append(g.chars, NUL)[code - g.first + 1] = 93
    BY <1>3, <2>0 DEF in_group, Group
  <2>4. g \in unshifted_keymap
    BY <1>1, <2>0
  <2>2. \A h \in unshifted_keymap : in_group(h, code) => h = g
    BY <1>1, <2>0, <1>3, UnshiftedGroups
  <2>3. map_scan_code(unshifted_keymap, code) = {93}
    BY <2>1, <2>2, <2>4, Zenon DEF map_scan_code
  <2> QED BY <1>3, <2>3
<1>4. CASE code \in {14, 15, 28, 29, 30, 38, 42, 54, 56} \/ code > 255
  <2>1. \A g \in unshifted_keymap : ~in_group(g, code)
    BY <1>4, UnshiftedGroups
  <2> QED BY <1>4, <2>1, NoGroup
<1> QED BY <1>2, <1>3, <1>4

LEMMA ShiftedPrints ==
    ASSUME NEW code \in Int
    PROVE  /\ code = 3 => map_scan_code(shifted_keymap, code) = {64}
           /\ code = 27 => map_scan_code(shifted_keymap, code) = {125}
           /\ code \in {14, 15, 28, 29, 30, 38, 42, 54, 56} \/ code > 255
                 => map_scan_code(shifted_keymap, code) = {}
<1> DEFINE digits   == Group(2, <<33, 64, 35, 36, 37, 94, 38, 42, 40, 41, 95, 43>>)
           brackets == Group(26, <<123, 125>>)
<1>1. digits \in shifted_keymap /\ brackets \in shifted_keymap
  BY Zenon DEF shifted_keymap
<1>2. CASE code = 3
  <2>0. PICK g : g = digits
    OBVIOUS
  <2>1. in_group(g, code) /\ Append(g.chars, NUL)[code - g.first + 1] = 64
    BY <1>2, <2>0 DEF in_group, Group
  <2>4. g \in shifted_keymap
    BY <1>1, <2>0
  <2>2. \A h \in shifted_keymap : in_group(h, code) => h = g
    BY <1>1, <2>0, <1>2, ShiftedGroups
  <2>3. map_scan_code(shifted_keymap, code) = {64}
    BY <2>1, <2>2, <2>4, Zenon DEF map_scan_code
  <2> QED BY <1>2, <2>3
<1>3. CASE code = 27
  <2>0. PICK g : g = brackets
    OBVIOUS
  <2>1. in_group(g, code) /\ Append(g.chars, NUL)[code - g.first + 1] = 125
    BY <1>3, <2>0 DEF in_group, Group
  <2>4. g \in shifted_keymap
    BY <1>1, <2>0
  <2>2. \A h \in shifted_keymap : in_group(h, code) => h = g
    BY <1>1, <2>0, <1>3, ShiftedGroups
  <2>3. map_scan_code(shifted_keymap, code) = {125}
    BY <2>1, <2>2, <2>4, ZenonT(40) DEF map_scan_code
  <2> QED BY <1>3, <2>3
<1>4. CASE code \in {14, 15, 28, 29, 30, 38, 42, 54, 56} \/ code > 255
  <2>1. \A g \in shifted_keymap : ~in_group(g, code)
    BY <1>4, ShiftedGroups
  <2> QED BY <1>4, <2>1, NoGroup
<1> QED BY <1>2, <1>3, <1>4

\* What each code prints, with the flags as they are.
LEMMA Printed7 ==
    /\ printing(3) = IF shift THEN {64} ELSE {50}
    /\ printing(27) = IF shift THEN {125} ELSE {93}
    /\ printing(14) = {BS} /\ printing(15) = {HT} /\ printing(28) = {CR}
    /\ printing(30) = {65} /\ printing(38) = {76}
<1> QED BY InvariantPrints, UnshiftedPrints, ShiftedPrints DEF printing

LEMMA Unprinted ==
    ASSUME NEW code \in Int, code \in {29, 42, 54, 56} \/ code > 255
    PROVE  printing(code) = {}
  BY InvariantPrints, UnshiftedPrints, ShiftedPrints DEF printing

---------------------------------------------------------------------------
(* What the handler does with a move of a key, and with half of one.       *)

Printing == {"two", "backspace", "tab", "rbracket", "enter", "a", "l"}
Silent   == Modifier \cup {"caps", "kpenter"}

ByteOf(k, up) == IF up THEN Code[k] + 128 ELSE Code[k]
CodeOf(k, up) == IF k \in Prefixed THEN E0 * 256 + ByteOf(k, up) ELSE ByteOf(k, up)

LEMMA KeysAre ==
    ASSUME NEW k \in DOMAIN Code
    PROVE  k \in Printing \cup Silent
  BY DEF Code, Printing, Silent, Modifier, Shift

LEMMA CodeParts ==
    ASSUME NEW k \in DOMAIN Code, NEW up \in BOOLEAN
    PROVE  /\ ByteOf(k, up) \in 0 .. 255 /\ ByteOf(k, up) # E0
           /\ CodeOf(k, up) \in Nat
           /\ Release7(CodeOf(k, up)) <=> up
           /\ KeyOf(CodeOf(k, up)) = IF k \in Prefixed THEN E0 * 256 + Code[k] ELSE Code[k]
<1>1. PICK c \in 1 .. 58 : c = Code[k]
  BY Codes
<1>2. PICK b \in 1 .. 186 : b = ByteOf(k, up) /\ b = IF up THEN c + 128 ELSE c
  BY <1>1 DEF ByteOf
<1>3. Release7(b) <=> up
  BY <1>2 DEF Release7
<1>4. Release7(E0 * 256 + b) <=> up
  BY <1>2 DEF Release7, E0
<1> QED BY <1>1, <1>2, <1>3, <1>4 DEF CodeOf, KeyOf, E0

LEMMA SpecialIs ==
    ASSUME NEW j \in Modifier, NEW code
    PROVE  j \in special(code) <=> code = IF j \in Prefixed THEN E0 * 256 + Code[j] ELSE Code[j]
  BY DEF special

LEMMA HandlesMove ==
    ASSUME FlagsOK, NEW k \in DOMAIN Code, NEW up \in BOOLEAN, handle(CodeOf(k, up))
    PROVE  /\ \A j \in Modifier : flag'[j] = IF j = k THEN ~up ELSE flag[j]
           /\ caps_locks' = IF k = "caps" /\ ~up THEN ~caps_locks ELSE caps_locks
           /\ typed' = IF up \/ k \in Silent THEN typed ELSE Append(typed, Letter(Code[k]))
<1> DEFINE code == KeyOf(CodeOf(k, up))
<1>1. /\ CodeOf(k, up) \in Nat /\ (Release7(CodeOf(k, up)) <=> up)
      /\ code = IF k \in Prefixed THEN E0 * 256 + Code[k] ELSE Code[k]
      /\ code \in Int /\ Code[k] \in 1 .. 58
  BY CodeParts, Codes DEF E0
<1> HIDE DEF code
<1>2. CASE k \in Printing
  <2>1. code = Code[k] /\ code # 58 /\ printing(code) # {} /\ k \notin Silent /\ k \notin Modifier
        /\ k # "caps"
    <3>1. k \notin Silent /\ k \notin Modifier /\ k # "caps" /\ k \notin Prefixed
      BY <1>2 DEF Printing, Silent, Prefixed, Modifier, Shift
    <3>2. Code[k] \in {3, 14, 15, 27, 28, 30, 38}
      BY <1>2, CodeIs DEF Printing
    <3>3. code = Code[k]
      BY <1>1, <3>1
    <3>4. printing(Code[k]) # {}
      BY <3>2, Printed7
    <3> QED BY <3>1, <3>2, <3>3, <3>4
  <2>2. /\ UNCHANGED <<flag, caps_locks>>
        /\ \/ up /\ UNCHANGED typed
           \/ ~up /\ typed' = Append(typed, Letter(code))
    BY <1>1, <2>1, Handles, Zenon DEF code
  <2> QED BY <2>1, <2>2
<1>3. CASE k = "caps"
  <2>1. code = 58 /\ k \in Silent /\ k \notin Modifier
    BY <1>1, <1>3, CodeIs DEF Silent, Prefixed, Modifier, Shift
  <2>2. /\ caps_locks' = (IF up THEN caps_locks ELSE ~caps_locks)
        /\ UNCHANGED <<flag, typed>>
    BY <1>1, <2>1, Handles, Zenon DEF code
  <2> QED BY <1>3, <2>1, <2>2
<1>4. CASE k \in Modifier \cup {"kpenter"}
  <2>1. code \in {29, 42, 54, 56} \/ code > 255
    BY <1>1, <1>4, CodeIs DEF Modifier, Shift, Prefixed, E0
  <2>2. code # 58 /\ printing(code) = {} /\ k \in Silent /\ k # "caps"
    BY <1>1, <1>4, <2>1, Unprinted DEF Silent, Modifier, Shift
  <2>3. /\ flag' = [j \in Modifier |-> IF j \in special(code) THEN ~up ELSE flag[j]]
        /\ UNCHANGED <<caps_locks, typed>>
    BY <1>1, <2>2, Handles, Zenon DEF code
  <2>4. ASSUME NEW j \in Modifier PROVE j \in special(code) <=> j = k
    <3>1. /\ j \in special(code) <=> code = IF j \in Prefixed THEN E0 * 256 + Code[j] ELSE Code[j]
      BY SpecialIs
    <3> QED BY <1>1, <1>4, <3>1, CodeIs DEF Modifier, Shift, Prefixed, E0
  <2>5. \A j \in Modifier : flag'[j] = IF j = k THEN ~up ELSE flag[j]
    BY <2>3, <2>4, Zenon
  <2> QED BY <2>2, <2>3, <2>5
<1> QED BY <1>2, <1>3, <1>4, KeysAre DEF Silent

\* The second byte of a prefixed code, read alone, and the prefix read twice.
SecondByte == {28, 29, 56, 156, 157, 184}

LEMMA HandlesHalf ==
    ASSUME NEW scan_code, scan_code \in SecondByte \/ scan_code = E0 * 256 + E0,
           handle(scan_code)
    PROVE  /\ \A j \in Shift : flag'[j] = flag[j]
           /\ caps_locks' = caps_locks
<1>1. scan_code \in Nat /\ KeyOf(scan_code) \notin {42, 54, 58}
  BY DEF SecondByte, E0, KeyOf, Release7
<1>2. \A j \in Shift : j \in Modifier /\ j \notin special(KeyOf(scan_code))
  BY <1>1, SpecialIs, CodeIs DEF Modifier, Shift, Prefixed
<1> QED BY <1>1, <1>2, Handles, ZenonT(40)

\* The character of a key under the flags of the keys held is what it means.
LEMMA LetterMeans ==
    ASSUME FlagsOK, NEW down, NEW lock \in BOOLEAN, caps_locks = lock, ~Crossed(down),
           \A j \in Modifier : flag[j] <=> j \in down,
           NEW k \in Printing
    PROVE  Letter(Code[k]) = Meaning(k, down, lock)
<1> DEFINE shifted == down \cap Shift # {}
           control == down \cap {"lctrl", "rctrl"} # {}
           alted   == down \cap {"lalt", "ralt"} # {}
<1>1. (shift <=> shifted) /\ (ctrl <=> control) /\ (alt <=> alted)
  <2>1. (shift <=> shifted) /\ (alt <=> alted)
    BY DEF shift, alt, Modifier, Shift
  <2>2. "lctrl" \in Modifier /\ "ralt" \in Modifier
    BY DEF Modifier
  <2>3. ctrl <=> "lctrl" \in down \/ "ralt" \in down
    BY <2>2 DEF ctrl
  <2>4. control <=> "lctrl" \in down \/ "rctrl" \in down
    OBVIOUS
  <2>5. "lctrl" \in down \/ ("rctrl" \in down <=> "ralt" \in down)
    BY DEF Crossed
  <2> HIDE DEF shifted, control, alted
  <2> QED BY <2>1, <2>3, <2>4, <2>5, Zenon
<1>2. PICK c : c = CHOOSE d \in printing(Code[k]) : TRUE
  OBVIOUS
<1>3. printing(Code[k]) # {} => c \in printing(Code[k])
  BY <1>2
<1>4. /\ k = "two" => c = IF shifted THEN 64 ELSE 50
      /\ k = "rbracket" => c = IF shifted THEN 125 ELSE 93
      /\ k = "backspace" => c = BS
      /\ k = "tab" => c = HT
      /\ k = "enter" => c = CR
      /\ k = "a" => c = 65
      /\ k = "l" => c = 76
  BY <1>1, <1>3, Printed7, CodeIs
<1>5. Letter(Code[k]) = character(c)
  BY <1>2 DEF Letter
<1> DEFINE d == IF control /\ c >= 64 /\ c < 96 THEN c - 64
                ELSE IF shifted = lock THEN tolower(c) ELSE c
           plain == CASE k = "a" -> IF control THEN 1 ELSE IF shifted # lock THEN 65 ELSE 97
                      [] k = "l" -> IF control THEN FF ELSE IF shifted # lock THEN 76 ELSE 108
                      [] k = "two" -> IF ~shifted THEN 50 ELSE IF control THEN 0 ELSE 64
                      [] k = "rbracket" -> IF shifted THEN 125 ELSE IF control THEN 29 ELSE 93
                      [] k = "enter" -> CR
                      [] k = "backspace" -> BS
                      [] OTHER -> HT
<1>6. character(c) = IF alted THEN d + 128 ELSE d
  <2>1. shift = shifted /\ ctrl = control /\ alt = alted
    BY <1>1 DEF shift, ctrl, alt
  <2> HIDE DEF shifted, control, alted
  <2> QED BY <2>1, Zenon DEF character
<1>7. Meaning(k, down, lock) = IF alted THEN plain + 128 ELSE plain
  <2>1. Meaning(k, down, lock) = IF ~alted THEN plain ELSE plain + 128
    BY ZenonT(40) DEF Meaning
  <2> QED BY <2>1, Zenon
<1>8. shifted \in BOOLEAN /\ control \in BOOLEAN
  OBVIOUS
<1> HIDE DEF shifted, control, alted
<1>9. d = plain
  BY <1>4, <1>8 DEF tolower, isupper, Printing, BS, HT, CR, FF
<1> QED BY <1>5, <1>6, <1>7, <1>9

---------------------------------------------------------------------------
(* The moves of keys that wait in the queue.  K holds the moves and S the  *)
(* moments before them, numbered from the first move ever made; those from *)
(* lo on wait, hi is the number of the next one.  Positions (at) count the *)
(* bytes ever sent, of which c are read.                                   *)

Move   == [key : DOMAIN Code, up : BOOLEAN]
Moment == [held : SUBSET DOMAIN Code, caps : BOOLEAN, at : Nat, nth : Nat]

Width(m) == IF m.key \in Prefixed THEN 2 ELSE 1
Types(m) == ~m.up /\ m.key \in Printing
After(s, m) ==
    [held |-> IF m.up THEN s.held \ {m.key} ELSE s.held \cup {m.key},
     caps |-> IF m.key = "caps" /\ ~m.up THEN ~s.caps ELSE s.caps,
     at   |-> s.at + Width(m),
     nth  |-> IF Types(m) THEN s.nth + 1 ELSE s.nth]

\* The moment the user is at.
UserIsAt(s, c) ==
    s.held = held /\ s.caps = caps /\ s.at = c + Len(queue) /\ s.nth = Len(meant)

\* The bytes of a move wait in the queue, the prefix unless it is read.
Queued(s, m, c) ==
    LET last == s.at + Width(m) - c IN
    /\ last \in 1 .. Len(queue) /\ queue[last] = ByteOf(m.key, m.up)
    /\ m.key \in Prefixed /\ s.at >= c => queue[last - 1] = E0

\* What a key is claimed to mean.
Claim(k, down, lock) == IF Crossed(down) THEN Unclaimed ELSE Meaning(k, down, lock)

MeantAt(s, m) ==
    Types(m) => s.nth < Len(meant) /\ meant[s.nth + 1] = Claim(m.key, s.held, s.caps)

\* What the handler has made of the moves before a moment.
FlagsFollow(s) ==
    /\ \A k \in Shift : flag[k] <=> k \in s.held
    /\ mistimed \/ \A k \in Modifier : flag[k] <=> k \in s.held
    /\ caps_locks = s.caps
TypedFollows(s) ==
    \/ mistimed
    \/ /\ Len(typed) = s.nth /\ s.nth <= Len(meant)
       /\ \A n \in 1 .. s.nth : meant[n] \in {typed[n], Unclaimed}

HalfRead(s, m, c) == mistimed /\ m.key \in Prefixed /\ s.at + 1 = c

Waiting(K, S, lo, hi, c) ==
    /\ \A j \in lo .. hi - 1 : /\ S[j + 1] = After(S[j], K[j])
                               /\ Queued(S[j], K[j], c) /\ MeantAt(S[j], K[j])
    /\ \A j, l \in lo .. hi : j < l => S[j].at < S[l].at

Tracks(K, S, lo, hi, c) ==
    /\ lo <= hi
    /\ UserIsAt(S[hi], c)
    /\ Waiting(K, S, lo, hi, c)
    /\ S[lo].at = c \/ (lo < hi /\ HalfRead(S[lo], K[lo], c))
    /\ FlagsFollow(S[lo]) /\ TypedFollows(S[lo])

Tracking ==
    \E K \in [Nat -> Move], S \in [Nat -> Moment], lo \in Nat, hi \in Nat, c \in Nat :
        Tracks(K, S, lo, hi, c)

\* A byte that is read again is the second one of two.
Repeated == irq /\ queue = <<>> => mistimed /\ data \in SecondByte

TInv == IInv /\ Tracking /\ Repeated

LEMMA Widths ==
    ASSUME NEW m \in Move, NEW s \in Moment
    PROVE  /\ m.key \in DOMAIN Code /\ m.up \in BOOLEAN /\ Width(m) \in {1, 2}
           /\ s.at \in Nat /\ s.nth \in Nat /\ s.held \subseteq DOMAIN Code /\ s.caps \in BOOLEAN
           /\ After(s, m) \in Moment
           /\ After(s, m).at = s.at + Width(m)
<1>1. m.key \in DOMAIN Code /\ m.up \in BOOLEAN
  BY DEF Move
<1>2. s.at \in Nat /\ s.nth \in Nat /\ s.held \subseteq DOMAIN Code /\ s.caps \in BOOLEAN
  BY DEF Moment
<1>3. Width(m) \in {1, 2}
  BY DEF Width
<1>4. After(s, m).at = s.at + Width(m)
  BY DEF After
<1>5. (IF m.up THEN s.held \ {m.key} ELSE s.held \cup {m.key}) \in SUBSET DOMAIN Code
  BY <1>1, <1>2
<1>6. (IF m.key = "caps" /\ ~m.up THEN ~s.caps ELSE s.caps) \in BOOLEAN
  BY <1>2
<1>7. s.at + Width(m) \in Nat /\ (IF Types(m) THEN s.nth + 1 ELSE s.nth) \in Nat
  BY <1>2, <1>3
<1>8. After(s, m) \in Moment
  BY <1>5, <1>6, <1>7, Zenon DEF After, Moment
<1> QED BY <1>1, <1>2, <1>3, <1>4, <1>8

---------------------------------------------------------------------------
(* The handler reads the first move that waits.                            *)

\* What of a move still waits when n bytes are read.
LEMMA QueuedStays ==
    ASSUME queue \in Seq(0 .. 255), NEW m \in Move, NEW s \in Moment, NEW c \in Nat,
           NEW n \in 1 .. 2, n <= Len(queue), queue' = Left(n),
           Queued(s, m, c), s.at + Width(m) > c + n
    PROVE  Queued(s, m, c + n)'
<1>1. Width(m) \in {1, 2} /\ s.at \in Nat /\ Len(queue) \in Nat
      /\ (m.key \in Prefixed => Width(m) = 2)
  BY Widths DEF Width
<1>2. PICK last \in 1 .. Len(queue) : last = s.at + Width(m) - c
  BY DEF Queued
<1>3. /\ queue[last] = ByteOf(m.key, m.up) /\ last - n \in 1 .. Len(queue) - n
      /\ m.key \in Prefixed /\ s.at >= c => queue[last - 1] = E0
  <2>1. queue[last] = ByteOf(m.key, m.up)
    BY <1>2, Zenon DEF Queued
  <2>2. m.key \in Prefixed /\ s.at >= c => queue[last - 1] = E0
    BY <1>2, Zenon DEF Queued
  <2>3. last > n
    BY <1>1, <1>2
  <2>4. last - n \in 1 .. Len(queue) - n
    BY <1>1, <1>2, <2>3
  <2> QED BY <2>1, <2>2, <2>4
<1>4. Len(queue') = Len(queue) - n /\ \A p \in 1 .. Len(queue) - n : queue'[p] = queue[p + n]
  <2>1. queue' = SubSeq(queue, n + 1, Len(queue))
    BY DEF Left
  <2> QED BY <1>1, <2>1, SubSeqProperties
<1>5. queue'[last - n] = queue[last]
  BY <1>3, <1>4
<1>6. ASSUME m.key \in Prefixed, s.at >= c + n PROVE queue'[last - n - 1] = queue[last - 1]
  <2>1. last >= n + 2
    BY <1>1, <1>2, <1>6
  <2>2. PICK p \in 1 .. Len(queue) - n : p = last - n - 1 /\ p + n = last - 1
    BY <1>1, <2>1
  <2> QED BY <1>4, <2>2
<1>7. s.at + Width(m) - (c + n) = last - n
  BY <1>1, <1>2, SMTT(30)
<1>8. /\ last - n \in 1 .. Len(queue') /\ queue'[last - n] = ByteOf(m.key, m.up)
      /\ m.key \in Prefixed /\ s.at >= c + n => queue'[last - n - 1] = E0
  <2>1. s.at >= c + n => s.at >= c
    BY <1>1
  <2> QED BY <1>3, <1>4, <1>5, <1>6, <2>1
<1> QED BY <1>7, <1>8, Zenon DEF Queued

\* The moves from another number on still wait.
LEMMA WaitingStays ==
    ASSUME queue \in Seq(0 .. 255), NEW K \in [Nat -> Move], NEW S \in [Nat -> Moment],
           NEW lo \in Nat, NEW hi \in Nat, NEW c \in Nat, Tracks(K, S, lo, hi, c),
           NEW n \in 1 .. 2, n <= Len(queue), queue' = Left(n), NEW low \in lo .. hi,
           \A j \in low .. hi - 1 : S[j + 1].at > c + n,
           UNCHANGED <<held, caps, meant>>
    PROVE  Waiting(K, S, low, hi, c + n)' /\ UserIsAt(S[hi], c + n)'
<1>1. ASSUME NEW j \in low .. hi - 1
      PROVE  /\ S[j + 1] = After(S[j], K[j])
             /\ Queued(S[j], K[j], c + n)' /\ MeantAt(S[j], K[j])'
  <2>1. j \in lo .. hi - 1 /\ j \in Nat /\ S[j] \in Moment /\ K[j] \in Move
    OBVIOUS
  <2>2. S[j + 1] = After(S[j], K[j]) /\ Queued(S[j], K[j], c) /\ MeantAt(S[j], K[j])
    BY <2>1 DEF Tracks, Waiting
  <2>3. S[j].at + Width(K[j]) > c + n
    BY <2>1, <2>2, Widths
  <2>4. Queued(S[j], K[j], c + n)'
    BY <2>1, <2>2, <2>3, QueuedStays
  <2> QED BY <2>2, <2>4 DEF MeantAt
<1>2. \A j, l \in low .. hi : j < l => S[j].at < S[l].at
  BY DEF Tracks, Waiting
<1>3. UserIsAt(S[hi], c + n)'
  <2>1. Len(queue') = Len(queue) - n /\ Len(queue) \in Nat
    BY SubSeqProperties DEF Left
  <2> QED BY <2>1 DEF Tracks, UserIsAt
<1> QED BY <1>1, <1>2, <1>3 DEF Waiting

\* What the flags and the text are once the handler has read a move.
LEMMA Reads ==
    ASSUME FlagsOK, meant \in Seq(0 .. Unclaimed), mistimed \in BOOLEAN, mistimed' \in BOOLEAN,
           NEW s \in Moment, NEW m \in Move,
           FlagsFollow(s), TypedFollows(s), MeantAt(s, m),
           handle(CodeOf(m.key, m.up)), mistimed => mistimed', UNCHANGED meant
    PROVE  FlagsFollow(After(s, m))' /\ TypedFollows(After(s, m))'
<1> DEFINE t == After(s, m)
<1>1. /\ m.key \in DOMAIN Code /\ m.up \in BOOLEAN /\ s.nth \in Nat /\ s.caps \in BOOLEAN
      /\ t.held = (IF m.up THEN s.held \ {m.key} ELSE s.held \cup {m.key})
      /\ t.caps = (IF m.key = "caps" /\ ~m.up THEN ~s.caps ELSE s.caps)
      /\ t.nth = (IF Types(m) THEN s.nth + 1 ELSE s.nth)
  BY Widths DEF After
<1>2. /\ \A j \in Modifier : flag'[j] = IF j = m.key THEN ~m.up ELSE flag[j]
      /\ caps_locks' = IF m.key = "caps" /\ ~m.up THEN ~caps_locks ELSE caps_locks
      /\ typed' = IF m.up \/ m.key \in Silent THEN typed ELSE Append(typed, Letter(Code[m.key]))
  BY <1>1, HandlesMove
<1> HIDE DEF t
<1>3. ASSUME NEW j \in Modifier, flag[j] <=> j \in s.held
      PROVE  flag'[j] <=> j \in t.held
  <2>1. flag'[j] = IF j = m.key THEN ~m.up ELSE flag[j]
    BY <1>2
  <2>2. CASE j = m.key
    BY <1>1, <2>1, <2>2, Zenon
  <2>3. CASE j # m.key
    BY <1>1, <1>3, <2>1, <2>3, Zenon
  <2> QED BY <2>2, <2>3
<1>4. FlagsFollow(t)'
  <2>1. \A j \in Shift : flag'[j] <=> j \in t.held
    BY <1>3 DEF FlagsFollow, Modifier
  <2>2. mistimed' \/ \A j \in Modifier : flag'[j] <=> j \in t.held
    BY <1>3 DEF FlagsFollow
  <2>3. caps_locks' = t.caps
    BY <1>1, <1>2, Zenon DEF FlagsFollow
  <2> QED BY <2>1, <2>2, <2>3, Zenon DEF FlagsFollow
<1>5. TypedFollows(t)'
  <2>1. SUFFICES ASSUME ~mistimed'
                 PROVE  /\ Len(typed') = t.nth /\ t.nth <= Len(meant)
                        /\ \A n \in 1 .. t.nth : meant[n] \in {typed'[n], Unclaimed}
    BY Zenon DEF TypedFollows
  <2>2. /\ ~mistimed /\ Len(typed) = s.nth /\ s.nth <= Len(meant)
        /\ \A n \in 1 .. s.nth : meant[n] \in {typed[n], Unclaimed}
    BY <2>1 DEF TypedFollows
  <2>3. typed \in Seq(0 .. 255)
    BY DEF FlagsOK
  <2>4. Types(m) <=> ~m.up /\ m.key \notin Silent
    BY <1>1, KeysAre DEF Types, Printing, Silent, Modifier, Shift
  <2>5. CASE ~Types(m)
    BY <1>1, <1>2, <2>2, <2>4, <2>5
  <2>6. CASE Types(m)
    <3>1. Claim(m.key, s.held, s.caps) \in {Letter(Code[m.key]), Unclaimed}
      <4>1. \A j \in Modifier : flag[j] <=> j \in s.held
        BY <2>2, Zenon DEF FlagsFollow
      <4>2. m.key \in Printing /\ caps_locks = s.caps
        BY <2>6 DEF Types, FlagsFollow
      <4>3. ~Crossed(s.held) => Letter(Code[m.key]) = Meaning(m.key, s.held, s.caps)
        BY <1>1, <4>1, <4>2, LetterMeans
      <4> QED BY <4>3, Zenon DEF Claim
    <3>2. PICK x : x = Letter(Code[m.key])
      OBVIOUS
    <3>3. typed' = Append(typed, x) /\ t.nth = s.nth + 1
      BY <1>1, <1>2, <2>4, <2>6, <3>2
    <3>4. s.nth < Len(meant) /\ meant[s.nth + 1] \in {x, Unclaimed}
      BY <2>6, <3>1, <3>2 DEF MeantAt
    <3>5. Len(typed') = s.nth + 1 /\ typed'[s.nth + 1] = x
          /\ \A n \in 1 .. s.nth : typed'[n] = typed[n]
      <4>1. Len(typed') = Len(typed) + 1 /\ typed'[Len(typed) + 1] = x
            /\ \A n \in 1 .. Len(typed) : typed'[n] = typed[n]
        BY <2>3, <3>3
      <4> QED BY <2>2, <4>1
    <3>6. Len(meant) \in Nat
      OBVIOUS
    <3>7. ASSUME NEW n \in 1 .. s.nth + 1 PROVE meant[n] \in {typed'[n], Unclaimed}
      <4>1. n = s.nth + 1 \/ n \in 1 .. s.nth
        BY <1>1
      <4> QED BY <2>2, <3>4, <3>5, <4>1
    <3> QED BY <1>1, <3>3, <3>4, <3>5, <3>6, <3>7
  <2> QED BY <2>5, <2>6
<1> QED BY <1>4, <1>5 DEF t

\* What they are once it has read half of one.
LEMMA ReadsHalf ==
    ASSUME NEW s \in Moment, NEW m \in Move, FlagsFollow(s), mistimed', m.key \in Prefixed,
           \A j \in Shift : flag'[j] = flag[j], caps_locks' = caps_locks
    PROVE  /\ FlagsFollow(s)' /\ TypedFollows(s)'
           /\ FlagsFollow(After(s, m))' /\ TypedFollows(After(s, m))'
<1>1. m.key \notin Shift /\ m.key # "caps"
  BY DEF Prefixed, Shift
<1>2. After(s, m).held = (IF m.up THEN s.held \ {m.key} ELSE s.held \cup {m.key})
      /\ After(s, m).caps = s.caps
  BY <1>1 DEF After
<1>3. \A j \in Shift : (flag'[j] <=> j \in s.held) /\ (flag'[j] <=> j \in After(s, m).held)
  BY <1>1, <1>2, Zenon DEF FlagsFollow
<1>4. caps_locks' = s.caps /\ caps_locks' = After(s, m).caps
  BY <1>2 DEF FlagsFollow
<1> QED BY <1>3, <1>4, Zenon DEF FlagsFollow, TypedFollows

\* What the queue begins with, move m: a byte, a prefix and a byte, or the byte
\* after a prefix that was read.
BeginsWith(m, from, to, c) ==
    \/ /\ from.at = c /\ to.at = c + 1 /\ m.key \notin Prefixed
       /\ queue[1] = ByteOf(m.key, m.up)
    \/ /\ from.at = c /\ to.at = c + 2 /\ m.key \in Prefixed
       /\ Len(queue) >= 2 /\ queue[1] = E0 /\ queue[2] = ByteOf(m.key, m.up)
    \/ /\ from.at + 1 = c /\ to.at = c + 1 /\ m.key \in Prefixed
       /\ mistimed /\ queue[1] = ByteOf(m.key, m.up)

LEMMA AtHead ==
    ASSUME queue \in Seq(0 .. 255), NEW K \in [Nat -> Move], NEW S \in [Nat -> Moment],
           NEW lo \in Nat, NEW hi \in Nat, NEW c \in Nat, Tracks(K, S, lo, hi, c), queue # <<>>
    PROVE  /\ lo < hi /\ S[lo + 1] = After(S[lo], K[lo]) /\ MeantAt(S[lo], K[lo])
           /\ BeginsWith(K[lo], S[lo], S[lo + 1], c)
<1>1. Len(queue) \in Nat /\ Len(queue) # 0
  OBVIOUS
<1>2. lo < hi
  BY <1>1 DEF Tracks, UserIsAt
<1>3. K[lo] \in Move /\ S[lo] \in Moment /\ lo \in lo .. hi - 1
  BY <1>2
<1>4. S[lo + 1] = After(S[lo], K[lo]) /\ Queued(S[lo], K[lo], c) /\ MeantAt(S[lo], K[lo])
  BY <1>3 DEF Tracks, Waiting
<1>5. S[lo + 1].at = S[lo].at + Width(K[lo]) /\ S[lo].at \in Nat
  BY <1>3, <1>4, Widths
<1>6. PICK last \in 1 .. Len(queue) : last = S[lo].at + Width(K[lo]) - c
  BY <1>4 DEF Queued
<1>7. /\ queue[last] = ByteOf(K[lo].key, K[lo].up)
      /\ K[lo].key \in Prefixed /\ S[lo].at >= c => queue[last - 1] = E0
  BY <1>4, <1>6, Zenon DEF Queued
<1>8. CASE S[lo].at = c /\ K[lo].key \notin Prefixed
  <2>1. Width(K[lo]) = 1
    BY <1>8 DEF Width
  <2> QED BY <1>2, <1>4, <1>5, <1>6, <1>7, <1>8, <2>1 DEF BeginsWith
<1>9. CASE S[lo].at = c /\ K[lo].key \in Prefixed
  <2>1. Width(K[lo]) = 2
    BY <1>9 DEF Width
  <2>2. last = 2
    BY <1>6, <1>9, <2>1
  <2> QED BY <1>1, <1>2, <1>4, <1>5, <1>7, <1>9, <2>1, <2>2 DEF BeginsWith
<1>10. CASE HalfRead(S[lo], K[lo], c)
  <2>1. Width(K[lo]) = 2 /\ K[lo].key \in Prefixed /\ mistimed /\ S[lo].at + 1 = c
    BY <1>10 DEF Width, HalfRead
  <2>2. last = 1
    BY <1>5, <1>6, <2>1
  <2>3. S[lo + 1].at = c + 1
    BY <1>5, <2>1
  <2>4. queue[1] = ByteOf(K[lo].key, K[lo].up)
    BY <1>7, <2>2
  <2> QED BY <1>2, <1>4, <2>1, <2>3, <2>4, Zenon DEF BeginsWith
<1> QED BY <1>8, <1>9, <1>10 DEF Tracks

LEMMA Advances ==
    ASSUME queue \in Seq(0 .. 255), NEW K \in [Nat -> Move], NEW S \in [Nat -> Moment],
           NEW lo \in Nat, NEW hi \in Nat, NEW c \in Nat, Tracks(K, S, lo, hi, c), lo < hi,
           NEW n \in 1 .. 2, n <= Len(queue), queue' = Left(n), S[lo + 1].at = c + n,
           UNCHANGED <<held, caps, meant>>,
           FlagsFollow(S[lo + 1])', TypedFollows(S[lo + 1])'
    PROVE  Tracking'
<1>1. PICK low \in Nat : low = lo + 1
  OBVIOUS
<1>2. \A j \in low .. hi - 1 : S[j + 1].at > c + n
  <2>1. ASSUME NEW j \in low .. hi - 1 PROVE S[j + 1].at > c + n
    <3>1. low \in lo .. hi /\ j + 1 \in lo .. hi /\ low < j + 1
      BY <1>1
    <3>2. S[low].at < S[j + 1].at
      BY <3>1 DEF Tracks, Waiting
    <3>3. S[low].at = c + n /\ S[j + 1].at \in Nat
      <4>1. S[j + 1] \in Moment
        BY <1>1
      <4> QED BY <1>1, <4>1 DEF Moment
    <3> QED BY <3>2, <3>3
  <2> QED BY <2>1
<1>3. low \in lo .. hi /\ low <= hi /\ c + n \in Nat
  BY <1>1
<1>4. Waiting(K, S, low, hi, c + n)' /\ UserIsAt(S[hi], c + n)'
  BY <1>2, <1>3, WaitingStays
<1>5. S[low].at = c + n /\ FlagsFollow(S[low])' /\ TypedFollows(S[low])'
  BY <1>1
<1>6. Tracks(K, S, low, hi, c + n)'
  BY <1>3, <1>4, <1>5 DEF Tracks
<1> QED BY <1>3, <1>6 DEF Tracking

\* The handler takes the prefix alone.
LEMMA AdvancesHalf ==
    ASSUME queue \in Seq(0 .. 255), NEW K \in [Nat -> Move], NEW S \in [Nat -> Moment],
           NEW lo \in Nat, NEW hi \in Nat, NEW c \in Nat, Tracks(K, S, lo, hi, c), lo < hi,
           S[lo].at = c, S[lo + 1].at = c + 2, K[lo].key \in Prefixed,
           Len(queue) >= 2, queue' = Left(1), UNCHANGED <<held, caps, meant>>,
           mistimed', FlagsFollow(S[lo])', TypedFollows(S[lo])'
    PROVE  Tracking'
<1>1. ASSUME NEW j \in lo .. hi - 1 PROVE S[j + 1].at > c + 1
  <2>1. CASE j = lo
    BY <2>1
  <2>2. CASE j > lo
    <3>1. lo + 1 \in lo .. hi /\ j + 1 \in lo .. hi /\ lo + 1 < j + 1
      BY <2>2
    <3>2. S[lo + 1].at < S[j + 1].at
      BY <3>1 DEF Tracks, Waiting
    <3>3. S[j + 1] \in Moment
      OBVIOUS
    <3>4. S[j + 1].at \in Nat
      BY <3>3 DEF Moment
    <3> QED BY <3>2, <3>4
  <2> QED BY <2>1, <2>2
<1>2. lo \in lo .. hi /\ c + 1 \in Nat /\ 1 \in 1 .. 2 /\ 1 <= Len(queue)
  OBVIOUS
<1>3. Waiting(K, S, lo, hi, c + 1)' /\ UserIsAt(S[hi], c + 1)'
  BY <1>1, <1>2, WaitingStays
<1>4. HalfRead(S[lo], K[lo], c + 1)'
  BY DEF HalfRead
<1>5. Tracks(K, S, lo, hi, c + 1)'
  BY <1>3, <1>4 DEF Tracks
<1> QED BY <1>2, <1>5 DEF Tracking

LEMMA SecondBytes ==
    ASSUME NEW k \in Prefixed, NEW up \in BOOLEAN
    PROVE  ByteOf(k, up) \in SecondByte
  BY CodeIs DEF ByteOf, SecondByte, Prefixed

LEMMA ReadStep ==
    ASSUME TInv, kbd_interrupt
    PROVE  Tracking' /\ Repeated'
<1>1. /\ FlagsOK /\ queue \in Seq(0 .. 255) /\ mistimed \in BOOLEAN /\ meant \in Seq(0 .. Unclaimed)
      /\ Len(queue) \in Nat /\ irq /\ UNCHANGED <<held, caps, meant>>
  BY InvIs DEF TInv, DeviceOK, kbd_interrupt, user
<1>2. PICK K \in [Nat -> Move], S \in [Nat -> Moment], lo \in Nat, hi \in Nat, c \in Nat :
         Tracks(K, S, lo, hi, c)
  BY DEF TInv, Tracking
<1>3. K[lo] \in Move /\ S[lo] \in Moment /\ K[lo].key \in DOMAIN Code /\ K[lo].up \in BOOLEAN
      /\ S[lo].at \in Nat
  <2>1. K[lo] \in Move /\ S[lo] \in Moment
    OBVIOUS
  <2> QED BY <2>1, Widths
<1>4. FlagsFollow(S[lo]) /\ TypedFollows(S[lo])
  BY <1>2 DEF Tracks
<1>5. ByteOf(K[lo].key, K[lo].up) \in 0 .. 255 /\ ByteOf(K[lo].key, K[lo].up) # E0
  BY <1>3, CodeParts
<1>6. ASSUME queue # <<>>
      PROVE  /\ lo < hi /\ S[lo + 1] = After(S[lo], K[lo]) /\ MeantAt(S[lo], K[lo])
             /\ BeginsWith(K[lo], S[lo], S[lo + 1], c)
  BY <1>1, <1>2, <1>6, AtHead
<1>7. CASE read_one /\ queue = <<>>
  <2>1. handle(data) /\ queue' = Left(1) /\ irq' = (queue' # <<>>) /\ UNCHANGED mistimed
    BY <1>7 DEF read_one
  <2>2. data \in SecondByte /\ mistimed
    BY <1>1, <1>7 DEF TInv, Repeated
  <2>3. queue' = <<>>
    <3>1. queue' = SubSeq(queue, 2, Len(queue)) /\ Len(queue) = 0
      BY <1>7, <2>1 DEF Left
    <3> QED BY <1>7, <3>1
  <2>4. (\A j \in Shift : flag'[j] = flag[j]) /\ caps_locks' = caps_locks
    BY <2>1, <2>2, HandlesHalf
  <2>5. FlagsFollow(S[lo])' /\ TypedFollows(S[lo])'
    BY <1>4, <2>1, <2>2, <2>4 DEF FlagsFollow, TypedFollows
  <2>6. UNCHANGED <<queue, mistimed, held, caps, meant>>
    BY <1>1, <1>7, <2>1, <2>3
  <2>7. Tracks(K, S, lo, hi, c)'
    BY <1>2, <2>5, <2>6 DEF Tracks, Waiting, Queued, MeantAt, HalfRead, UserIsAt
  <2>8. Repeated'
    BY <2>1, <2>3 DEF Repeated
  <2> QED BY <1>2, <2>7, <2>8 DEF Tracking
<1>8. CASE read_one /\ queue # <<>>
  <2>1. /\ handle(queue[1]) /\ queue' = Left(1) /\ irq' = (queue' # <<>>) /\ UNCHANGED mistimed
        /\ queue[1] # E0 /\ 1 <= Len(queue) /\ 1 \in 1 .. 2
    BY <1>1, <1>8 DEF read_one
  <2>2. Repeated'
    BY <2>1 DEF Repeated
  <2>3. /\ lo < hi /\ S[lo + 1] = After(S[lo], K[lo]) /\ MeantAt(S[lo], K[lo])
        /\ S[lo + 1].at = c + 1 /\ queue[1] = ByteOf(K[lo].key, K[lo].up)
        /\ K[lo].key \notin Prefixed \/ (K[lo].key \in Prefixed /\ mistimed)
    BY <1>8, <1>6, <2>1, Zenon DEF BeginsWith
  <2>4. CASE K[lo].key \notin Prefixed
    <3>1. handle(CodeOf(K[lo].key, K[lo].up))
      BY <2>1, <2>3, <2>4 DEF CodeOf
    <3>2. FlagsFollow(S[lo + 1])' /\ TypedFollows(S[lo + 1])'
      <4>1. mistimed' \in BOOLEAN /\ (mistimed => mistimed')
        BY <1>1, <2>1
      <4>2. FlagsFollow(After(S[lo], K[lo]))' /\ TypedFollows(After(S[lo], K[lo]))'
        BY <1>1, <1>3, <1>4, <2>3, <3>1, <4>1, Reads
      <4> QED BY <2>3, <4>2
    <3>3. Tracking'
      BY <1>1, <1>2, <2>1, <2>3, <3>2, Advances
    <3> QED BY <2>2, <3>3
  <2>5. CASE K[lo].key \in Prefixed /\ mistimed
    <3>1. queue[1] \in SecondByte
      BY <1>3, <2>3, <2>5, SecondBytes
    <3>2. (\A j \in Shift : flag'[j] = flag[j]) /\ caps_locks' = caps_locks
      BY <2>1, <3>1, HandlesHalf
    <3>3. FlagsFollow(S[lo + 1])' /\ TypedFollows(S[lo + 1])'
      <4>1. FlagsFollow(After(S[lo], K[lo]))' /\ TypedFollows(After(S[lo], K[lo]))'
        BY <1>3, <1>4, <2>1, <2>5, <3>2, ReadsHalf
      <4> QED BY <2>3, <4>1
    <3>4. Tracking'
      BY <1>1, <1>2, <2>1, <2>3, <3>3, Advances
    <3> QED BY <2>2, <3>4
  <2> QED BY <2>3, <2>4, <2>5
<1>9. ASSUME queue # <<>>, queue[1] = E0
      PROVE  /\ lo < hi /\ S[lo + 1] = After(S[lo], K[lo]) /\ MeantAt(S[lo], K[lo])
             /\ S[lo].at = c /\ S[lo + 1].at = c + 2 /\ K[lo].key \in Prefixed
             /\ Len(queue) >= 2 /\ queue[2] = ByteOf(K[lo].key, K[lo].up)
  BY <1>5, <1>9, <1>6, Zenon DEF BeginsWith
<1>10. CASE read_both
  <2>1. /\ queue # <<>> /\ queue[1] = E0 /\ queue' = Left(2) /\ data' = queue[2]
        /\ irq' \in {queue' # <<>>, TRUE} /\ mistimed' = (mistimed \/ irq' # (queue' # <<>>))
        /\ handle(E0 * 256 + queue[2]) /\ 2 \in 1 .. 2
    <3>1. Len(queue) >= 2
      BY <1>10 DEF read_both
    <3>2. queue # <<>> /\ 2 \in 1 .. 2
      BY <1>1, <3>1
    <3> QED BY <1>10, <3>2, Zenon DEF read_both
  <2>2. /\ lo < hi /\ S[lo + 1] = After(S[lo], K[lo]) /\ MeantAt(S[lo], K[lo])
        /\ S[lo + 1].at = c + 2 /\ K[lo].key \in Prefixed
        /\ 2 <= Len(queue) /\ queue[2] = ByteOf(K[lo].key, K[lo].up)
    BY <1>1, <1>9, <2>1
  <2>3. handle(CodeOf(K[lo].key, K[lo].up))
    BY <2>1, <2>2 DEF CodeOf
  <2>4. mistimed' \in BOOLEAN /\ (mistimed => mistimed')
    BY <1>1, <2>1
  <2>5. FlagsFollow(S[lo + 1])' /\ TypedFollows(S[lo + 1])'
    <3>1. FlagsFollow(After(S[lo], K[lo]))' /\ TypedFollows(After(S[lo], K[lo]))'
      BY <1>1, <1>3, <1>4, <2>2, <2>3, <2>4, Reads
    <3> QED BY <2>2, <3>1
  <2>6. Tracking'
    BY <1>1, <1>2, <2>1, <2>2, <2>5, Advances
  <2>7. data' \in SecondByte
    BY <1>3, <2>1, <2>2, SecondBytes
  <2>8. irq' /\ queue' = <<>> => mistimed'
    BY <2>1
  <2> QED BY <2>6, <2>7, <2>8 DEF Repeated
<1>11. CASE read_prefix
  <2>1. /\ queue # <<>> /\ queue[1] = E0 /\ queue' = Left(1) /\ mistimed' = TRUE
        /\ handle(E0 * 256 + E0)
    BY <1>1, <1>11 DEF read_prefix
  <2>2. /\ lo < hi /\ S[lo].at = c /\ S[lo + 1].at = c + 2 /\ K[lo].key \in Prefixed
        /\ Len(queue) >= 2
    BY <1>9, <2>1
  <2>3. (\A j \in Shift : flag'[j] = flag[j]) /\ caps_locks' = caps_locks
    BY <2>1, HandlesHalf
  <2>4. FlagsFollow(S[lo])' /\ TypedFollows(S[lo])'
    BY <1>3, <1>4, <2>1, <2>2, <2>3, ReadsHalf
  <2>5. Tracking'
    BY <1>1, <1>2, <2>1, <2>2, <2>4, AdvancesHalf
  <2>6. Len(queue') = Len(queue) - 1
    BY <1>1, <2>1, <2>2, SubSeqProperties DEF Left
  <2>7. queue' # <<>>
    BY <1>1, <2>2, <2>6
  <2> QED BY <2>5, <2>7 DEF Repeated
<1> QED BY <1>7, <1>8, <1>10, <1>11 DEF kbd_interrupt

---------------------------------------------------------------------------
(* The user moves a key, and the queue gets its bytes.                     *)

LEMMA Appends ==
    ASSUME queue \in Seq(0 .. 255), NEW m \in Move, NEW s \in Moment, NEW c \in Nat,
           s.at = c + Len(queue), queue' = queue \o Bytes(m.key, ByteOf(m.key, m.up))
    PROVE  /\ Len(queue') = Len(queue) + Width(m)
           /\ \A p \in 1 .. Len(queue) : queue'[p] = queue[p]
           /\ Queued(s, m, c)'
<1>1. Len(queue) \in Nat /\ m.key \in DOMAIN Code /\ m.up \in BOOLEAN
  BY Widths
<1>2. PICK b \in 0 .. 255 : b = ByteOf(m.key, m.up)
  BY <1>1, CodeParts
<1>3. CASE m.key \in Prefixed
  <2>1. queue' = queue \o <<E0, b>> /\ Width(m) = 2
    BY <1>2, <1>3 DEF Bytes, Width
  <2>2. E0 \in 0 .. 255
    BY DEF E0
  <2>3. /\ Len(queue') = Len(queue) + 2
        /\ \A p \in 1 .. Len(queue) : queue'[p] = queue[p]
        /\ queue'[Len(queue) + 1] = E0 /\ queue'[Len(queue) + 2] = b
    <3>1. PICK q \in Seq(0 .. 255), e \in 0 .. 255 : q = queue /\ e = E0
      BY <2>2
    <3>2. PICK r : r = queue'
      OBVIOUS
    <3>3. r = q \o <<e, b>>
      BY <2>1, <3>1, <3>2
    <3>4. /\ Len(r) = Len(q) + 2 /\ \A p \in 1 .. Len(q) : r[p] = q[p]
          /\ r[Len(q) + 1] = e /\ r[Len(q) + 2] = b
      BY <3>3
    <3> QED BY <3>1, <3>2, <3>4
  <2>4. PICK last \in Int : last = s.at + 2 - c /\ last = Len(queue) + 2 /\ last - 1 = Len(queue) + 1
    <3>1. PICK n \in Nat : n = Len(queue)
      BY <1>1
    <3>2. s.at + 2 - c = n + 2
      BY <3>1
    <3>3. n + 2 \in Int /\ (n + 2) - 1 = n + 1
      OBVIOUS
    <3> QED BY <3>1, <3>2, <3>3
  <2>5. last \in 1 .. Len(queue') /\ queue'[last] = b /\ queue'[last - 1] = E0
    BY <1>1, <2>3, <2>4
  <2> QED BY <1>2, <2>1, <2>3, <2>4, <2>5 DEF Queued
<1>4. CASE m.key \notin Prefixed
  <2>1. queue' = queue \o <<b>> /\ Width(m) = 1
    BY <1>2, <1>4 DEF Bytes, Width
  <2>2. <<b>> \in Seq(0 .. 255)
    OBVIOUS
  <2>3. /\ Len(queue') = Len(queue) + 1
        /\ \A p \in 1 .. Len(queue) : queue'[p] = queue[p]
        /\ queue'[Len(queue) + 1] = b
    BY <1>1, <2>1, <2>2
  <2>4. PICK last \in Int : last = s.at + 1 - c /\ last = Len(queue) + 1
    BY <1>1
  <2>5. last \in 1 .. Len(queue') /\ queue'[last] = b
    BY <1>1, <2>3, <2>4
  <2> QED BY <1>2, <1>4, <2>1, <2>3, <2>4, <2>5 DEF Queued
<1> QED BY <1>3, <1>4

\* What k means if it moves down now.
Adds(k, up) ==
    meant' = IF up \/ k \in Silent THEN meant ELSE Append(meant, Claim(k, held, caps))

LEMMA Meant ==
    ASSUME meant \in Seq(0 .. Unclaimed), NEW m \in Move, Adds(m.key, m.up)
    PROVE  /\ Len(meant') = (IF Types(m) THEN Len(meant) + 1 ELSE Len(meant))
           /\ \A p \in 1 .. Len(meant) : meant'[p] = meant[p]
           /\ Types(m) => meant'[Len(meant) + 1] = Claim(m.key, held, caps)
<1>1. m.key \in DOMAIN Code /\ m.up \in BOOLEAN
  BY DEF Move
<1>2. Types(m) <=> ~(m.up \/ m.key \in Silent)
  BY <1>1, KeysAre DEF Types, Printing, Silent, Modifier, Shift
<1>3. PICK x : x = Claim(m.key, held, caps)
  OBVIOUS
<1>4. CASE Types(m)
  <2>1. meant' = Append(meant, x)
    BY <1>2, <1>3, <1>4 DEF Adds
  <2> QED BY <1>3, <1>4, <2>1
<1>5. CASE ~Types(m)
  BY <1>2, <1>5 DEF Adds
<1> QED BY <1>4, <1>5

LEMMA Joins ==
    ASSUME queue \in Seq(0 .. 255), meant \in Seq(0 .. Unclaimed), held \subseteq DOMAIN Code, caps \in BOOLEAN,
           NEW K \in [Nat -> Move], NEW S \in [Nat -> Moment],
           NEW lo \in Nat, NEW hi \in Nat, NEW c \in Nat, Tracks(K, S, lo, hi, c),
           NEW m \in Move, queue' = queue \o Bytes(m.key, ByteOf(m.key, m.up)),
           held' = IF m.up THEN held \ {m.key} ELSE held \cup {m.key},
           caps' = IF m.key = "caps" /\ ~m.up THEN ~caps ELSE caps,
           Adds(m.key, m.up), UNCHANGED <<flag, caps_locks, mistimed, typed>>
    PROVE  Tracking'
<1>1. S[hi] \in Moment /\ After(S[hi], m) \in Moment /\ Width(m) \in {1, 2}
      /\ m.key \in DOMAIN Code /\ m.up \in BOOLEAN /\ After(S[hi], m).at = S[hi].at + Width(m)
      /\ S[hi].at \in Nat /\ Len(queue) \in Nat /\ Len(meant) \in Nat
  <2>1. S[hi] \in Moment
    OBVIOUS
  <2> QED BY <2>1, Widths
<1>2. PICK K1 \in [Nat -> Move] : K1[hi] = m /\ \A j \in Nat : j # hi => K1[j] = K[j]
  <2>1. [K EXCEPT ![hi] = m] \in [Nat -> Move]
    OBVIOUS
  <2> QED BY <2>1
<1>3. PICK S1 \in [Nat -> Moment] : /\ S1[hi + 1] = After(S[hi], m)
                                    /\ \A j \in Nat : j # hi + 1 => S1[j] = S[j]
  <2>1. PICK s \in Moment : s = After(S[hi], m)
    BY <1>1
  <2>2. PICK n \in Nat : n = hi + 1
    OBVIOUS
  <2>3. [S EXCEPT ![n] = s] \in [Nat -> Moment]
    OBVIOUS
  <2>4. \E f \in [Nat -> Moment] : f[n] = s /\ \A j \in Nat : j # n => f[j] = S[j]
    BY <2>3
  <2> QED BY <2>1, <2>2, <2>4
<1>4. lo <= hi /\ UserIsAt(S[hi], c)
  BY DEF Tracks
<1>5. S[hi].held = held /\ S[hi].caps = caps /\ S[hi].at = c + Len(queue) /\ S[hi].nth = Len(meant)
  BY <1>4 DEF UserIsAt
<1>6. /\ Len(queue') = Len(queue) + Width(m)
      /\ \A p \in 1 .. Len(queue) : queue'[p] = queue[p]
      /\ Queued(S[hi], m, c)'
  BY <1>1, <1>5, Appends
<1>7. /\ Len(meant') = (IF Types(m) THEN Len(meant) + 1 ELSE Len(meant))
      /\ \A p \in 1 .. Len(meant) : meant'[p] = meant[p]
      /\ Types(m) => meant'[Len(meant) + 1] = Claim(m.key, held, caps)
  BY Meant
<1>8. ASSUME NEW j \in lo .. hi - 1
      PROVE  /\ S1[j + 1] = After(S1[j], K1[j])
             /\ Queued(S1[j], K1[j], c)' /\ MeantAt(S1[j], K1[j])'
  <2>1. S1[j] = S[j] /\ S1[j + 1] = S[j + 1] /\ K1[j] = K[j]
    BY <1>2, <1>3
  <2>2. S[j + 1] = After(S[j], K[j]) /\ Queued(S[j], K[j], c) /\ MeantAt(S[j], K[j])
    BY DEF Tracks, Waiting
  <2>3. K[j] \in Move /\ S[j] \in Moment
    OBVIOUS
  <2>4. S[j].nth \in Nat /\ S[j].at \in Nat /\ Width(K[j]) \in {1, 2}
        /\ (K[j].key \in Prefixed => Width(K[j]) = 2)
    BY <2>3, Widths DEF Width
  <2>5. Queued(S[j], K[j], c)'
    <3>1. PICK last \in 1 .. Len(queue) : last = S[j].at + Width(K[j]) - c
      BY <2>2 DEF Queued
    <3>2. queue[last] = ByteOf(K[j].key, K[j].up)
          /\ (K[j].key \in Prefixed /\ S[j].at >= c => queue[last - 1] = E0)
      BY <2>2, <3>1, Zenon DEF Queued
    <3>3. last \in 1 .. Len(queue') /\ queue'[last] = queue[last]
      BY <1>1, <1>6
    <3>4. ASSUME K[j].key \in Prefixed, S[j].at >= c PROVE queue'[last - 1] = queue[last - 1]
      <4>1. last - 1 \in 1 .. Len(queue)
        BY <2>4, <3>1, <3>4, SMTT(30)
      <4> QED BY <1>6, <4>1
    <3> QED BY <3>1, <3>2, <3>3, <3>4, Zenon DEF Queued
  <2>6. MeantAt(S[j], K[j])'
    <3>1. ASSUME Types(K[j])
          PROVE  /\ S[j].nth < Len(meant')
                 /\ meant'[S[j].nth + 1] = Claim(K[j].key, S[j].held, S[j].caps)
      <4>1. S[j].nth < Len(meant) /\ meant[S[j].nth + 1] = Claim(K[j].key, S[j].held, S[j].caps)
        BY <2>2, <3>1 DEF MeantAt
      <4>2. PICK p \in 1 .. Len(meant) : p = S[j].nth + 1
        BY <2>4, <4>1, <1>1
      <4>3. meant'[S[j].nth + 1] = meant[S[j].nth + 1]
        BY <1>7, <4>2
      <4>4. S[j].nth < Len(meant')
        BY <1>1, <1>7, <2>4, <4>1
      <4> QED BY <4>1, <4>3, <4>4
    <3> QED BY <3>1 DEF MeantAt
  <2> QED BY <2>1, <2>2, <2>5, <2>6
<1>9. /\ S1[hi + 1] = After(S1[hi], K1[hi])
       /\ Queued(S1[hi], K1[hi], c)' /\ MeantAt(S1[hi], K1[hi])'
  <2>1. S1[hi] = S[hi] /\ K1[hi] = m /\ S1[hi + 1] = After(S[hi], m)
    BY <1>2, <1>3
  <2>2. Queued(S[hi], m, c)'
    BY <1>6
  <2>3. MeantAt(S[hi], m)'
    <3>1. Types(m) => Len(meant) < Len(meant')
      BY <1>1, <1>7
    <3> QED BY <1>5, <1>7, <3>1, Zenon DEF MeantAt
  <2> QED BY <2>1, <2>2, <2>3
<1>10. Waiting(K1, S1, lo, hi + 1, c)'
  <2>1. ASSUME NEW j \in lo .. hi
        PROVE  /\ S1[j + 1] = After(S1[j], K1[j])
               /\ Queued(S1[j], K1[j], c)' /\ MeantAt(S1[j], K1[j])'
    <3>1. j = hi \/ j \in lo .. hi - 1
      OBVIOUS
    <3> QED BY <1>8, <1>9, <3>1
  <2>2. ASSUME NEW j \in lo .. hi + 1, NEW l \in lo .. hi + 1, j < l PROVE S1[j].at < S1[l].at
    <3>1. CASE l \in lo .. hi
      <4>1. j \in lo .. hi /\ S1[j] = S[j] /\ S1[l] = S[l]
        BY <1>3, <2>2, <3>1
      <4> QED BY <2>2, <3>1, <4>1 DEF Tracks, Waiting
    <3>2. CASE l = hi + 1
      <4>1. j \in lo .. hi /\ j \in Nat /\ S1[j] = S[j] /\ S1[l] = After(S[hi], m)
        BY <1>3, <2>2, <3>2
      <4>2. S[j].at <= S[hi].at
        <5>1. j = hi \/ j < hi
          BY <4>1
        <5>2. hi \in lo .. hi
          BY <1>4
        <5>3. j < hi => S[j].at < S[hi].at
          BY <4>1, <5>2 DEF Tracks, Waiting
        <5>4. S[j] \in Moment
          BY <4>1
        <5>5. S[j].at \in Nat
          BY <5>4 DEF Moment
        <5> QED BY <1>1, <5>1, <5>3, <5>5
      <4>3. S[j] \in Moment
        BY <4>1
      <4>4. S[j].at \in Nat
        BY <4>3 DEF Moment
      <4> QED BY <1>1, <4>1, <4>2, <4>4
    <3> QED BY <3>1, <3>2
  <2>3. hi + 1 - 1 = hi
    OBVIOUS
  <2> QED BY <2>1, <2>2, <2>3 DEF Waiting
<1>11. UserIsAt(S1[hi + 1], c)'
  <2>1. PICK s \in Moment : s = After(S[hi], m) /\ s = S1[hi + 1]
    BY <1>1, <1>3
  <2>2. s.held = held' /\ s.caps = caps'
    BY <1>5, <2>1 DEF After
  <2>3. s.at = c + Len(queue')
    BY <1>1, <1>5, <1>6, <2>1
  <2>4. s.nth = Len(meant')
    BY <1>5, <1>7, <2>1 DEF After
  <2> QED BY <2>1, <2>2, <2>3, <2>4 DEF UserIsAt
<1>12. S1[lo] = S[lo] /\ (lo < hi => K1[lo] = K[lo]) /\ lo <= hi + 1 /\ hi + 1 \in Nat
  BY <1>2, <1>3, <1>4
<1>13. S1[lo].at = c \/ (lo < hi + 1 /\ HalfRead(S1[lo], K1[lo], c)')
  BY <1>12 DEF Tracks, HalfRead
<1>14. FlagsFollow(S1[lo])' /\ TypedFollows(S1[lo])'
  <2>1. S[lo].nth \in Nat
    <3>1. S[lo] \in Moment
      OBVIOUS
    <3> QED BY <3>1 DEF Moment
  <2>2. FlagsFollow(S[lo])'
    BY DEF Tracks, FlagsFollow
  <2>3. TypedFollows(S[lo])'
    <3>1. TypedFollows(S[lo])
      BY DEF Tracks
    <3>2. Len(meant) <= Len(meant')
      BY <1>1, <1>7
    <3>3. mistimed' = mistimed /\ typed' = typed
      OBVIOUS
    <3>4. ASSUME NEW n \in 1 .. S[lo].nth, S[lo].nth <= Len(meant) PROVE meant'[n] = meant[n]
      <4>1. n \in 1 .. Len(meant)
        BY <1>1, <2>1, <3>4
      <4> QED BY <1>7, <4>1
    <3>5. S[lo].nth <= Len(meant) => S[lo].nth <= Len(meant')
      BY <1>1, <1>7, <2>1, <3>2
    <3>6. SUFFICES ASSUME ~mistimed'
                   PROVE  /\ Len(typed') = S[lo].nth /\ S[lo].nth <= Len(meant')
                          /\ \A n \in 1 .. S[lo].nth : meant'[n] \in {typed'[n], Unclaimed}
      BY Zenon DEF TypedFollows
    <3>7. /\ Len(typed) = S[lo].nth /\ S[lo].nth <= Len(meant)
          /\ \A n \in 1 .. S[lo].nth : meant[n] \in {typed[n], Unclaimed}
      <4>1. ~mistimed
        BY <3>3, <3>6
      <4> QED BY <3>1, <4>1, Zenon DEF TypedFollows
    <3>8. ASSUME NEW n \in 1 .. S[lo].nth PROVE meant'[n] \in {typed'[n], Unclaimed}
      BY <3>3, <3>4, <3>7
    <3> QED BY <3>3, <3>5, <3>7, <3>8
  <2> QED BY <1>12, <2>2, <2>3
<1>15. Tracks(K1, S1, lo, hi + 1, c)'
  BY <1>10, <1>11, <1>12, <1>13, <1>14 DEF Tracks
<1> QED BY <1>12, <1>15 DEF Tracking

LEMMA MovesTrack ==
    ASSUME TInv, NEW k \in Key, Press(k) \/ Release(k)
    PROVE  Tracking' /\ Repeated'
<1>1. /\ queue \in Seq(0 .. 255) /\ meant \in Seq(0 .. Unclaimed) /\ held \subseteq DOMAIN Code
      /\ caps \in BOOLEAN /\ k \in DOMAIN Code
  BY InvIs, KeyboardAssumption DEF TInv, DeviceOK
<1>2. PICK K \in [Nat -> Move], S \in [Nat -> Moment], lo \in Nat, hi \in Nat, c \in Nat :
         Tracks(K, S, lo, hi, c)
  BY DEF TInv, Tracking
<1>3. PICK m \in Move : m.key = k /\ (m.up <=> Release(k) /\ ~Press(k))
  <2>1. [key |-> k, up |-> TRUE] \in Move /\ [key |-> k, up |-> FALSE] \in Move
    BY <1>1 DEF Move
  <2> QED BY <2>1
<1>4. Send(Bytes(k, ByteOf(k, m.up)))
  BY <1>3 DEF Press, Release, ByteOf
<1>5. /\ queue' = queue \o Bytes(m.key, ByteOf(m.key, m.up)) /\ irq'
      /\ UNCHANGED <<flag, caps_locks, mistimed, typed>>
  BY <1>3, <1>4 DEF Send
<1>6. held' = (IF m.up THEN held \ {m.key} ELSE held \cup {m.key})
      /\ caps' = IF m.key = "caps" /\ ~m.up THEN ~caps ELSE caps
  BY <1>1, <1>3 DEF Press, Release
<1>7. Adds(m.key, m.up)
  BY <1>3 DEF Press, Release, Adds, Silent, Claim
<1>8. Tracking'
  BY <1>1, <1>2, <1>5, <1>6, <1>7, Joins
<1>9. queue' # <<>>
  <2>1. Len(queue') = Len(queue) + Width(m) /\ Width(m) \in {1, 2} /\ Len(queue) \in Nat
    <3>1. S[hi] \in Moment /\ S[hi].at = c + Len(queue)
      BY <1>2 DEF Tracks, UserIsAt
    <3>2. Len(queue') = Len(queue) + Width(m)
      BY <1>1, <1>5, <3>1, Appends
    <3> QED BY <1>1, <3>2 DEF Width
  <2> QED BY <2>1
<1> QED BY <1>8, <1>9 DEF Repeated

LEMMA ConsoleTracks ==
    ASSUME TInv, console \/ UNCHANGED vars
    PROVE  Tracking' /\ Repeated'
<1>1. UNCHANGED <<flag, caps_locks, queue, data, irq, held, caps, mistimed, typed, meant>>
  BY DEF console, vars, device, user
<1>2. PICK K \in [Nat -> Move], S \in [Nat -> Moment], lo \in Nat, hi \in Nat, c \in Nat :
         Tracks(K, S, lo, hi, c)
  BY DEF TInv, Tracking
<1>3. Tracks(K, S, lo, hi, c)'
  BY <1>1, <1>2 DEF Tracks, Waiting, Queued, MeantAt, HalfRead, UserIsAt, FlagsFollow, TypedFollows
<1>4. Repeated'
  BY <1>1 DEF TInv, Repeated
<1> QED BY <1>2, <1>3, <1>4 DEF Tracking

LEMMA StartsTracking ==
    Init => Tracking /\ Repeated
<1> SUFFICES ASSUME Init PROVE Tracking /\ Repeated
  OBVIOUS
<1>1. /\ flag = [k \in Modifier |-> FALSE] /\ caps_locks = FALSE /\ queue = <<>> /\ irq = FALSE
      /\ held = {} /\ caps = FALSE /\ mistimed = FALSE /\ typed = <<>> /\ meant = <<>>
  BY DEF Init
<1>2. PICK m \in Move : TRUE
  <2>1. "two" \in DOMAIN Code
    BY DEF Code
  <2>2. [key |-> "two", up |-> FALSE] \in Move
    BY <2>1 DEF Move
  <2> QED BY <2>2
<1>3. PICK s \in Moment : s.held = {} /\ s.caps = FALSE /\ s.at = 0 /\ s.nth = 0
  <2>1. {} \in SUBSET DOMAIN Code /\ FALSE \in BOOLEAN /\ 0 \in Nat
    OBVIOUS
  <2>2. [held |-> {}, caps |-> FALSE, at |-> 0, nth |-> 0] \in Moment
    BY <2>1, Zenon DEF Moment
  <2> QED BY <2>2
<1>4. PICK K \in [Nat -> Move] : TRUE
  <2>1. [n \in Nat |-> m] \in [Nat -> Move]
    OBVIOUS
  <2> QED BY <2>1
<1>5. PICK S \in [Nat -> Moment] : S[0] = s
  <2>1. [n \in Nat |-> s] \in [Nat -> Moment]
    OBVIOUS
  <2> QED BY <2>1
<1>6. UserIsAt(S[0], 0)
  <2>1. Len(queue) = 0 /\ Len(meant) = 0
    BY <1>1
  <2>2. s.held = held /\ s.caps = caps
    BY <1>1, <1>3, Zenon
  <2>3. s.at = 0 + Len(queue) /\ s.nth = Len(meant)
    BY <1>3, <2>1
  <2> QED BY <1>5, <2>2, <2>3, Zenon DEF UserIsAt
<1>7. Waiting(K, S, 0, 0, 0)
  BY DEF Waiting
<1>8. FlagsFollow(S[0])
  <2>1. \A k \in Modifier : ~flag[k]
    BY <1>1
  <2>2. \A k \in Shift : ~flag[k]
    BY <2>1 DEF Modifier
  <2> QED BY <1>1, <1>3, <1>5, <2>1, <2>2 DEF FlagsFollow
<1>9. TypedFollows(S[0])
  BY <1>1, <1>3, <1>5 DEF TypedFollows
<1>10. 0 \in Nat /\ 0 <= 0 /\ S[0].at = 0
  BY <1>3, <1>5
<1>11. Tracks(K, S, 0, 0, 0)
  BY <1>6, <1>7, <1>8, <1>9, <1>10 DEF Tracks
<1>12. Repeated
  BY <1>1 DEF Repeated
<1> QED BY <1>10, <1>11, <1>12 DEF Tracking

---------------------------------------------------------------------------
(* The theorem.                                                            *)

\* When the queue is empty no move waits.
LEMMA NoneWaits ==
    ASSUME IInv, NEW K \in [Nat -> Move], NEW S \in [Nat -> Moment],
           NEW lo \in Nat, NEW hi \in Nat, NEW c \in Nat, Tracks(K, S, lo, hi, c), queue = <<>>
    PROVE  lo = hi
<1>1. SUFFICES ASSUME lo < hi PROVE FALSE
  BY DEF Tracks
<1>2. lo \in lo .. hi - 1
  BY <1>1
<1>3. Queued(S[lo], K[lo], c)
  BY <1>2 DEF Tracks, Waiting
<1>4. 1 .. Len(queue) = {}
  <2>1. Len(queue) = 0
    OBVIOUS
  <2> QED BY <2>1
<1> QED BY <1>3, <1>4, Zenon DEF Queued

LEMMA TrackingShows == TInv => TypedIsMeant
<1> SUFFICES ASSUME TInv PROVE TypedIsMeant
  OBVIOUS
<1>1. /\ IInv /\ flag \in [Modifier -> BOOLEAN] /\ typed \in Seq(0 .. 255)
      /\ meant \in Seq(0 .. Unclaimed) /\ mistimed \in BOOLEAN
  BY InvIs DEF TInv, FlagsOK, DeviceOK
<1>2. PICK K \in [Nat -> Move], S \in [Nat -> Moment], lo \in Nat, hi \in Nat, c \in Nat :
         Tracks(K, S, lo, hi, c)
  BY DEF TInv, Tracking
<1>3. FlagsFollow(S[lo]) /\ TypedFollows(S[lo])
  BY <1>2 DEF Tracks
<1>4. mistimed \/ /\ Len(typed) <= Len(meant)
                  /\ \A j \in DOMAIN typed : meant[j] \in {typed[j], Unclaimed}
  <2>1. DOMAIN typed = 1 .. Len(typed)
    BY <1>1
  <2> QED BY <1>3, <2>1 DEF TypedFollows
<1>5. ModifiersTrack
  <2>1. SUFFICES ASSUME queue = <<>>
                 PROVE  /\ \A k \in (IF mistimed THEN Shift ELSE Modifier) : flag[k] = (k \in held)
                        /\ caps_locks = caps
    BY DEF ModifiersTrack
  <2>2. S[lo].held = held /\ S[lo].caps = caps
    <3>1. lo = hi
      BY <1>1, <1>2, <2>1, NoneWaits
    <3> QED BY <1>2, <3>1 DEF Tracks, UserIsAt
  <2>3. caps_locks = caps
    BY <1>3, <2>2 DEF FlagsFollow
  <2>4. \A k \in (IF mistimed THEN Shift ELSE Modifier) : flag[k] <=> k \in held
    BY <1>3, <2>2 DEF FlagsFollow
  <2>5. \A k \in (IF mistimed THEN Shift ELSE Modifier) : flag[k] \in BOOLEAN
    BY <1>1 DEF Modifier
  <2> QED BY <2>3, <2>4, <2>5
<1> QED BY <1>4, <1>5 DEF TypedIsMeant

LEMMA TrackingInvariant == Spec => []TInv
<1>1. Init => TInv
  BY Initially, StartsTracking DEF TInv
<1>2. TInv /\ [Next]_vars => TInv'
  <2> SUFFICES ASSUME TInv, [Next]_vars PROVE TInv'
    OBVIOUS
  <2>1. IInv
    BY DEF TInv
  <2>2. IInv'
    BY <2>1, Steps
  <2>3. Tracking' /\ Repeated'
    BY ConsoleTracks, ReadStep, MovesTrack DEF Next
  <2> QED BY <2>2, <2>3 DEF TInv
<1> QED BY <1>1, <1>2, PTL DEF Spec

\* However many moves of keys wait in the queue, whatever keys are held, and
\* wherever the handler runs between the bytes: what kbd_interrupt prints is
\* what the keys meant when they were pressed, and the flags it keeps are those
\* of the keys that are held.  Of a key pressed while right ctrl or right alt,
\* not both, is held without left ctrl, nothing is claimed but that it prints
\* once and in its place.
THEOREM TypedMeant == Spec => []TypedIsMeant
  BY TrackingInvariant, TrackingShows, PTL
=============================================================================
