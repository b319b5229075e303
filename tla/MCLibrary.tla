----------------------------- MODULE MCLibrary -----------------------------
(***************************************************************************)
(* Memory of 6 characters, ints of 8 bits, pages of 64 bytes: 16 entries   *)
(* in a table, a directory for 256 pages.                                  *)
(***************************************************************************)
EXTENDS Library

MCMems == {[a \in 0 .. 5 |-> a + 1], [a \in 0 .. 5 |-> IF a > 3 THEN 0 ELSE a + 1],
           [a \in 0 .. 5 |-> a % 2]}

MCDevices == UNION {{s \in [1 .. n -> 1 .. 4] : \A k, l \in 1 .. n : k < l => s[k] < s[l]} :
                       n \in 0 .. 4}

MCInfos == UNION {[1 .. n -> {65, 66}] : n \in 0 .. 4}

Directive(zeros, widths, convs, args) ==
    [zero : zeros, width : widths, conv : convs, arg : args]
MCFormats ==
    {<<d>> : d \in Directive(BOOLEAN, {0, 1, 2, 4}, {"d", "u", "o", "x", "X", "p"}, 0 .. 255)}
    \cup {<<d, e>> : d \in Directive(BOOLEAN, {0, 3}, {"d", "x", "X", "p"}, {10, 200}),
                     e \in Directive(BOOLEAN, {0, 3}, {"d", "u", "x", "X", "p"}, {0, 10, 255})}

MCFrequencies == {1, 17, 18, 19, 20, 100, 1000, 40000, TICK_HZ \div 2,
                  TICK_HZ \div 2 + 1, TICK_HZ, TICK_HZ + 1}

MCRams == (16 .. 40) \cup {63, 64, 65, 100, 255, 256}
MCPages == 480 .. 530

\* Disks: with the kernel's partition in one of two places, not bootable, of
\* another type, empty, or not partitioned; of any sector unreadable.
NoPart == [type |-> 0, active |-> 0, first |-> 0, count |-> 0]
Part(t, act, f, n) == [type |-> t, active |-> act, first |-> f, count |-> n]
MCDisks ==
    {[bad |-> b, sig |-> s, parts |-> ps] :
        b \in {{}, {0}, {2}}, s \in {0, SIG},
        ps \in {<<NoPart, p, NoPart, q>> :
                    p \in {NoPart, Part(32, 0, 1, 2), Part(131, 128, 1, 2), Part(32, 128, 2, 5)},
                    q \in {NoPart, Part(32, 128, 1, 1), Part(32, 128, 6, 3), Part(32, 128, 17, 3),
                       Part(32, 128, 1, 0)}}}
    \cup {[bad |-> {}, sig |-> 65535, parts |-> <<NoPart, NoPart, NoPart, NoPart>>]}
MCMachines == {<<>>} \cup {<<d>> : d \in MCDisks} \cup {<<d, e>> : d, e \in MCDisks}

\* Memory of 8 MB to 3 GB from 1 MB on, beyond it a reserved region, and more
\* memory at 4 GB, the regions in two orders; with or without a hole at 15 MB.
Region(b, n, t) == [base |-> b, length |-> n, type |-> t]
Low640 == Region(0, 640, 1)
Map(n, more) == <<Low640, Region(MB, n, 1)>> \o more
MCMemories ==
    UNION {{[function88 |-> IF n <= 63 * MB THEN n ELSE 63 * MB, regions |-> m] :
                    m \in {Map(n, more), Reverse(Map(n, more))}} :
                n \in {k * MB : k \in {7, 31, 62, 63, 64, 127, 1023, 2047}},
                more \in {<<>>, <<Region(3 * 2 ^ 20, 256 * MB, 2)>>,
                          <<Region(2 ^ 22, 512 * MB, 1)>>}}
    \cup {[function88 |-> 14 * MB, regions |-> <<Low640, Region(MB, 14 * MB, 1), Region(16 * MB, n * MB, 1)>>] :
            n \in {16, 240}}
=============================================================================
