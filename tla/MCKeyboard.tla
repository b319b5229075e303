---------------------------- MODULE MCKeyboard ----------------------------
(***************************************************************************)
(* A screen of 3 columns.  Two tasks print at the same time; or one prints *)
(* while keys are pressed; or there is only the keyboard.                  *)
(***************************************************************************)
EXTENDS Keyboard

CONSTANTS main_task, idle, kbd

x == 120
y == 121
MCMessage == {<<LF>>, <<x, x, LF>>, <<y, y>>}
Boot == <<x, x, LF>>

Work(main, other, ks, n) ==
    [messages |-> (main_task :> <<Boot>> \o main) @@ (idle :> other),
     keys |-> ks, MaxPress |-> n]

MCWorkload ==
    {Work(<<<<y, y>>, <<LF>>>>, <<<<y, y>>, <<y, y>>>>, {}, 0),
     Work(<<<<y, y>>>>, <<>>, {"a", "backspace", "tab"}, 2),
     Work(<<>>, <<>>, {"a", "enter", "backspace", "tab"}, 3),
     Work(<<>>, <<>>, {"a", "two", "rbracket", "lshift", "rshift", "caps", "lalt"}, 3),
     Work(<<>>, <<>>, {"l", "lctrl", "rctrl", "ralt", "kpenter"}, 3)}
=============================================================================
