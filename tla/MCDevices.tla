------------------------------ MODULE MCDevices ------------------------------
(***************************************************************************)
(* The kernel towards its devices and its callers: the buffer cache and    *)
(* the disk, the console, the keyboard, the clocks, the arguments of       *)
(* system calls.  They are checked one part at a time in one run: part     *)
(* says which one steps, the others rest in an initial state.              *)
(***************************************************************************)
EXTENDS Bio, Console, Keyboard, Rtc, SysArgs

VARIABLE part

Part == {"bio", "console", "keyboard", "rtc", "args"}

DevicesInit ==
  /\ part \in Part
  /\ Init /\ (part # "bio" => \A v \in {disk[b] : b \in Block} \cup {data[1]} : v = 0)
  /\ consoleinit /\ KbdInit
  /\ RtcInit /\ (part # "rtc" => ~bcd /\ clock.sec = 0)
  /\ ArgsInit /\ (part # "args" => ticks = 0)

DevicesNext ==
  /\ IF part = "bio" THEN Next ELSE UNCHANGED vars
  /\ IF part = "console" THEN ConsoleNext ELSE UNCHANGED convars
  /\ IF part = "keyboard" THEN KbdNext ELSE UNCHANGED kvars
  /\ IF part = "rtc" THEN RtcNext ELSE UNCHANGED rvars
  /\ IF part = "args" THEN ArgsNext ELSE UNCHANGED avars
  /\ UNCHANGED part

DevicesSpec ==
  DevicesInit /\ [][DevicesNext]_<<part, vars, convars, kvars, rvars, avars>>

-----------------------------------------------------------------------------
(* Inputs. *)

Key(e0, code) == [e0 |-> e0, code |-> code]

\* Both Shifts, an E0 42 as extended keys send it, both Controls, Caps Lock, the
\* Enter of the keypad, a letter and a digit.
MCKeys == {Key(FALSE, 42), Key(FALSE, 54), Key(TRUE, 42), Key(FALSE, 29), Key(TRUE, 29),
           Key(FALSE, 58), Key(TRUE, 28), Key(FALSE, 30), Key(FALSE, 2)}

MCInts == {-8, -1, 0, 1, 4, 7}
=============================================================================
