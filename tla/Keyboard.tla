------------------------------ MODULE Keyboard ------------------------------
(***************************************************************************)
(* The keyboard driver (kbd.c): scan codes to characters.  A key press or  *)
(* release puts one or two bytes on the wire; kbdgetc() takes them one by  *)
(* one and keeps what it must remember in `shift' between calls.           *)
(***************************************************************************)
EXTENDS Naturals, Sequences, FiniteSets

CONSTANTS
  Keys,       \* the keys: [e0 |-> sent with an E0 prefix, code |-> scan code]
  MaxHeld,    \* bound: keys held down at once
  MaxWire     \* bound: bytes waiting on the wire when a key moves

VARIABLES shift, wire,
          held,    \* the keys that are down
          last,    \* the modifiers whose last key event was a press; with the toggles
          typed,   \* the key whose press was the last event, or <<>>
          out      \* what the last kbdgetc() returned

kvars == <<shift, wire, held, last, typed, out>>

NO == "NO"
Modifiers == {"SHIFT", "CTL", "ALT"}
E0 == 224

shiftcode(d) == CASE d \in {29, 157} -> {"CTL"} [] d \in {42, 54} -> {"SHIFT"}
                  [] d \in {56, 184} -> {"ALT"} [] OTHER -> {}
togglecode(d) == CASE d = 58 -> {"CAPSLOCK"} [] d = 69 -> {"NUMLOCK"}
                   [] d = 70 -> {"SCROLLLOCK"} [] OTHER -> {}

\* The three maps for the letter A, the digit 1, Enter and the keypad's Enter.
charcode(m, d) ==
  LET row == CASE d = 30 -> <<"a", "A", "C-A">> [] d = 2 -> <<"1", "!", NO>>
               [] d = 28 \/ d = 156 -> <<"\n", "\n", "\r">> [] OTHER -> <<NO, NO, NO>>
  IN row[CASE "CTL" \in m -> 3 [] m = {"SHIFT"} -> 2 [] OTHER -> 1]

Toggled(s, t) == (s \ t) \cup (t \ s)
Capital(c) == CASE c = "a" -> "A" [] c = "A" -> "a" [] OTHER -> c

KbdInit ==
  /\ shift = {} /\ wire = <<>> /\ held = {} /\ last = {} /\ typed = <<>> /\ out = NO

Prefix(k) == IF k.e0 THEN <<E0>> ELSE <<>>
Full(k) == k.code + (IF k.e0 THEN 128 ELSE 0)

\* A key goes down, or repeats while it is held.
Press(k) ==
  /\ Len(wire) <= MaxWire
  /\ held' = held \cup {k} /\ Cardinality(held') <= MaxHeld
  /\ wire' = wire \o Prefix(k) \o <<k.code>>
  /\ last' = Toggled(last \cup shiftcode(Full(k)), togglecode(Full(k)))
  /\ typed' = <<k>>
  /\ UNCHANGED <<shift, out>>

LiftKey(k) ==
  /\ Len(wire) <= MaxWire
  /\ k \in held /\ held' = held \ {k}
  /\ wire' = wire \o Prefix(k) \o <<k.code + 128>>
  /\ last' = last \ shiftcode(Full(k))
  /\ typed' = <<>>
  /\ UNCHANGED <<shift, out>>

\* The code a release byte stands for; a version that forgets the E0 prefix.
Released_plain(data) == data - 128
Released(data) == IF "E0ESC" \in shift THEN data ELSE data - 128

\* The character of a code.
CharOf(s, d) ==
  LET c == charcode(s \cap {"CTL", "SHIFT"}, d) IN IF "CAPSLOCK" \in s THEN Capital(c) ELSE c

kbdgetc ==
  /\ wire # <<>>
  /\ wire' = Tail(wire)
  /\ LET data == Head(wire) IN
     \/ data = E0 /\ shift' = shift \cup {"E0ESC"} /\ out' = NO
     \/ /\ data # E0 /\ data >= 128
        /\ shift' = shift \ (shiftcode(Released(data)) \cup {"E0ESC"}) /\ out' = NO
     \/ /\ data < 128
        /\ LET d == data + (IF "E0ESC" \in shift THEN 128 ELSE 0)
               s == Toggled((shift \ {"E0ESC"}) \cup shiftcode(d), togglecode(d))
           IN shift' = s /\ out' = CharOf(s, d)
  /\ UNCHANGED <<held, last, typed>>

KbdNext == kbdgetc \/ \E k \in Keys : Press(k) \/ LiftKey(k)

-----------------------------------------------------------------------------
\* Once the wire is empty a modifier is on exactly when the last event of one of its
\* keys was a press, and each lock has flipped with every press of its key; no prefix
\* is remembered, and no modifier is on without one of its keys being down.
ModifiersExact ==
  wire = <<>> =>
    /\ shift = last
    /\ \A m \in shift \cap Modifiers : \E k \in held : m \in shiftcode(Full(k))

\* A press of a letter comes out in the case that Shift and Caps Lock give together,
\* or as its control code; a digit ignores Caps Lock.
KeyMeaning ==
  wire = <<>> /\ typed # <<>> =>
    LET big == ("SHIFT" \in last) # ("CAPSLOCK" \in last) IN
    CASE "CTL" \in last /\ Full(typed[1]) = 30 -> out = "C-A"
      [] "CTL" \notin last /\ Full(typed[1]) = 30 -> out = (IF big THEN "A" ELSE "a")
      [] "CTL" \notin last /\ Full(typed[1]) = 2 -> out = (IF "SHIFT" \in last THEN "!" ELSE "1")
      [] OTHER -> TRUE

\* Once the wire is empty kbdgetc's state is that of the keys: its modifiers are those
\* held, and the last character is the one the keys mean.
KeysExact == ModifiersExact /\ KeyMeaning
=============================================================================
