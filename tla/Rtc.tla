--------------------------------- MODULE Rtc --------------------------------
(***************************************************************************)
(* Reading the CMOS clock (lapic.c, cmostime): the clock changes its       *)
(* registers one by one while the driver reads them one by one.  Seconds   *)
(* and minutes stand for the six fields.                                   *)
(***************************************************************************)
EXTENDS Naturals, Sequences

CONSTANTS
  SECS,        \* seconds in a minute
  FirstMin,    \* the minute at which the call starts
  MaxSeconds   \* bound: seconds during a call, less than a minute

VARIABLES
  reg,         \* the registers [sec, min], encoded
  clock,       \* the time they stand for
  uip,         \* update in progress: the fields still to be written
  bcd,         \* whether the registers are BCD
  cmos,        \* cmostime(): [at, t1, t2]
  shown        \* the times the clock has shown during the call, in order

rvars == <<reg, clock, uip, bcd, cmos, shown>>

Fields == <<"sec", "min">>
Encode(x) == IF bcd THEN (x \div 10) * 16 + (x % 10) ELSE x
CONV(x) == (x \div 16) * 10 + (x % 16)

RtcInit ==
  /\ bcd \in BOOLEAN
  /\ clock \in [sec : 0..SECS-1, min : {FirstMin}]
  /\ reg = [f \in {"sec", "min"} |-> Encode(clock[f])]
  /\ uip = <<>> /\ shown = <<clock>>
  /\ cmos = [at |-> "t1", n |-> 1, t1 |-> [sec |-> 0, min |-> 0], t2 |-> [sec |-> 0, min |-> 0]]

\* The hardware announces an update, writes the registers, and is done with it.
BeginUpdate ==
  /\ uip = <<>> /\ cmos.at # "done" /\ Len(shown) <= MaxSeconds
  /\ uip' = <<"announced">> \o Fields
  /\ clock' = [sec |-> (clock.sec + 1) % SECS, min |-> clock.min + (clock.sec + 1) \div SECS]
  /\ UNCHANGED <<reg, bcd, cmos, shown>>
WriteRegister ==
  /\ uip # <<>>
  /\ reg' = IF Head(uip) = "announced" THEN reg ELSE [reg EXCEPT ![Head(uip)] = Encode(clock[Head(uip)])]
  /\ shown' = IF Len(uip) = 1 THEN Append(shown, clock) ELSE shown
  /\ uip' = Tail(uip)
  /\ UNCHANGED <<clock, bcd, cmos>>

\* The next register of the copy that fill_rtcdate() is filling.
fill_rtcdate(t) ==
  /\ cmos.at = t /\ cmos.n <= Len(Fields)
  /\ cmos' = [cmos EXCEPT ![t][Fields[cmos.n]] = reg[Fields[cmos.n]], !.n = @ + 1]
  /\ UNCHANGED <<reg, clock, uip, bcd, shown>>

CheckUIP ==
  /\ cmos.at = "t1" /\ cmos.n > Len(Fields)
  /\ cmos' = [cmos EXCEPT !.at = IF uip # <<>> THEN "t1" ELSE "t2", !.n = 1]
  /\ UNCHANGED <<reg, clock, uip, bcd, shown>>

\* Do the copies agree?  A version that compares the seconds alone.
Same_sec == cmos.t1.sec = cmos.t2.sec
Same == cmos.t1 = cmos.t2

cmostime ==
  /\ cmos.at = "t2" /\ cmos.n > Len(Fields)
  /\ cmos' = IF ~Same THEN [cmos EXCEPT !.at = "t1", !.n = 1]
             ELSE [cmos EXCEPT !.at = "done",
                               !.t1 = IF bcd THEN [f \in {"sec", "min"} |-> CONV(@[f])] ELSE @]
  /\ UNCHANGED <<reg, clock, uip, bcd, shown>>

RtcNext == BeginUpdate \/ WriteRegister \/ CheckUIP \/ cmostime \/ \E t \in {"t1", "t2"} : fill_rtcdate(t)

-----------------------------------------------------------------------------
\* The time returned is one that the clock showed during the call, never a mixture of two:
\* a copy torn by an update is seen through by the second one.
TimeShown ==
  cmos.at = "done" => cmos.t1 = clock \/ \E k \in DOMAIN shown : cmos.t1 = shown[k]
=============================================================================
