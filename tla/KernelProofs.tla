---------------------------- MODULE KernelProofs ----------------------------
(***************************************************************************)
(* What four small parts of the kernel promise: the loops of scheduler()   *)
(* pick the process Pick specifies, for every size of the table and every  *)
(* set of priorities; the checks of system call arguments and the ticks of *)
(* sleep(), for every width of the machine word; the counters of the       *)
(* trace, for every number of processes and calls; and a pipe is a bounded *)
(* queue for every PIPESIZE, every width of the counters that PIPESIZE     *)
(* divides, and all sets of writers and readers.                           *)
(***************************************************************************)
EXTENDS PickLoop, SysArgs, SyscallTrace, Pipe, Sequences, TLAPS

-----------------------------------------------------------------------------
(* The choice of scheduler(). *)

\* The body both loops of scheduler() share preserves the loop invariant: the
\* slot it visits comes, round the table from p, after every slot seen.
LEMMA VisitInv ==
  ASSUME PickOK, LoopInv, Up \/ Round
  PROVE  PickOK' /\ LoopInv'
<1> USE NPROCAssumption, PrioritiesAssumption DEF PickOK, Slot, table, Up, Round, Visit
<1>1. PickOK'
  OBVIOUS
<1>2. Seen' = Seen \cup {p1}
  BY DEF Seen, LoopInv
<1>3. \A r \in Seen : r = p1 \/ Before(p, r, p1)
  BY DEF Seen, LoopInv, Before
<1>4. highestp' \in Seen' /\ st'[highestp'] = "RUNNABLE"
  BY Zenon, <1>2 DEF LoopInv
<1>5. ASSUME NEW r \in Seen' \ {highestp'}, st'[r] = "RUNNABLE"
      PROVE  pri'[r] < pri'[highestp'] \/ (pri'[r] = pri'[highestp']
                                           /\ Before(p', highestp', r))
  <2>1. /\ r \in Slot /\ pri[r] \in Nat /\ pri[p1] \in Nat
        /\ pri[highestp] \in Nat
    BY Zenon, <1>2 DEF Seen
  <2>2. CASE r = p1
    BY <2>1, <2>2, <1>3, <1>5 DEF LoopInv
  <2>3. CASE r # p1 /\ r # highestp
    BY <2>1, <2>3, <1>2, <1>5 DEF LoopInv
  <2>4. CASE r # p1 /\ r = highestp
    BY Zenon, <2>1, <2>4, <1>5
  <2>5. QED BY Zenon, <2>2, <2>3, <2>4
<1>6. /\ loop' = "up" => p' <= p1'
      /\ loop' # "up" => p1' <= p'
      /\ loop' # "done"
  BY DEF LoopInv
<1>7. LoopInv'
  BY Zenon, <1>4, <1>5, <1>6 DEF LoopInv
<1>8. QED BY Zenon, <1>1, <1>7

\* The loop invariant is inductive: PickOK and LoopInv hold initially and
\* every step of the loops of scheduler() preserves them.
THEOREM PickLoopInv == PickSpec => [](PickOK /\ LoopInv)
<1> USE NPROCAssumption, PrioritiesAssumption
<1>1. PickInit => PickOK /\ LoopInv
  BY DEF PickInit, PickOK, LoopInv, Slot, States, Seen
<1>2. PickOK /\ LoopInv /\ [PickNext]_pvars => PickOK' /\ LoopInv'
  <2> SUFFICES ASSUME PickOK, LoopInv, [PickNext]_pvars
               PROVE  PickOK' /\ LoopInv'
    OBVIOUS
  <2>1. CASE Up \/ Round
    BY Zenon, <2>1, VisitInv
  <2>2. CASE UpEnd
    BY <2>2 DEF UpEnd, LoopInv, Seen, PickOK, Slot, table
  <2>3. CASE RoundEnd
    BY <2>3 DEF RoundEnd, LoopInv, Seen, PickOK, Slot, table
  <2>4. CASE UNCHANGED pvars
    BY Zenon, <2>4 DEF pvars, LoopInv, Seen, PickOK, Slot, table
  <2>5. QED
    BY Zenon, <2>1, <2>2, <2>3, <2>4 DEF PickNext
<1>3. QED
  BY <1>1, <1>2, PTL DEF PickSpec

\* When the loops of scheduler() end, highestp is the RUNNABLE process of the
\* highest priority, the first one round the table from p among equals.
THEOREM PickCorrect == PickSpec => []PicksHighest
<1> USE NPROCAssumption, PrioritiesAssumption
<1>1. PickOK /\ LoopInv => PicksHighest
  BY DEF PickOK, LoopInv, PicksHighest, IsHighest, Runnable, Seen, Slot
<1>2. QED
  BY <1>1, PickLoopInv, PTL

-----------------------------------------------------------------------------
(* The arguments and sleep. *)

Sleeping == sl.at \in {"asleep", "woken"}

ArgsTypeOK ==
  /\ arg \in [ok : BOOLEAN, addr : Word, len : Int, sz : Word]
  /\ ticks \in Word
  /\ sl \in [at : {"user", "asleep", "woken", "done", "failed"},
             n : {n \in Int : -WordMod <= 2 * n /\ 2 * n < WordMod},
             ticks0 : Word, killed : {0, 1}]
  /\ elapsed \in Nat /\ lag \in Nat

\* While the call lasts the difference of the words is the number of ticks, or less after
\* a wrap, which sleeps of n >= 0 ticks do not live to see.
SleepInv ==
  Sleeping => /\ WSub(ticks, sl.ticks0) <= elapsed
              /\ lag <= MaxLag \/ sl.at = "asleep"
              /\ sl.n >= 0 => /\ WSub(ticks, sl.ticks0) = elapsed
                              /\ elapsed < (IF sl.at = "woken" THEN sl.n + lag ELSE sl.n)

ArgsInv == ArgsTypeOK /\ SleepInv /\ ArgsInside /\ SleepExact

\* What argptr(), fetchint() and fetchstr() accept lies inside the process.
LEMMA ChecksInside ==
  ASSUME NEW sz \in Word, sz <= KERNBASE, NEW addr \in Word
  PROVE  /\ fetchint(addr, sz) => addr + 4 <= sz
         /\ \A size \in Int : 2 * size < WordMod /\ argptr(addr, size, sz) => 0 <= size /\ addr + size <= sz
         /\ \A z \in Word : addr <= z /\ fetchstr(addr, z, sz) => z + 1 <= sz
BY WordAssumption DEF fetchint, argptr, fetchstr, WAdd, UInt, Word

\* The initial states satisfy the invariant.
LEMMA ArgsInitInv == ArgsInit => ArgsInv
BY WordAssumption DEF ArgsInit, ArgsInv, ArgsTypeOK, SleepInv, Sleeping, ArgsInside, SleepExact,
                      NoArg, Word, UInt

\* A step of the loop in sys_sleep(), at the call or after a wakeup.
LEMMA LoopTestInv ==
  ASSUME ArgsInv, NEW s,
         s \in [at : {"user", "woken"}, n : {n \in Int : -WordMod <= 2 * n /\ 2 * n < WordMod},
                ticks0 : Word, killed : {0, 1}],
         NEW e \in Nat, WSub(ticks, s.ticks0) <= e, s.n >= 0 => WSub(ticks, s.ticks0) = e
  PROVE  LET t == LoopTest(s) IN
         /\ t \in [at : {"asleep", "done", "failed"}, n : {n \in Int : -WordMod <= 2 * n /\ 2 * n < WordMod},
                   ticks0 : Word, killed : {0, 1}]
         /\ t.n = s.n /\ t.ticks0 = s.ticks0
         /\ t.at = "done" => e >= UInt(t.n)
         /\ t.at = "asleep" /\ t.n >= 0 => e < t.n
<1>1. ticks \in Word
  BY Zenon DEF ArgsInv, ArgsTypeOK
<1>2. WSub(ticks, s.ticks0) \in Int /\ UInt(s.n) \in Int
  BY <1>1, WordAssumption DEF WSub, UInt, Word
<1>3. LoopTest(s).n = s.n /\ LoopTest(s).ticks0 = s.ticks0 /\ LoopTest(s).killed = s.killed
  BY Zenon DEF LoopTest
<1>4. LoopTest(s).at = IF ~Early(s, ticks) THEN "done" ELSE IF s.killed = 1 THEN "failed" ELSE "asleep"
  BY Zenon DEF LoopTest
<1>5. LoopTest(s) \in [at : {"asleep", "done", "failed"}, n : {n \in Int : -WordMod <= 2 * n /\ 2 * n < WordMod},
                       ticks0 : Word, killed : {0, 1}]
  BY Zenon DEF LoopTest
<1>6. LoopTest(s).at = "done" => e >= UInt(s.n)
  BY <1>2, <1>4 DEF Early
<1>7. LoopTest(s).at = "asleep" /\ s.n >= 0 => e < s.n
  BY <1>2, <1>4 DEF Early, UInt
<1>8. QED
  BY Zenon, <1>3, <1>5, <1>6, <1>7

\* Every step preserves the invariant.
LEMMA ArgsStep == ArgsInv /\ [ArgsNext]_avars => ArgsInv'
<1> SUFFICES ASSUME ArgsInv, [ArgsNext]_avars PROVE ArgsInv'
  OBVIOUS
<1> USE WordAssumption
<1>1. ASSUME NEW sz \in WordValues, sz <= KERNBASE, NEW addr \in WordValues, ArgInt(addr, sz) PROVE ArgsInv'
  <2>1. fetchint(addr, sz) => addr + 4 <= sz
    BY Zenon, <1>1, ChecksInside DEF Word
  <2>2. fetchint(addr, sz) \in BOOLEAN
    BY Zenon DEF fetchint
  <2>3. ArgsInside'
    BY <1>1, <2>1 DEF ArgInt, ArgsInside, Word
  <2>4. ArgsTypeOK' /\ SleepInv' /\ SleepExact'
    BY <1>1, <2>2 DEF ArgInt, ArgsInv, ArgsTypeOK, SleepInv, Sleeping, SleepExact, Word
  <2>5. QED
    BY Zenon, <2>3, <2>4 DEF ArgsInv
<1>2. ASSUME NEW sz \in WordValues, sz <= KERNBASE, NEW addr \in WordValues, NEW size \in IntValues,
             ArgPtr(addr, size, sz)
      PROVE ArgsInv'
  <2>1. argptr(addr, size, sz) => 0 <= size /\ addr + size <= sz
    BY Zenon, <1>2, ChecksInside DEF Word
  <2>2. argptr(addr, size, sz) \in BOOLEAN
    BY Zenon DEF argptr
  <2>3. ArgsInside'
    BY <1>2, <2>1 DEF ArgPtr, ArgsInside, Word
  <2>4. ArgsTypeOK' /\ SleepInv' /\ SleepExact'
    BY Zenon, <1>2, <2>2 DEF ArgPtr, ArgsInv, ArgsTypeOK, SleepInv, Sleeping, SleepExact, Word
  <2>5. QED
    BY Zenon, <2>3, <2>4 DEF ArgsInv
<1>3. ASSUME NEW sz \in WordValues, sz <= KERNBASE, NEW addr \in WordValues, NEW z \in WordValues,
             ArgStr(addr, z, sz)
      PROVE ArgsInv'
  <2>1. fetchstr(addr, z, sz) => z + 1 <= sz
    BY Zenon, <1>3, ChecksInside DEF ArgStr, Word
  <2>2. fetchstr(addr, z, sz) \in BOOLEAN /\ z - addr + 1 \in Int
    BY DEF fetchstr, Word
  <2>3. ArgsInside'
    BY <1>3, <2>1 DEF ArgStr, ArgsInside, Word
  <2>4. ArgsTypeOK' /\ SleepInv' /\ SleepExact'
    BY Zenon, <1>3, <2>2 DEF ArgStr, ArgsInv, ArgsTypeOK, SleepInv, Sleeping, SleepExact, Word
  <2>5. QED
    BY Zenon, <2>3, <2>4 DEF ArgsInv
<1>4. ASSUME NEW n \in IntValues, SleepCall(n) PROVE ArgsInv'
  <2> DEFINE s == [at |-> "user", n |-> n, ticks0 |-> ticks, killed |-> sl.killed]
  <2>1. s \in [at : {"user", "woken"}, n : {i \in Int : -WordMod <= 2 * i /\ 2 * i < WordMod},
               ticks0 : Word, killed : {0, 1}]
    BY Zenon DEF ArgsInv, ArgsTypeOK
  <2>2. WSub(ticks, s.ticks0) = 0
    BY DEF ArgsInv, ArgsTypeOK, WSub, Word
  <2>3. sl' = LoopTest(s) /\ elapsed' = 0 /\ lag' = 0 /\ arg' = arg /\ ticks' = ticks
    BY Zenon, <1>4 DEF SleepCall
  <2>4. /\ sl' \in [at : {"asleep", "done", "failed"}, n : {i \in Int : -WordMod <= 2 * i /\ 2 * i < WordMod},
                    ticks0 : Word, killed : {0, 1}]
        /\ sl'.n = n /\ sl'.ticks0 = ticks
        /\ sl'.at = "done" => 0 >= UInt(sl'.n)
        /\ sl'.at = "asleep" /\ sl'.n >= 0 => 0 < sl'.n
    BY <2>1, <2>2, <2>3, LoopTestInv
  <2>5. ArgsTypeOK' /\ ArgsInside'
    BY Zenon, <2>3, <2>4 DEF ArgsInv, ArgsTypeOK, ArgsInside
  <2>6. SleepInv' /\ SleepExact'
    BY <2>2, <2>3, <2>4 DEF SleepInv, Sleeping, SleepExact
  <2>7. QED
    BY Zenon, <2>5, <2>6 DEF ArgsInv
<1>5. CASE ArgDone
  BY <1>5 DEF ArgDone, NoArg, ArgsInv, ArgsTypeOK, SleepInv, Sleeping, SleepExact, ArgsInside, Word
<1>6. CASE Tick
  <2>1. ticks' \in Word /\ arg' = arg
    BY <1>6 DEF Tick, WAdd, ArgsInv, ArgsTypeOK, Word
  <2>2. /\ sl' \in [at : {"user", "asleep", "woken", "done", "failed"},
                    n : {i \in Int : -WordMod <= 2 * i /\ 2 * i < WordMod}, ticks0 : Word, killed : {0, 1}]
        /\ sl'.n = sl.n /\ sl'.ticks0 = sl.ticks0
        /\ sl'.at = IF sl.at = "asleep" THEN "woken" ELSE sl.at
    BY Zenon, <1>6 DEF Tick, WakeTicks, ArgsInv, ArgsTypeOK
  <2>3. elapsed' \in Nat /\ lag' \in Nat
    BY <1>6 DEF Tick, ArgsInv, ArgsTypeOK
  <2>4. ArgsTypeOK' /\ ArgsInside'
    BY Zenon, <2>1, <2>2, <2>3 DEF ArgsInv, ArgsTypeOK, ArgsInside
  <2>5. ASSUME Sleeping PROVE SleepInv' /\ SleepExact'
    <3>1. elapsed' = elapsed + 1 /\ sl'.at = "woken" /\ lag' <= MaxLag
          /\ lag' = (IF sl.at = "woken" THEN lag + 1 ELSE 1)
      BY <1>6, <2>2, <2>5 DEF Tick, Sleeping, ArgsInv, ArgsTypeOK, SleepInv
    <3>2. WSub(ticks, sl.ticks0) <= elapsed /\ WSub(ticks, sl.ticks0) \in Word
      BY <2>5 DEF ArgsInv, SleepInv, ArgsTypeOK, WSub, Word
    <3>3. WSub(ticks', sl.ticks0) = IF WSub(ticks, sl.ticks0) = WordMod - 1 THEN 0 ELSE WSub(ticks, sl.ticks0) + 1
      BY <1>6 DEF Tick, WAdd, WSub, ArgsInv, ArgsTypeOK, Word
    <3>4. WSub(ticks', sl.ticks0) <= elapsed + 1
      BY <3>2, <3>3 DEF Word, ArgsInv, ArgsTypeOK
    <3>5. ASSUME sl.n >= 0
          PROVE WSub(ticks', sl.ticks0) = elapsed + 1 /\ elapsed + 1 < sl.n + lag'
      <4>1. WSub(ticks, sl.ticks0) = elapsed /\ elapsed < (IF sl.at = "woken" THEN sl.n + lag ELSE sl.n)
        BY Zenon, <2>5, <3>5 DEF ArgsInv, SleepInv
      <4>2. elapsed + 1 < sl.n + lag'
        BY <3>1, <4>1, <2>5 DEF Sleeping, ArgsInv, ArgsTypeOK
      <4>3. elapsed + 1 < WordMod
        BY <3>1, <4>2, <2>3 DEF ArgsInv, ArgsTypeOK
      <4>4. QED
        BY <3>3, <4>1, <4>2, <4>3 DEF ArgsInv, ArgsTypeOK
    <3>6. QED
      BY Zenon, <2>2, <3>1, <3>4, <3>5 DEF SleepInv, Sleeping, SleepExact, ArgsInv, ArgsTypeOK
  <2>6. ASSUME ~Sleeping PROVE SleepInv' /\ SleepExact'
    BY Zenon, <1>6, <2>2, <2>6 DEF Tick, Sleeping, SleepInv, SleepExact, ArgsInv, ArgsTypeOK
  <2>7. QED
    BY Zenon, <2>4, <2>5, <2>6 DEF ArgsInv
<1>7. CASE KillSleeper
  <2>1. /\ sl' \in [at : {"woken"}, n : {i \in Int : -WordMod <= 2 * i /\ 2 * i < WordMod},
                    ticks0 : Word, killed : {0, 1}]
        /\ sl'.n = sl.n /\ sl'.ticks0 = sl.ticks0 /\ Sleeping
    BY Zenon, <1>7 DEF KillSleeper, Sleeping, ArgsInv, ArgsTypeOK
  <2>2. lag' \in Nat /\ lag' = (IF sl.at = "woken" THEN lag ELSE 0) /\ UNCHANGED <<arg, ticks, elapsed>>
    BY Zenon, <1>7 DEF KillSleeper, ArgsInv, ArgsTypeOK
  <2>3. ArgsTypeOK' /\ ArgsInside' /\ SleepExact'
    BY Zenon, <2>1, <2>2 DEF ArgsInv, ArgsTypeOK, ArgsInside, SleepExact
  <2>4. SleepInv'
    BY <2>1, <2>2 DEF ArgsInv, ArgsTypeOK, SleepInv, Sleeping
  <2>5. QED
    BY Zenon, <2>3, <2>4 DEF ArgsInv
<1>8. CASE SleepResume
  <2>1. sl \in [at : {"user", "woken"}, n : {i \in Int : -WordMod <= 2 * i /\ 2 * i < WordMod},
                ticks0 : Word, killed : {0, 1}]
    BY Zenon, <1>8 DEF SleepResume, ArgsInv, ArgsTypeOK
  <2>2. WSub(ticks, sl.ticks0) <= elapsed /\ (sl.n >= 0 => WSub(ticks, sl.ticks0) = elapsed) /\ elapsed \in Nat
    BY Zenon, <1>8 DEF SleepResume, ArgsInv, ArgsTypeOK, SleepInv, Sleeping
  <2>3. sl' = LoopTest(sl) /\ UNCHANGED <<arg, ticks, elapsed, lag>>
    BY Zenon, <1>8 DEF SleepResume
  <2>4. /\ sl' \in [at : {"asleep", "done", "failed"}, n : {i \in Int : -WordMod <= 2 * i /\ 2 * i < WordMod},
                    ticks0 : Word, killed : {0, 1}]
        /\ sl'.n = sl.n /\ sl'.ticks0 = sl.ticks0
        /\ sl'.at = "done" => elapsed >= UInt(sl'.n)
        /\ sl'.at = "asleep" /\ sl'.n >= 0 => elapsed < sl'.n
    BY Zenon, <2>1, <2>2, <2>3, LoopTestInv
  <2>5. ArgsTypeOK' /\ ArgsInside'
    BY Zenon, <2>3, <2>4 DEF ArgsInv, ArgsTypeOK, ArgsInside
  <2>6. SleepInv' /\ SleepExact'
    BY Zenon, <2>2, <2>3, <2>4 DEF SleepInv, Sleeping, SleepExact
  <2>7. QED
    BY Zenon, <2>5, <2>6 DEF ArgsInv
<1>9. CASE SleepReturn
  <2>1. /\ sl' \in [at : {"user"}, n : {i \in Int : -WordMod <= 2 * i /\ 2 * i < WordMod},
                    ticks0 : Word, killed : {0, 1}]
        /\ elapsed' = 0 /\ lag' = 0 /\ UNCHANGED <<arg, ticks>>
    BY <1>9 DEF SleepReturn, ArgsInv, ArgsTypeOK, Word
  <2>2. sl'.at = "user"
    BY Zenon, <2>1
  <2>3. ArgsTypeOK' /\ ArgsInside'
    BY Zenon, <2>1 DEF ArgsInv, ArgsTypeOK, ArgsInside
  <2>4. SleepInv' /\ SleepExact'
    BY Zenon, <2>2 DEF SleepInv, Sleeping, SleepExact
  <2>5. QED
    BY Zenon, <2>3, <2>4 DEF ArgsInv
<1>10. CASE UNCHANGED avars
  BY Zenon, <1>10 DEF avars, ArgsInv, ArgsTypeOK, SleepInv, Sleeping, SleepExact, ArgsInside
<1>11. QED
  BY Zenon, <1>1, <1>2, <1>3, <1>4, <1>5, <1>6, <1>7, <1>8, <1>9, <1>10 DEF ArgsNext

\* For every width of the word, every process size up to KERNBASE and every start of the
\* tick counter: accepted arguments lie inside the process, and sleep(n) returns 0 no
\* earlier than after n ticks and does not sleep through the n-th.
THEOREM ArgsCorrect == ArgsSpec => []ArgsRight
<1>1. ArgsInv => ArgsRight
  BY Zenon DEF ArgsInv, ArgsRight
<1>2. QED
  BY <1>1, ArgsInitInv, ArgsStep, PTL DEF ArgsSpec

-----------------------------------------------------------------------------
(* The counters of the trace. *)

TracePoints == {"user", "add", "trace", "toggle", "flip"}

\* The types of the counters and of the callers' registers.
TraceOK ==
  /\ counter \in [Calls -> Nat] /\ v_toggle \in {0, 1}
  /\ caller \in [Callers -> [at : TracePoints, num : Nat, val : Nat, left : 0..MaxCalls]]
  /\ made \in [Calls \cup {FLAG} -> Nat]
  /\ raced \subseteq Calls \cup {FLAG}

\* What a process has loaded: at most the number of stores made to the word, and, unless
\* two processes met at the word, what is still in it.
LoadInv ==
  \A c \in Callers :
    /\ caller[c].at \in {"add", "trace"} => caller[c].num \in Calls
    /\ caller[c].at = "add" => /\ caller[c].val <= made[caller[c].num]
                               /\ caller[c].num \notin raced => caller[c].val = counter[caller[c].num]
    /\ caller[c].at = "flip" => /\ caller[c].val \in {0, 1}
                                /\ FLAG \notin raced => caller[c].val = v_toggle

\* Two processes between the load and the store of one word have raced.
MeetInv == \A c, q \in Callers : c # q => Loaded(c) \cap Loaded(q) \subseteq raced

TraceInv == TraceOK /\ LoadInv /\ MeetInv /\ CountsExact

\* The invariant holds at boot.
LEMMA TraceInitInv == TraceInit => TraceInv
  BY TraceAssumption DEF TraceInit, TraceInv, TraceOK, LoadInv, MeetInv, CountsExact, Loaded, FLAG, TracePoints

\* A load that finds another process in the word marks it as raced.
LEMMA LoadCounterInv ==
  ASSUME TraceInv, NEW c \in Callers, NEW n \in Calls, LoadCounter(c, n)
  PROVE  TraceInv'
<1> USE TraceAssumption DEF TraceInv
<1>1. TraceOK'
  <2>1. caller' \in [Callers -> [at : TracePoints, num : Nat, val : Nat, left : 0..MaxCalls]]
    BY DEF LoadCounter, TraceOK, TracePoints
  <2>2. raced' \subseteq Calls \cup {FLAG}
    BY Zenon DEF LoadCounter, Race, TraceOK
  <2>3. QED BY Zenon, <2>1, <2>2 DEF LoadCounter, TraceOK
<1>2. raced \subseteq raced' /\ (n \in raced' \/ \A q \in Callers \ {c} : n \notin Loaded(q))
  BY Zenon DEF LoadCounter, Race
<1>3. \A q \in Callers \ {c} : caller'[q] = caller[q]
  BY Zenon DEF LoadCounter, TraceOK
<1>4. caller'[c] = [at |-> "add", num |-> n, val |-> counter[n], left |-> caller[c].left - 1]
  BY Zenon DEF LoadCounter, TraceOK
<1>5. LoadInv'
  BY Zenon, <1>2, <1>3, <1>4 DEF LoadCounter, LoadInv, CountsExact, TraceOK
<1>6. MeetInv'
  BY <1>2, <1>3, <1>4 DEF MeetInv, Loaded
<1>7. CountsExact'
  BY Zenon, <1>2 DEF LoadCounter, CountsExact
<1>8. QED BY Zenon, <1>1, <1>5, <1>6, <1>7

\* A store leaves the words of the others alone, unless they have raced.
LEMMA StoreCounterInv ==
  ASSUME TraceInv, NEW c \in Callers, StoreCounter(c)
  PROVE  TraceInv'
<1> USE TraceAssumption DEF TraceInv
<1>0. caller[c].num \in Calls /\ caller[c].val \in Nat
  BY Zenon DEF StoreCounter, LoadInv, TraceOK
<1>1. TraceOK'
  BY <1>0 DEF StoreCounter, TraceOK, TracePoints, FLAG, Incremented
<1>2. caller'[c] = [caller[c] EXCEPT !.at = "trace"] /\ \A q \in Callers \ {c} : caller'[q] = caller[q]
  BY Zenon DEF StoreCounter, TraceOK
<1>3. \A q \in Callers \ {c} : caller[q].at = "add" /\ caller[q].num = caller[c].num => caller[c].num \in raced
  BY Zenon DEF MeetInv, Loaded, StoreCounter
<1>4. LoadInv'
  BY <1>0, <1>2, <1>3 DEF StoreCounter, LoadInv, TraceOK, Incremented, FLAG
<1>5. MeetInv'
  BY <1>2 DEF MeetInv, Loaded, StoreCounter
<1>6. CountsExact'
  BY <1>0 DEF StoreCounter, CountsExact, TraceOK, LoadInv, Incremented, FLAG
<1>7. QED BY Zenon, <1>1, <1>4, <1>5, <1>6

\* The line of the trace changes nothing that is counted.
LEMMA TraceCallInv ==
  ASSUME TraceInv, NEW c \in Callers, TraceCall(c)
  PROVE  TraceInv'
<1> USE TraceAssumption DEF TraceInv
<1>1. TraceOK'
  <2>1. PICK x \in TracePoints : caller' = [caller EXCEPT ![c].at = x]
    BY Zenon DEF TraceCall, TracePoints
  <2>2. QED BY <2>1 DEF TraceCall, TraceOK
<1>2. /\ caller'[c].at \in {"toggle", "user"}
      /\ \A q \in Callers \ {c} : caller'[q] = caller[q]
  BY Zenon DEF TraceCall, TraceOK
<1>3. LoadInv' /\ MeetInv' /\ CountsExact'
  BY <1>2 DEF TraceCall, LoadInv, MeetInv, Loaded, CountsExact
<1>4. QED BY Zenon, <1>1, <1>3

\* The load of v_toggle.
LEMMA LoadFlagInv ==
  ASSUME TraceInv, NEW c \in Callers, LoadFlag(c)
  PROVE  TraceInv'
<1> USE TraceAssumption DEF TraceInv, FLAG
<1>1. TraceOK'
  <2>0. caller[c] \in [at : TracePoints, num : Nat, val : Nat, left : 0..MaxCalls] /\ v_toggle \in Nat
    BY DEF TraceOK
  <2>1. caller' \in [Callers -> [at : TracePoints, num : Nat, val : Nat, left : 0..MaxCalls]]
    <3>1. [caller[c] EXCEPT !.at = "flip", !.val = v_toggle]
            \in [at : TracePoints, num : Nat, val : Nat, left : 0..MaxCalls]
      BY Zenon, <2>0 DEF TracePoints
    <3>2. caller' = [caller EXCEPT ![c] = [caller[c] EXCEPT !.at = "flip", !.val = v_toggle]]
      BY Zenon DEF LoadFlag, TraceOK
    <3>3. QED BY Zenon, <3>1, <3>2 DEF TraceOK
  <2>2. raced' \subseteq Calls \cup {FLAG}
    BY Zenon DEF LoadFlag, Race, TraceOK
  <2>3. QED BY Zenon, <2>1, <2>2 DEF LoadFlag, TraceOK
<1>2. raced \subseteq raced' /\ (FLAG \in raced' \/ \A q \in Callers \ {c} : FLAG \notin Loaded(q))
  BY Zenon DEF LoadFlag, Race
<1>3. /\ caller'[c].at = "flip" /\ caller'[c].val = v_toggle
      /\ \A q \in Callers \ {c} : caller'[q] = caller[q]
  BY ZenonT(30) DEF LoadFlag, TraceOK
<1>4. LoadInv'
  BY Zenon, <1>2, <1>3 DEF LoadFlag, LoadInv, TraceOK
<1>5. MeetInv'
  BY <1>2, <1>3 DEF MeetInv, Loaded
<1>6. CountsExact'
  BY Zenon, <1>2 DEF LoadFlag, CountsExact
<1>7. QED BY Zenon, <1>1, <1>4, <1>5, <1>6

\* The store of v_toggle.
LEMMA StoreFlagInv ==
  ASSUME TraceInv, NEW c \in Callers, StoreFlag(c)
  PROVE  TraceInv'
<1> USE TraceAssumption DEF TraceInv, FLAG
<1>0. caller[c].val \in {0, 1}
  BY Zenon DEF StoreFlag, LoadInv
<1>1. TraceOK'
  BY <1>0 DEF StoreFlag, TraceOK, TracePoints
<1>2. caller'[c].at = "user" /\ \A q \in Callers \ {c} : caller'[q] = caller[q]
  BY Zenon DEF StoreFlag, TraceOK
<1>3. \A q \in Callers \ {c} : caller[q].at = "flip" => FLAG \in raced
  BY Zenon DEF MeetInv, Loaded, StoreFlag
<1>4. LoadInv'
  BY ZenonT(30), <1>2, <1>3 DEF StoreFlag, LoadInv, TraceOK
<1>5. MeetInv'
  BY <1>2 DEF MeetInv, Loaded, StoreFlag
<1>6. CountsExact'
  BY <1>0 DEF StoreFlag, CountsExact, TraceOK, LoadInv
<1>7. QED BY Zenon, <1>1, <1>4, <1>5, <1>6

\* counter[] of syscall() is never too high, and is exact unless two calls met in their
\* unlocked increments.
THEOREM CountsCorrect == TraceSpec => []CountsExact
<1>1. TraceInv /\ [TraceNext]_tvars => TraceInv'
  <2>1. TraceInv /\ UNCHANGED tvars => TraceInv'
    BY DEF tvars, TraceInv, TraceOK, LoadInv, MeetInv, CountsExact, Loaded
  <2>2. QED BY Zenon, <2>1, LoadCounterInv, StoreCounterInv, TraceCallInv, LoadFlagInv, StoreFlagInv DEF TraceNext
<1>2. TraceInv => CountsExact
  BY Zenon DEF TraceInv
<1>3. QED BY TraceInitInv, <1>1, <1>2, PTL DEF TraceSpec

-----------------------------------------------------------------------------
(* Pipes. *)

\* The bytes in the pipe, as an integer.
Held == IF nwrite >= nread THEN nwrite - nread ELSE nwrite + CtrMod - nread

\* An end is open while some process has not closed it; the one that calls pipeclose is
\* the last of its end.
EndInv ==
  /\ writeopen <=> \E w \in Writer : pc[w] # "closed"
  /\ readopen <=> \E r \in Reader : pc[r] # "closed"
  /\ \A u, q \in Process : pc[u] = "close" /\ u # q /\ (u \in Writer <=> q \in Writer)
                             => pc[q] = "closed"
  /\ freed <=> ~readopen /\ ~writeopen

PipeInv == PipeSafe /\ EndInv /\ Count <= PIPESIZE

-----------------------------------------------------------------------------
(* Arithmetic of the counters *)

\* PIPESIZE and CtrMod are positive, and the first is less than the second.
LEMMA Sizes ==
  PIPESIZE \in Nat /\ PIPESIZE > 0 /\ CtrMod \in Nat /\ CtrMod > PIPESIZE
<1>1. PIPESIZE \in Nat /\ PIPESIZE > 0
  BY PipeAssumption
<1>2. PICK k \in 2..CtrMod : CtrMod = k * PIPESIZE
  BY Zenon, PipeAssumption
<1>3. k \in Int /\ k >= 2
  BY <1>2
<1>4. k * PIPESIZE >= 2 * PIPESIZE /\ k * PIPESIZE \in Int
  BY <1>1, <1>3
<1>5. QED BY <1>1, <1>2, <1>4

\* The sum of two uints wraps at most once.
LEMMA PlusIs ==
  ASSUME NEW m \in 0..CtrMod-1, NEW n \in 0..CtrMod-1
  PROVE  Plus(m, n) = IF m + n < CtrMod THEN m + n ELSE m + n - CtrMod
  BY Sizes DEF Plus

\* The counters are uints.
CtrOK == nread \in 0..CtrMod-1 /\ nwrite \in 0..CtrMod-1

\* What the tests of the loops say of the number of bytes.
CtrFacts ==
  /\ Count = Held /\ Held \in 0..CtrMod-1
  /\ IsFull <=> Count = PIPESIZE
  /\ IsEmpty <=> Count = 0

\* nwrite - nread in the arithmetic of uints.
LEMMA CountIs == CtrOK => CtrFacts
<1> SUFFICES ASSUME CtrOK PROVE CtrFacts
  OBVIOUS
<1>1. Count = Held /\ Held \in 0..CtrMod-1
  BY Sizes DEF Count, Held, CtrOK
<1>2. Plus(nread, PIPESIZE) = IF nread + PIPESIZE < CtrMod THEN nread + PIPESIZE
                              ELSE nread + PIPESIZE - CtrMod
  BY Sizes, PlusIs DEF CtrOK
<1>3. QED BY <1>1, <1>2, Sizes DEF CtrFacts, IsFull, IsEmpty, Held, CtrOK

\* The same of the next state.
LEMMA CountNext == CtrOK' => CtrFacts'
  BY CountIs, PTL

\* A write of k bytes that fit adds k to the number of bytes.
LEMMA CountWrite ==
  ASSUME CtrOK, NEW k \in 0..PIPESIZE-Count, nread' = nread, nwrite' = Plus(nwrite, k)
  PROVE  CtrOK' /\ Count' = Count + k
<1>1. Count = Held /\ Held \in 0..CtrMod-1
  BY Zenon, CountIs DEF CtrFacts
<1>2. nwrite' = IF nwrite + k < CtrMod THEN nwrite + k ELSE nwrite + k - CtrMod
  BY <1>1, Sizes, PlusIs DEF CtrOK
<1>3. CtrOK'
  BY <1>1, <1>2, Sizes DEF CtrOK
<1>4. Count' = Held'
  BY Zenon, <1>3, CountNext DEF CtrFacts
<1>5. QED BY <1>1, <1>2, <1>3, <1>4, Sizes DEF Held, CtrOK

\* A read of k of them takes k away.
LEMMA CountRead ==
  ASSUME CtrOK, NEW k \in 0..Count, nwrite' = nwrite, nread' = Plus(nread, k)
  PROVE  CtrOK' /\ Count' = Count - k
<1>1. Count = Held /\ Held \in 0..CtrMod-1
  BY Zenon, CountIs DEF CtrFacts
<1>2. nread' = IF nread + k < CtrMod THEN nread + k ELSE nread + k - CtrMod
  BY <1>1, Sizes, PlusIs DEF CtrOK
<1>3. CtrOK'
  BY <1>1, <1>2, Sizes DEF CtrOK
<1>4. Count' = Held'
  BY Zenon, <1>3, CountNext DEF CtrFacts
<1>5. QED BY <1>1, <1>2, <1>3, <1>4, Sizes DEF Held, CtrOK

-----------------------------------------------------------------------------
(* The steps *)

Pcs == {"user", "call", "asleep", "close", "closed"}

\* A write stores what fits; the writer that sleeps leaves the pipe full.
LEMMA WriteInv ==
  ASSUME PipeInv, NEW w \in Writer, pipewrite(w)
  PROVE  /\ PipeInv'
         /\ \E k \in 0..PIPESIZE-Count :
              /\ nwrite' = Plus(nwrite, k) /\ Count' = Count + k
              /\ \A x \in (0..PIPESIZE-1) \ Index(nwrite, k) : data'[x] = data[x]
<1> USE DEF PipeInv, PipeSafe
<1>0. /\ pc \in [Process -> Pcs] /\ todo \in [Process -> 0..MaxN] /\ killed \in [Process -> BOOLEAN]
      /\ w \in Process /\ pc[w] = "call" /\ CtrOK /\ Count \in Nat /\ Count <= PIPESIZE
      /\ UNCHANGED <<nread, readopen, writeopen, freed, killed>>
  BY CountIs, Sizes DEF pipewrite, TypeOK, Process, CtrOK, CtrFacts, Pcs
<1> DEFINE k == Least(todo[w], Room)
<1>1. /\ k \in 0..PIPESIZE-Count /\ k \in 0..todo[w] /\ (k < todo[w] => k = PIPESIZE - Count)
      /\ todo[w] \in 0..MaxN /\ MaxN \in Nat
  BY <1>0, Sizes, PipeAssumption DEF Least, Room
<1>2. /\ data' \in [0..PIPESIZE-1 -> Byte] /\ nwrite' = Plus(nwrite, k)
      /\ \A x \in (0..PIPESIZE-1) \ Index(nwrite, k) : data'[x] = data[x]
  BY Zenon DEF pipewrite
<1>3. \/ /\ k = todo[w] /\ pc' = Wakeup([pc EXCEPT ![w] = "user"], Reader)
         /\ todo' = [todo EXCEPT ![w] = 0]
      \/ /\ k < todo[w] /\ (~readopen \/ killed[w])
         /\ pc' = [pc EXCEPT ![w] = "user"] /\ todo' = [todo EXCEPT ![w] = 0]
      \/ /\ k < todo[w] /\ readopen /\ ~killed[w]
         /\ pc' = Wakeup([pc EXCEPT ![w] = "asleep"], Reader)
         /\ todo' = [todo EXCEPT ![w] = @ - k]
  BY Zenon DEF pipewrite, Interrupted, WriteSleepWakeup
<1> HIDE DEF k
<1>4. CtrOK' /\ Count' = Count + k
  BY Zenon, <1>0, <1>1, <1>2, CountWrite
<1>5. CtrFacts /\ CtrFacts'
  BY Zenon, <1>0, <1>4, CountIs, CountNext
<1>6. pc' \in [Process -> Pcs] /\ todo' \in [Process -> 0..MaxN]
  BY <1>0, <1>1, <1>3 DEF Wakeup, Pcs
<1>7. \A q \in Process : /\ pc'[q] \in {"close", "closed"} <=> pc[q] \in {"close", "closed"}
                         /\ pc[q] \in {"close", "closed"} => pc'[q] = pc[q]
                         /\ pc'[q] = "asleep" /\ q # w => pc[q] = "asleep"
  BY Zenon, <1>0, <1>3 DEF Wakeup
<1>8. TypeOK'
  BY Zenon, <1>0, <1>2, <1>4, <1>6 DEF TypeOK, CtrOK, Pcs
<1>9. EndInv'
  BY Zenon, <1>0, <1>7 DEF EndInv, Process
<1>10. WriterAsleep'
  <2> SUFFICES ASSUME NEW v \in Writer, pc'[v] = "asleep"
               PROVE  IsFull' /\ readopen' /\ ~killed'[v]
    BY Zenon DEF WriterAsleep
  <2>1. CASE v = w
    BY <1>0, <1>1, <1>3, <1>4, <1>5, <2>1, Sizes DEF Wakeup, CtrFacts
  <2>2. CASE v # w
    <3>1. pc[v] = "asleep" /\ v \in Process
      BY Zenon, <1>7, <2>2 DEF Process
    <3>2. IsFull /\ readopen /\ ~killed[v]
      BY Zenon, <3>1 DEF WriterAsleep
    <3>3. Count = PIPESIZE /\ k = 0
      BY <1>0, <1>1, <1>5, <3>2, Sizes DEF CtrFacts
    <3>4. QED BY <1>0, <1>4, <1>5, <3>2, <3>3, Sizes DEF CtrFacts
  <2>3. QED BY Zenon, <2>1, <2>2
<1>11. ReaderAsleep'
  <2> SUFFICES ASSUME NEW r \in Reader, pc'[r] = "asleep"
               PROVE  /\ writeopen' /\ ~killed'[r]
                      /\ IsEmpty' \/ \E v \in Writer : killed'[v]
    BY Zenon DEF ReaderAsleep
  <2>1. r \in Process /\ r # w /\ pc[r] = "asleep"
    BY Zenon, <1>7, PipeAssumption DEF Process
  <2>2. readopen /\ pc'[r] = pc[r]
    BY Zenon, <2>1 DEF EndInv
  <2>3. killed[w]
    BY Zenon, <1>0, <1>3, <2>1, <2>2 DEF Wakeup
  <2>4. QED BY Zenon, <1>0, <2>1, <2>3 DEF ReaderAsleep
<1>12. FreedLast'
  BY Zenon, <1>0, <1>7 DEF FreedLast
<1>13. QED BY <1>0, <1>1, <1>2, <1>4, <1>8, <1>9, <1>10, <1>11, <1>12, Sizes

\* A read takes what there is and wakes the writers, or sleeps on an empty pipe.
LEMMA ReadInv ==
  ASSUME PipeInv, NEW r \in Reader, piperead(r)
  PROVE  /\ PipeInv'
         /\ \/ nread' = nread
            \/ \E k \in 0..Count : nread' = Plus(nread, k) /\ Count' = Count - k
<1> USE DEF PipeInv, PipeSafe
<1>0. /\ pc \in [Process -> Pcs] /\ todo \in [Process -> 0..MaxN] /\ killed \in [Process -> BOOLEAN]
      /\ r \in Process /\ r \notin Writer /\ pc[r] = "call" /\ CtrOK /\ Count \in Nat /\ Count <= PIPESIZE
      /\ todo[r] \in 0..MaxN /\ MaxN \in Nat
      /\ UNCHANGED <<data, nwrite, readopen, writeopen, freed, killed>>
  BY CountIs, Sizes, PipeAssumption DEF piperead, TypeOK, Process, CtrOK, CtrFacts, Pcs
<1>1. \/ /\ IsEmpty /\ writeopen /\ ~killed[r] /\ pc' = [pc EXCEPT ![r] = "asleep"]
         /\ UNCHANGED <<nread, todo>>
      \/ /\ pc' = [pc EXCEPT ![r] = "user"] /\ todo' = [todo EXCEPT ![r] = 0]
         /\ UNCHANGED nread
      \/ /\ nread' = Plus(nread, Least(todo[r], Count))
         /\ pc' = Wakeup([pc EXCEPT ![r] = "user"], Writer)
         /\ todo' = [todo EXCEPT ![r] = 0]
  BY Zenon DEF piperead, Interrupted, ReadWakeup
<1>2. /\ CtrOK' /\ Count' \in 0..Count
      /\ \/ nread' = nread /\ Count' = Count
         \/ \E k \in 0..Count : nread' = Plus(nread, k) /\ Count' = Count - k
  <2>1. CASE nread' = nread
    BY <1>0, <2>1 DEF CtrOK, Count
  <2>2. CASE nread' = Plus(nread, Least(todo[r], Count))
    <3>1. Least(todo[r], Count) \in 0..Count
      BY <1>0 DEF Least
    <3>2. CtrOK' /\ Count' = Count - Least(todo[r], Count)
      BY Zenon, <1>0, <2>2, <3>1, CountRead
    <3>3. QED BY <1>0, <2>2, <3>1, <3>2
  <2>3. QED BY Zenon, <1>1, <2>1, <2>2
<1>3. CtrFacts /\ CtrFacts'
  BY Zenon, <1>0, <1>2, CountIs, CountNext
<1>4. pc' \in [Process -> Pcs] /\ todo' \in [Process -> 0..MaxN]
  BY <1>0, <1>1 DEF Wakeup, Pcs
<1>5. \A q \in Process : /\ pc'[q] \in {"close", "closed"} <=> pc[q] \in {"close", "closed"}
                         /\ pc[q] \in {"close", "closed"} => pc'[q] = pc[q]
                         /\ pc'[q] = "asleep" /\ q # r => pc[q] = "asleep"
  BY Zenon, <1>0, <1>1 DEF Wakeup
<1>6. TypeOK'
  BY Zenon, <1>0, <1>2, <1>4 DEF TypeOK, CtrOK, Pcs
<1>7. EndInv'
  BY Zenon, <1>0, <1>5 DEF EndInv, Process
<1>8. WriterAsleep'
  <2> SUFFICES ASSUME NEW v \in Writer, pc'[v] = "asleep"
               PROVE  IsFull' /\ readopen' /\ ~killed'[v]
    BY Zenon DEF WriterAsleep
  <2>1. v \in Process /\ v # r /\ pc[v] = "asleep"
    BY Zenon, <1>0, <1>5 DEF Process
  <2>2. nread' = nread
    BY Zenon, <1>0, <1>1, <2>1 DEF Wakeup
  <2>3. IsFull' = IsFull
    BY Zenon, <1>0, <2>2 DEF IsFull, Plus
  <2>4. QED BY Zenon, <1>0, <2>1, <2>3 DEF WriterAsleep
<1>9. ReaderAsleep'
  <2> SUFFICES ASSUME NEW v \in Reader, pc'[v] = "asleep"
               PROVE  /\ writeopen' /\ ~killed'[v]
                      /\ IsEmpty' \/ \E w \in Writer : killed'[w]
    BY Zenon DEF ReaderAsleep
  <2>0. v \in Process
    BY Zenon DEF Process
  <2>1. CASE v = r
    BY Zenon, <1>0, <1>1, <2>1, PipeAssumption DEF Wakeup, IsEmpty
  <2>2. CASE v # r
    <3>1. pc[v] = "asleep"
      BY Zenon, <1>5, <2>0, <2>2
    <3>2. Count = 0 => Count' = 0
      BY <1>0, <1>2
    <3>3. QED BY Zenon, <1>0, <1>3, <3>1, <3>2 DEF ReaderAsleep, CtrFacts
  <2>3. QED BY Zenon, <2>1, <2>2
<1>10. FreedLast'
  BY Zenon, <1>0, <1>5 DEF FreedLast
<1>11. QED BY <1>0, <1>2, <1>6, <1>7, <1>8, <1>9, <1>10, Sizes

\* A system call starts.
LEMMA CallInv ==
  ASSUME PipeInv, NEW u \in Process, Call(u)
  PROVE  PipeInv'
<1> USE DEF PipeInv, PipeSafe
<1>0. /\ pc \in [Process -> Pcs] /\ todo \in [Process -> 0..MaxN]
      /\ pc[u] = "user" /\ pc' = [pc EXCEPT ![u] = "call"]
      /\ UNCHANGED <<data, nread, nwrite, readopen, writeopen, freed, killed>>
  BY Zenon DEF Call, TypeOK, pipe, Pcs
<1>1. TypeOK'
  <2>1. todo' \in [Process -> 0..MaxN]
    BY Zenon, <1>0 DEF Call
  <2>2. QED BY Zenon, <1>0, <2>1 DEF TypeOK, Pcs
<1>2. EndInv' /\ FreedLast'
  BY Zenon, <1>0 DEF EndInv, FreedLast, Process
<1>3. WriterAsleep' /\ ReaderAsleep'
  BY Zenon, <1>0 DEF WriterAsleep, ReaderAsleep, IsFull, IsEmpty, Plus, Process
<1>4. Count' = Count
  BY Zenon, <1>0 DEF Count
<1>5. QED BY Zenon, <1>1, <1>2, <1>3, <1>4

\* fileclose leaves one process of each end to call pipeclose.
LEMMA FileCloseInv ==
  ASSUME PipeInv, NEW u \in Process, fileclose(u)
  PROVE  PipeInv'
<1> USE DEF PipeInv, PipeSafe
<1> DEFINE end == IF u \in Writer THEN Writer ELSE Reader
           last == \A q \in end \ {u} : pc[q] \in {"close", "closed"}
<1>0. /\ pc \in [Process -> Pcs] /\ pc[u] = "user"
      /\ pc' = [pc EXCEPT ![u] = IF last THEN "close" ELSE "closed"]
      /\ UNCHANGED <<data, nread, nwrite, readopen, writeopen, freed, todo, killed>>
  BY Zenon DEF fileclose, TypeOK, pipe, Pcs
<1>1. last => \A q \in end \ {u} : pc[q] = "closed"
  <2>1. end \subseteq Process /\ (\A q \in end : q \in Writer <=> u \in Writer)
    BY Zenon, PipeAssumption DEF Process
  <2>2. QED BY Zenon, <1>0, <2>1 DEF EndInv
<1>2. TypeOK'
  BY Zenon, <1>0 DEF TypeOK, Pcs
<1>3. EndInv'
  <2>1. u \in end /\ end \subseteq Process
    BY Zenon DEF Process
  <2>2. \A q \in Process : q # u => pc'[q] = pc[q]
    BY Zenon, <1>0
  <2>3. CASE last
    <3>1. pc'[u] = "close"
      BY Zenon, <1>0, <2>3
    <3>2. QED BY <1>0, <1>1, <2>1, <2>2, <2>3, <3>1, PipeAssumption DEF EndInv, Process
  <2>4. CASE ~last
    <3>1. pc'[u] = "closed"
      BY Zenon, <1>0, <2>4
    <3>2. PICK x \in end \ {u} : pc[x] \notin {"close", "closed"}
      BY Zenon, <2>4
    <3>3. QED BY <1>0, <2>1, <2>2, <3>1, <3>2, PipeAssumption DEF EndInv, Process
  <2>5. QED BY Zenon, <2>3, <2>4
<1>4. WriterAsleep' /\ ReaderAsleep'
  BY Zenon, <1>0 DEF WriterAsleep, ReaderAsleep, IsFull, IsEmpty, Plus, Process
<1>5. FreedLast'
  BY Zenon, <1>3 DEF EndInv, FreedLast, Process
<1>6. Count' = Count
  BY Zenon, <1>0 DEF Count
<1>7. QED BY Zenon, <1>2, <1>3, <1>4, <1>5, <1>6

\* pipeclose closes its end, wakes the other one, and frees the page if both are closed.
LEMMA PipeCloseInv ==
  ASSUME PipeInv, NEW u \in Process, pipeclose(u)
  PROVE  PipeInv'
<1> USE DEF PipeInv, PipeSafe
<1>0. /\ pc \in [Process -> Pcs] /\ pc[u] = "close" /\ freed \in BOOLEAN
      /\ writeopen' = (writeopen /\ u \notin Writer) /\ readopen' = (readopen /\ u \notin Reader)
      /\ freed' = (freed \/ (~readopen' /\ ~writeopen'))
      /\ UNCHANGED <<data, nread, nwrite, todo, killed>>
  BY Zenon DEF pipeclose, TypeOK, Unused, Pcs
<1>1. pc' = Wakeup([pc EXCEPT ![u] = "closed"], IF u \in Writer THEN Reader ELSE Writer)
  BY Zenon DEF pipeclose, CloseWakeup
<1>2. /\ pc' \in [Process -> Pcs] /\ pc'[u] = "closed"
      /\ \A q \in Process : /\ q # u => (pc'[q] \in {"close", "closed"} <=> pc[q] \in {"close", "closed"})
                            /\ pc[q] \in {"close", "closed"} /\ q # u => pc'[q] = pc[q]
                            /\ pc'[q] = "asleep" => pc[q] = "asleep"
  BY Zenon, <1>0, <1>1 DEF Wakeup, Pcs
<1>3. TypeOK'
  BY Zenon, <1>0, <1>2 DEF TypeOK, Pcs
<1>4. EndInv'
  <2>1. writeopen' <=> \E w \in Writer : pc'[w] # "closed"
    BY Zenon, <1>0, <1>2, PipeAssumption DEF EndInv, Process
  <2>2. readopen' <=> \E r \in Reader : pc'[r] # "closed"
    BY Zenon, <1>0, <1>2, PipeAssumption DEF EndInv, Process
  <2>3. \A x, y \in Process : pc'[x] = "close" /\ x # y /\ (x \in Writer <=> y \in Writer)
                              => pc'[y] = "closed"
    BY Zenon, <1>0, <1>2 DEF EndInv
  <2>4. freed' <=> ~readopen' /\ ~writeopen'
    BY Zenon, <1>0 DEF EndInv
  <2>5. QED BY Zenon, <2>1, <2>2, <2>3, <2>4 DEF EndInv
<1>5. WriterAsleep'
  <2> SUFFICES ASSUME NEW w \in Writer, pc'[w] = "asleep"
               PROVE  IsFull' /\ readopen' /\ ~killed'[w]
    BY Zenon DEF WriterAsleep
  <2>1. w \in Process /\ pc[w] = "asleep"
    BY Zenon, <1>2 DEF Process
  <2>2. u \in Writer
    BY Zenon, <1>0, <1>1, <1>2, <2>1 DEF Wakeup
  <2>3. QED BY Zenon, <1>0, <2>1, <2>2, PipeAssumption DEF WriterAsleep, IsFull, Plus
<1>6. ReaderAsleep'
  <2> SUFFICES ASSUME NEW r \in Reader, pc'[r] = "asleep"
               PROVE  /\ writeopen' /\ ~killed'[r]
                      /\ IsEmpty' \/ \E w \in Writer : killed'[w]
    BY Zenon DEF ReaderAsleep
  <2>1. r \in Process /\ pc[r] = "asleep"
    BY Zenon, <1>2 DEF Process
  <2>2. u \notin Writer
    BY Zenon, <1>0, <1>1, <1>2, <2>1 DEF Wakeup
  <2>3. QED BY Zenon, <1>0, <2>1, <2>2 DEF ReaderAsleep, IsEmpty
<1>7. FreedLast'
  BY Zenon, <1>4 DEF EndInv, FreedLast, Process
<1>8. Count' = Count
  BY Zenon, <1>0 DEF Count
<1>9. QED BY Zenon, <1>3, <1>4, <1>5, <1>6, <1>7, <1>8

\* kill wakes the process it marks.
LEMMA KillInv ==
  ASSUME PipeInv, NEW u \in Process, Kill(u)
  PROVE  PipeInv'
<1> USE DEF PipeInv, PipeSafe
<1>0. /\ pc \in [Process -> Pcs] /\ killed \in [Process -> BOOLEAN]
      /\ killed' = [killed EXCEPT ![u] = TRUE] /\ pc' = Wakeup(pc, {u})
      /\ UNCHANGED <<data, nread, nwrite, readopen, writeopen, freed, todo>>
  BY Zenon DEF Kill, TypeOK, pipe, Pcs
<1>1. /\ pc' \in [Process -> Pcs] /\ pc'[u] # "asleep"
      /\ \A q \in Process : /\ q # u => pc'[q] = pc[q]
                            /\ pc'[q] \in {"close", "closed"} <=> pc[q] \in {"close", "closed"}
                            /\ pc[q] \in {"close", "closed"} => pc'[q] = pc[q]
  BY Zenon, <1>0 DEF Wakeup, Pcs
<1>2. TypeOK'
  BY Zenon, <1>0, <1>1 DEF TypeOK, Pcs
<1>3. EndInv' /\ FreedLast'
  BY Zenon, <1>0, <1>1 DEF EndInv, FreedLast, Process
<1>4. WriterAsleep' /\ ReaderAsleep'
  BY Zenon, <1>0, <1>1 DEF WriterAsleep, ReaderAsleep, IsFull, IsEmpty, Plus, Process
<1>5. Count' = Count
  BY Zenon, <1>0 DEF Count
<1>6. QED BY Zenon, <1>2, <1>3, <1>4, <1>5

\* A pipe from pipealloc is empty and open at both ends.
LEMMA PipeInitInv == Init => PipeInv
<1> SUFFICES ASSUME Init PROVE PipeInv
  OBVIOUS
<1>1. CtrOK /\ Count = 0
  <2>1. CtrOK
    BY Sizes DEF Init, CtrOK
  <2>2. QED BY Zenon, <2>1, CountIs DEF Init, CtrFacts, IsEmpty
<1>2. TypeOK
  <2>1. 0 \in 0..MaxN
    BY PipeAssumption
  <2>2. todo \in [Process -> 0..MaxN] /\ pc \in [Process -> Pcs] /\ killed \in [Process -> BOOLEAN]
    BY Zenon, <2>1 DEF Init, Pcs
  <2>3. QED BY Zenon, <1>1, <2>2 DEF Init, TypeOK, CtrOK, Pcs
<1>3. EndInv /\ WriterAsleep /\ ReaderAsleep /\ FreedLast
  BY Zenon, PipeAssumption DEF Init, EndInv, WriterAsleep, ReaderAsleep, FreedLast, Process
<1>4. QED BY <1>1, <1>2, <1>3, Sizes DEF PipeInv, PipeSafe

\* Every step of pipewrite, piperead, fileclose, pipeclose and kill keeps the invariant of
\* the pipe.
THEOREM PipeInvHolds == Spec => []PipeInv
<1>1. PipeInv /\ [Next]_vars => PipeInv'
  <2> SUFFICES ASSUME PipeInv, [Next]_vars PROVE PipeInv'
    OBVIOUS
  <2>1. CASE UNCHANGED vars
    BY Zenon, <2>1 DEF vars, pipe, PipeInv, PipeSafe, TypeOK, WriterAsleep, ReaderAsleep, FreedLast,
      EndInv, Count, IsFull, IsEmpty, Plus
  <2>2. CASE Next
    BY Zenon, <2>2, CallInv, WriteInv, ReadInv, FileCloseInv, PipeCloseInv, KillInv DEF Next, Serve
  <2>3. QED BY Zenon, <2>1, <2>2
<1>2. QED BY PipeInitInv, <1>1, PTL DEF Spec

\* Nobody sleeps on a pipe without a reason (pipewrite on a full one, piperead on an empty
\* one), and pipeclose frees it once, after its last user.
THEOREM PipeCorrect == Spec => []PipeSafe
<1>1. PipeInv => PipeSafe
  BY Zenon DEF PipeInv
<1>2. QED BY <1>1, PipeInvHolds, PTL

-----------------------------------------------------------------------------
(* The slots of the ring *)

\* The only multiple of P nearer to 0 than P is 0.
LEMMA MulNear ==
  ASSUME NEW P \in Nat \ {0}, NEW d \in Int, d * P < P, -P < d * P
  PROVE  d = 0
<1>1. CASE d >= 1
  <2>1. d * P >= P
    BY <1>1
  <2>2. QED BY <2>1
<1>2. CASE d <= -1
  <2>1. d * P <= -P
    BY <1>2
  <2>2. QED BY <2>1
<1>3. QED BY <1>1, <1>2

\* Division with a remainder.
LEMMA DivMod ==
  ASSUME NEW P \in Nat \ {0}, NEW x \in Int
  PROVE  x \div P \in Int /\ x % P \in 0..P-1 /\ x = P * (x \div P) + (x % P)
  OBVIOUS

\* The remainder is unique.
LEMMA ModUnique ==
  ASSUME NEW P \in Nat \ {0}, NEW q \in Int, NEW r \in 0..P-1
  PROVE  (q * P + r) % P = r
<1> DEFINE x == q * P + r
           e == x \div P
<1>1. x \in Int /\ e \in Int /\ x % P \in 0..P-1 /\ x = P * e + (x % P)
  BY DivMod
<1>2. (q - e) * P = (x % P) - r /\ q - e \in Int
  BY <1>1
<1> HIDE DEF x, e
<1>3. q - e = 0
  BY <1>1, <1>2, MulNear
<1>4. 0 * P = 0
  OBVIOUS
<1>5. x % P = r
  BY <1>1, <1>2, <1>3, <1>4
<1>6. QED BY Zenon, <1>5 DEF x

\* A multiple of P does not change the slot.
LEMMA ModShift ==
  ASSUME NEW P \in Nat \ {0}, NEW q \in Int, NEW x \in Int
  PROVE  (x + q * P) % P = x % P
<1> DEFINE e == x \div P
           r == x % P
<1>1. e \in Int /\ r \in 0..P-1 /\ x = P * e + r
  BY Zenon, DivMod
<1> HIDE DEF e, r
<1>2. x + q * P = (e + q) * P + r /\ e + q \in Int
  BY <1>1
<1>3. ((e + q) * P + r) % P = r
  BY Zenon, <1>1, <1>2, ModUnique
<1>4. QED BY Zenon, <1>2, <1>3 DEF r

\* P successive counters have P different slots.
LEMMA ModInj ==
  ASSUME NEW P \in Nat \ {0}, NEW x \in Int, NEW a \in 0..P-1, NEW b \in 0..P-1,
         (x + a) % P = (x + b) % P
  PROVE  a = b
<1> DEFINE e == (x + a) \div P
           f == (x + b) \div P
           r == (x + a) % P
<1>1. /\ e \in Int /\ f \in Int /\ r \in 0..P-1
      /\ x + a = P * e + r /\ x + b = P * f + r
  <2>1. x + a \in Int /\ x + b \in Int
    OBVIOUS
  <2>2. e \in Int /\ r \in 0..P-1 /\ x + a = P * e + r
    BY Zenon, <2>1, DivMod
  <2>3. f \in Int /\ x + b = P * f + ((x + b) % P)
    BY Zenon, <2>1, DivMod
  <2>4. QED BY Zenon, <2>2, <2>3
<1> HIDE DEF e, f, r
<1>2. (e - f) * P = a - b /\ e - f \in Int
  BY <1>1
<1>3. e - f = 0
  BY <1>2, MulNear
<1>4. 0 * P = 0
  OBVIOUS
<1>5. QED BY <1>2, <1>3, <1>4

\* The slot of a counter does not change where the counter wraps: PIPESIZE divides CtrMod.
LEMMA SlotWrap ==
  ASSUME NEW x \in Int
  PROVE  (x - CtrMod) % PIPESIZE = x % PIPESIZE
<1>1. PICK k \in 2..CtrMod : CtrMod = k * PIPESIZE
  BY Zenon, PipeAssumption
<1>2. k \in Int /\ -k \in Int /\ PIPESIZE \in Nat \ {0}
  BY <1>1, Sizes
<1>3. x - CtrMod = x + (-k) * PIPESIZE
  BY <1>1, <1>2
<1>4. QED BY ZenonT(30), <1>2, <1>3, ModShift

\* The slot j places after Plus(m, n).
LEMMA SlotPlus ==
  ASSUME NEW m \in 0..CtrMod-1, NEW n \in 0..CtrMod-1, NEW j \in Nat
  PROVE  (Plus(m, n) + j) % PIPESIZE = (m + n + j) % PIPESIZE
<1>1. m + n + j \in Int /\ m \in Int /\ n \in Int /\ CtrMod \in Int
  BY Sizes
<1>2. CASE Plus(m, n) = m + n
  BY Zenon, <1>2
<1>3. CASE Plus(m, n) = m + n - CtrMod
  <2>1. Plus(m, n) + j = (m + n + j) - CtrMod
    BY <1>1, <1>3
  <2>2. QED BY Zenon, <1>1, <2>1, SlotWrap
<1>4. QED BY Zenon, <1>2, <1>3, PlusIs

\* The next free slot comes right after the Count bytes that wait.
LEMMA SlotWrite ==
  ASSUME CtrOK, NEW j \in Nat
  PROVE  (nwrite + j) % PIPESIZE = (nread + Count + j) % PIPESIZE
<1>1. Count = Held /\ Count \in 0..CtrMod-1
  BY Zenon, CountIs DEF CtrFacts
<1>2. nread \in Int /\ nwrite \in Int /\ Count \in Int /\ CtrMod \in Int /\ nread + Count + j \in Int
  BY <1>1, Sizes DEF CtrOK
<1>3. CASE nwrite >= nread
  <2>1. nwrite = nread + Count
    BY <1>1, <1>2, <1>3 DEF Held
  <2>2. QED BY Zenon, <2>1
<1>4. CASE ~(nwrite >= nread)
  <2>1. nwrite + j = (nread + Count + j) - CtrMod
    BY <1>1, <1>2, <1>4 DEF Held
  <2>2. QED BY Zenon, <1>2, <2>1, SlotWrap
<1>5. QED BY Zenon, <1>3, <1>4

-----------------------------------------------------------------------------
(* The content as a queue *)

\* The content is a sequence of Count bytes.
LEMMA ContentSeq ==
  ASSUME PipeInv
  PROVE  /\ Count \in 0..PIPESIZE /\ CtrOK
         /\ Content \in Seq(Byte) /\ Len(Content) = Count
<1>1. CtrOK /\ Count \in Nat /\ Count <= PIPESIZE /\ data \in [0..PIPESIZE-1 -> Byte]
  BY CountIs, Sizes DEF PipeInv, PipeSafe, TypeOK, CtrOK, CtrFacts
<1>2. ASSUME NEW i \in 1..Count
      PROVE  (nread + i - 1) % PIPESIZE \in 0..PIPESIZE-1
  BY <1>1, Sizes DEF CtrOK
<1>3. Content \in [1..Count -> Byte]
  BY Zenon, <1>1, <1>2 DEF Content
<1>4. QED BY <1>1, <1>3, Sizes

\* Two sequences with the same elements are the same.
LEMMA SameSeq ==
  ASSUME NEW a \in Seq(Byte), NEW b \in Seq(Byte), Len(a) = Len(b),
         \A i \in 1..Len(a) : a[i] = b[i]
  PROVE  a = b
  OBVIOUS

\* The bytes of a concatenation, one by one.
LEMMA Concat ==
  ASSUME NEW a \in Seq(Byte), NEW b \in Seq(Byte)
  PROVE  /\ a \o b \in Seq(Byte) /\ Len(a \o b) = Len(a) + Len(b)
         /\ \A i \in 1..Len(a) : (a \o b)[i] = a[i]
         /\ \A i \in 1..Len(b) : (a \o b)[Len(a) + i] = b[i]
<1>1. a \o b \in Seq(Byte) /\ Len(a \o b) = Len(a) + Len(b) /\ Len(a) \in Nat /\ Len(b) \in Nat
  OBVIOUS
<1>2. ASSUME NEW i \in 1..Len(a) PROVE (a \o b)[i] = a[i]
  BY <1>1
<1>3. ASSUME NEW i \in 1..Len(b) PROVE (a \o b)[Len(a) + i] = b[i]
  <2>1. Len(a) + i \in 1..(Len(a) + Len(b)) /\ ~(Len(a) + i <= Len(a)) /\ (Len(a) + i) - Len(a) = i
    BY <1>1
  <2>2. QED BY <1>1, <2>1
<1>4. QED BY Zenon, <1>1, <1>2, <1>3

\* pipewrite appends: it overwrites no byte that has not been read.
LEMMA ContentWrite ==
  ASSUME PipeInv, PipeInv', NEW k \in 0..PIPESIZE-Count,
         nread' = nread, nwrite' = Plus(nwrite, k), Count' = Count + k,
         \A x \in (0..PIPESIZE-1) \ Index(nwrite, k) : data'[x] = data[x]
  PROVE  \E s \in [1..k -> Byte] : Content' = Content \o s
<1>0. /\ Count \in 0..PIPESIZE /\ CtrOK /\ nread \in Int /\ k \in Nat
      /\ Content \in Seq(Byte) /\ Len(Content) = Count
      /\ data' \in [0..PIPESIZE-1 -> Byte] /\ PIPESIZE \in Nat \ {0}
  BY ContentSeq, Sizes DEF CtrOK, PipeInv, PipeSafe, TypeOK
<1> DEFINE s == [i \in 1..k |-> data'[(nwrite + i - 1) % PIPESIZE]]
<1>1. s \in [1..k -> Byte] /\ s \in Seq(Byte) /\ Len(s) = k
  <2>1. ASSUME NEW i \in 1..k
        PROVE  (nwrite + i - 1) % PIPESIZE \in 0..PIPESIZE-1
    BY <1>0, Sizes DEF CtrOK
  <2>2. s \in [1..k -> Byte]
    BY Zenon, <1>0, <2>1
  <2>3. QED BY <1>0, <2>2
<1>2. Content' = [i \in 1..(Count + k) |-> data'[(nread + i - 1) % PIPESIZE]]
  BY Zenon DEF Content
<1>3. ASSUME NEW i \in 1..Count
      PROVE  data'[(nread + i - 1) % PIPESIZE] = Content[i]
  <2>1. i - 1 \in 0..PIPESIZE-1 /\ nread + i - 1 = nread + (i - 1)
    BY <1>0
  <2>2. (nread + (i - 1)) % PIPESIZE \in 0..PIPESIZE-1
    BY <1>0, <2>1
  <2>3. ASSUME NEW j \in 0..k-1, (nread + (i - 1)) % PIPESIZE = (nwrite + j) % PIPESIZE
        PROVE  FALSE
    <3>1. Count + j \in 0..PIPESIZE-1 /\ nread + Count + j = nread + (Count + j) /\ j \in Nat
      BY <1>0
    <3>2. (nread + (i - 1)) % PIPESIZE = (nread + (Count + j)) % PIPESIZE
      BY Zenon, <1>0, <2>3, <3>1, SlotWrite
    <3>3. i - 1 = Count + j
      BY Zenon, <1>0, <2>1, <3>1, <3>2, ModInj
    <3>4. QED BY <1>0, <3>3
  <2>4. (nread + (i - 1)) % PIPESIZE \notin Index(nwrite, k)
    BY Zenon, <2>3 DEF Index
  <2>5. QED BY Zenon, <2>1, <2>2, <2>4 DEF Content
<1>4. ASSUME NEW i \in 1..k
      PROVE  data'[(nread + (Count + i) - 1) % PIPESIZE] = s[i]
  <2>1. i - 1 \in Nat /\ nread + (Count + i) - 1 = nread + Count + (i - 1)
    BY <1>0
  <2>2. nwrite + i - 1 = nwrite + (i - 1)
    BY Zenon, <1>0 DEF CtrOK
  <2>3. (nwrite + (i - 1)) % PIPESIZE = (nread + Count + (i - 1)) % PIPESIZE
    BY Zenon, <1>0, <2>1, SlotWrite
  <2>4. QED BY Zenon, <2>1, <2>2, <2>3
<1> HIDE DEF s
<1>5. /\ Content \o s \in Seq(Byte) /\ Len(Content \o s) = Count + k
      /\ \A i \in 1..Count : (Content \o s)[i] = Content[i]
      /\ \A i \in 1..k : (Content \o s)[Count + i] = s[i]
  BY Zenon, <1>0, <1>1, Concat
<1>6. Content' \in Seq(Byte) /\ Len(Content') = Count + k
  <2>1. ASSUME NEW i \in 1..(Count + k)
        PROVE  (nread + i - 1) % PIPESIZE \in 0..PIPESIZE-1
    BY <1>0
  <2>2. Content' \in [1..(Count + k) -> Byte] /\ Count + k \in Nat
    BY <1>0, <1>2, <2>1
  <2>3. QED BY <2>2
<1>7. ASSUME NEW i \in 1..(Count + k)
      PROVE  Content'[i] = (Content \o s)[i]
  <2>1. Content'[i] = data'[(nread + i - 1) % PIPESIZE]
    BY Zenon, <1>2
  <2>2. CASE i <= Count
    BY <1>0, <1>3, <1>5, <2>1, <2>2
  <2>3. CASE ~(i <= Count)
    <3>1. i - Count \in 1..k /\ Count + (i - Count) = i
      BY <1>0, <2>3
    <3>2. PICK j \in 1..k : i = Count + j
      BY Zenon, <3>1
    <3>3. QED BY Zenon, <1>4, <1>5, <2>1, <3>2
  <2>4. QED BY Zenon, <2>2, <2>3
<1>8. Content' = Content \o s
  BY Zenon, <1>5, <1>6, <1>7, SameSeq
<1>9. QED BY Zenon, <1>1, <1>8

\* piperead removes bytes at the front.
LEMMA ContentRead ==
  ASSUME PipeInv, NEW k \in 0..Count, nwrite' = nwrite, data' = data,
         nread' = Plus(nread, k), Count' = Count - k
  PROVE  Content' = SubSeq(Content, k + 1, Len(Content))
<1>0. /\ Count \in 0..PIPESIZE /\ CtrOK /\ nread \in Int /\ k \in Nat /\ k \in 0..CtrMod-1
      /\ Content \in Seq(Byte) /\ Len(Content) = Count
  BY ContentSeq, Sizes DEF CtrOK
<1>1. Content' = [i \in 1..(Count - k) |-> data[(Plus(nread, k) + i - 1) % PIPESIZE]]
  BY Zenon DEF Content
<1>2. ASSUME NEW i \in 1..(Count - k)
      PROVE  data[(Plus(nread, k) + i - 1) % PIPESIZE] = Content[k + i]
  <2>1. k + i \in 1..Count /\ i - 1 \in Nat /\ Plus(nread, k) \in Int
    BY <1>0, Sizes, PlusIs DEF CtrOK
  <2>2. /\ Plus(nread, k) + i - 1 = Plus(nread, k) + (i - 1)
        /\ nread + (k + i) - 1 = nread + k + (i - 1)
    BY <1>0, <2>1
  <2>3. (Plus(nread, k) + (i - 1)) % PIPESIZE = (nread + k + (i - 1)) % PIPESIZE
    BY Zenon, <1>0, <2>1, SlotPlus DEF CtrOK
  <2>4. QED BY Zenon, <2>1, <2>2, <2>3 DEF Content
<1>3. SubSeq(Content, k + 1, Len(Content)) = [i \in 1..(Count - k) |-> Content[k + i]]
  BY <1>0
<1>4. QED BY Zenon, <1>1, <1>2, <1>3

\* The pipe implements the bounded queue of Fifo: what pipewrite stores comes out of
\* piperead once and in order, also when nread and nwrite wrap.
THEOREM PipeRefines == Spec => FifoSpec
<1>1. Init => Queue!Init
  <2> SUFFICES ASSUME Init PROVE Queue!Init
    OBVIOUS
  <2>1. Content \in Seq(Byte) /\ Len(Content) = 0
    BY Zenon, PipeInitInv, ContentSeq, CountIs DEF Init, CtrFacts, IsEmpty
  <2>2. QED BY <2>1 DEF Init, Queue!Init
<1>2. PipeInv /\ PipeInv' /\ [Next]_vars => [Queue!Next]_(Queue!vars)
  <2> SUFFICES ASSUME PipeInv, PipeInv', [Next]_vars PROVE [Queue!Next]_(Queue!vars)
    OBVIOUS
  <2> USE DEF Queue!Next, Queue!vars
  <2>0. Count \in 0..PIPESIZE /\ Content \in Seq(Byte) /\ Len(Content) = Count
    BY Zenon, ContentSeq
  <2>1. ASSUME UNCHANGED <<data, nread, nwrite, readopen, writeopen>>
        PROVE  UNCHANGED Queue!vars
    BY Zenon, <2>1 DEF Content, Count
  <2>2. ASSUME NEW w \in Writer, pipewrite(w)
        PROVE  [Queue!Next]_(Queue!vars)
    <3>1. PICK k \in 0..PIPESIZE-Count :
            /\ nwrite' = Plus(nwrite, k) /\ Count' = Count + k
            /\ \A x \in (0..PIPESIZE-1) \ Index(nwrite, k) : data'[x] = data[x]
      BY Zenon, <2>2, WriteInv
    <3>2. UNCHANGED <<nread, readopen, writeopen>> /\ pc[w] = "call"
      BY Zenon, <2>2 DEF pipewrite
    <3>3. writeopen
      BY Zenon, <3>2 DEF PipeInv, EndInv
    <3>4. PICK s \in [1..k -> Byte] : Content' = Content \o s
      BY Zenon, <3>1, <3>2, ContentWrite
    <3>5. CASE k = 0
      <4>1. s = <<>>
        BY <3>5
      <4>2. Content' = Content
        BY <2>0, <3>4, <4>1
      <4>3. QED BY Zenon, <3>2, <4>2
    <3>6. CASE k # 0
      <4>1. k \in 1..PIPESIZE-Len(Content)
        BY <2>0, <3>6
      <4>2. QED BY Zenon, <3>2, <3>3, <3>4, <4>1 DEF Queue!Write
    <3>7. QED BY Zenon, <3>5, <3>6
  <2>3. ASSUME NEW r \in Reader, piperead(r)
        PROVE  [Queue!Next]_(Queue!vars)
    <3>1. UNCHANGED <<data, nwrite, readopen, writeopen>> /\ pc[r] = "call"
      BY Zenon, <2>3 DEF piperead
    <3>2. readopen
      BY Zenon, <3>1 DEF PipeInv, EndInv
    <3>3. CASE nread' = nread
      BY Zenon, <2>1, <3>1, <3>3
    <3>4. ASSUME NEW k \in 0..Count, nread' = Plus(nread, k), Count' = Count - k, nread' # nread
          PROVE  Queue!Read
      <4>1. Content' = SubSeq(Content, k + 1, Len(Content))
        BY Zenon, <3>1, <3>4, ContentRead
      <4>2. k # 0
        BY <3>4, ContentSeq, PlusIs, Sizes DEF CtrOK
      <4>3. k \in 1..Len(Content)
        BY <2>0, <4>2
      <4>4. QED BY Zenon, <3>1, <3>2, <4>1, <4>3 DEF Queue!Read
    <3>5. QED BY Zenon, <2>3, <3>3, <3>4, ReadInv
  <2>4. ASSUME NEW u \in Process, pipeclose(u)
        PROVE  [Queue!Next]_(Queue!vars)
    <3>1. /\ UNCHANGED <<data, nread, nwrite>> /\ pc[u] = "close"
          /\ writeopen' = (writeopen /\ u \notin Writer) /\ readopen' = (readopen /\ u \notin Reader)
      BY Zenon, <2>4 DEF pipeclose
    <3>2. Content' = Content
      BY Zenon, <3>1 DEF Content, Count
    <3>3. CASE u \in Writer
      <4>1. writeopen /\ ~writeopen' /\ readopen' = readopen
        BY Zenon, <3>1, <3>3, PipeAssumption DEF PipeInv, PipeSafe, TypeOK, EndInv
      <4>2. QED BY Zenon, <3>1, <3>2, <4>1 DEF Queue!CloseWrite
    <3>4. CASE u \in Reader
      <4>1. readopen /\ ~readopen' /\ writeopen' = writeopen
        BY Zenon, <3>1, <3>4, PipeAssumption DEF PipeInv, PipeSafe, TypeOK, EndInv
      <4>2. QED BY Zenon, <3>1, <3>2, <4>1 DEF Queue!CloseRead
    <3>5. QED BY Zenon, <3>3, <3>4 DEF Process
  <2>5. ASSUME NEW u \in Process, Call(u) \/ fileclose(u) \/ Kill(u)
        PROVE  [Queue!Next]_(Queue!vars)
    BY Zenon, <2>1, <2>5 DEF Call, fileclose, Kill, pipe
  <2>6. CASE UNCHANGED vars
    BY Zenon, <2>1, <2>6 DEF vars, pipe
  <2>7. QED BY Zenon, <2>2, <2>3, <2>4, <2>5, <2>6 DEF Next, Serve
<1>3. QED BY <1>1, <1>2, PipeInvHolds, PTL DEF Spec, FifoSpec, Queue!Spec
=============================================================================
