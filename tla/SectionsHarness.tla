--------------------------- MODULE SectionsHarness ---------------------------
(***************************************************************************)
(* The main programs that run one kernel per core in the sections of an    *)
(* OpenMP parallel region, beside a section for power measurement: i7-950  *)
(* ("i7"), i3-3217U and E2-1800 ("ivy"), OMAP 4460 ("omap"), Exynos 5250   *)
(* ("exynos"), and jeerandmem.cu of the NVIDIA cards ("cuda").             *)
(*                                                                         *)
(* The sections are handed out in their order to whichever thread of the   *)
(* team comes for the next; the team may have fewer threads than were      *)
(* asked for.  i7 starts one stopwatch before the region and reads it at   *)
(* the end of each kernel; the others read a clock before and after each.  *)
(* The stopwatch reads CLOCK_REALTIME, which may be set while it runs.     *)
(***************************************************************************)
EXTENDS Integers, Sequences

CONSTANTS
  Harnesses,
  Thread,
  MaxTime,     \* bound of the time modelled
  Second,      \* nanoseconds of a second, made small
  Settings     \* what the clock of the system may be set on or back by

None == -100     \* no reading of the clock is as far from another

Parameters ==
  /\ Harnesses \subseteq {"i7", "ivy", "omap", "exynos", "cuda"}
  /\ MaxTime \in Nat /\ Second \in Nat \ {0}
  /\ Settings \subseteq 1 .. -None - 1

VARIABLES
  harness,
  team,       \* threads of the parallel region; empty before it
  next,       \* sections handed out
  job,        \* per thread: its section, and where it is in it
  now,        \* time since the program began
  offset,     \* what CLOCK_REALTIME is ahead of that
  start,      \* per kernel: the clock before; key 0: of the stopwatch
  time,       \* per kernel: execution time, or None
  begun, ended,   \* history, per kernel: when it ran
  report      \* the time performance is computed from

vars == <<harness, team, next, job, now, offset, start, time, begun, ended, report>>

Power == 100     \* the section for power measurement
Stopwatch == 0   \* its key in start

(* The sections in the order of the text; kernels are numbered from 1. *)
Sections ==
  CASE harness = "i7" -> <<Power, 1, 2, 3, 4>>
    [] harness = "ivy" -> <<1, 2, Power>>
    [] harness = "omap" -> <<Power, 1, 2>>
    [] harness = "exynos" -> <<1, 2>>
    [] harness = "cuda" -> <<Power, 1>>

Kernel == {Sections[x] : x \in DOMAIN Sections} \ {Power}

Idle == <<"idle", Power>>

(* clock_gettime *)
Clock == LET n == now + offset IN [tv_sec |-> n \div Second, tv_nsec |-> n % Second]

(* diff, with a second borrowed, and timespec_diff, which needs none *)
diff(s, e) ==
  IF harness # "i7" /\ e.tv_nsec < s.tv_nsec
  THEN (e.tv_sec - s.tv_sec - 1) * Second + (Second + e.tv_nsec - s.tv_nsec)
  ELSE (e.tv_sec - s.tv_sec) * Second + e.tv_nsec - s.tv_nsec

Init ==
  /\ harness \in Harnesses
  /\ team = {}
  /\ next = 0
  /\ job = [t \in Thread |-> Idle]
  /\ now = 0
  /\ offset = 0
  /\ start = [k \in {Stopwatch} \union Kernel |-> Clock]
  /\ time = [k \in Kernel |-> None]
  /\ begun = [k \in Kernel |-> None]
  /\ ended = [k \in Kernel |-> None]
  /\ report = None

(* stopwatch_start, and the parallel region with the team it gets *)
Fork ==
  /\ team = {}
  /\ team' \in (SUBSET Thread) \ {{}}
  /\ start' = [start EXCEPT ![Stopwatch] = Clock]
  /\ UNCHANGED <<harness, next, job, now, offset, time, begun, ended, report>>

(* Any thread may get the next section. *)
Gets(t) == t \in Thread

(* A thread takes the next section; power measurement is left empty.       *)
Take(t) ==
  /\ t \in team /\ job[t] = Idle
  /\ next < Len(Sections) /\ Gets(t)
  /\ next' = next + 1
  /\ job' = [job EXCEPT ![t] = IF Sections[next + 1] = Power THEN Idle
                               ELSE <<"begin", Sections[next + 1]>>]
  /\ UNCHANGED <<harness, team, now, offset, start, time, begun, ended, report>>

(* clock_gettime (CLOCK_MONOTONIC, &time1); i7 has no such line *)
Before(t) ==
  /\ job[t][1] = "begin"
  /\ start' = IF harness = "i7" THEN start ELSE [start EXCEPT ![job[t][2]] = Clock]
  /\ job' = [job EXCEPT ![t][1] = "kernel"]
  /\ UNCHANGED <<harness, team, next, now, offset, time, begun, ended, report>>

(* The kernel begins, and is over when the clock has gone on. *)
Begin(t) ==
  /\ job[t][1] = "kernel"
  /\ begun' = [begun EXCEPT ![job[t][2]] = now]
  /\ job' = [job EXCEPT ![t][1] = "runs"]
  /\ UNCHANGED <<harness, team, next, now, offset, start, time, ended, report>>

End(t) ==
  /\ job[t][1] = "runs" /\ now > begun[job[t][2]]
  /\ ended' = [ended EXCEPT ![job[t][2]] = now]
  /\ job' = [job EXCEPT ![t][1] = "after"]
  /\ UNCHANGED <<harness, team, next, now, offset, start, time, begun, report>>

(* The clock reading an execution time counts from. *)
Since(k) == IF harness = "i7" THEN Stopwatch ELSE k

(* t_0 = stopwatch_elapsed (timer), or time2 and diff (time1, time2) *)
After(t) ==
  /\ job[t][1] = "after"
  /\ time' = [time EXCEPT ![job[t][2]] = diff(start[Since(job[t][2])], Clock)]
  /\ job' = [job EXCEPT ![t] = Idle]
  /\ UNCHANGED <<harness, team, next, now, offset, start, begun, ended, report>>

(* Mutant: nowait. *)
Joined_NoWait == next = Len(Sections) /\ \E t \in team : job[t] = Idle

(* The barrier at the end of the sections. *)
Joined == next = Len(Sections) /\ \A t \in team : job[t] = Idle

(* find_max, and the if that does as much for two *)
Longest == CHOOSE x \in {time[k] : k \in Kernel} : \A k \in Kernel : time[k] <= x

Report ==
  /\ team # {} /\ Joined /\ report = None
  /\ report' = Longest
  /\ UNCHANGED <<harness, team, next, job, now, offset, start, time, begun, ended>>

Tick ==
  /\ now < MaxTime
  /\ now' = now + 1
  /\ UNCHANGED <<harness, team, next, job, offset, start, time, begun, ended, report>>

(* settimeofday, by an administrator or a time daemon *)
SetClock ==
  /\ offset = 0
  /\ harness = "i7"
  /\ offset' \in Settings \union {-x : x \in Settings}
  /\ UNCHANGED <<harness, team, next, job, now, start, time, begun, ended, report>>

Step(t) == Take(t) \/ Before(t) \/ Begin(t) \/ End(t) \/ After(t)

Next ==
  \/ Fork \/ Report \/ Tick \/ SetClock
  \/ \E t \in Thread : Step(t)
  \/ now = MaxTime /\ UNCHANGED vars

Spec ==
  /\ Init /\ [][Next]_vars
  /\ WF_vars(Fork) /\ WF_vars(Report) /\ WF_vars(Tick)
  /\ WF_vars(\E t \in Thread : Step(t))

-----------------------------------------------------------------------------

(* The true time from the first kernel's beginning to the last one's end.  *)
Span ==
  LET first == CHOOSE x \in {begun[k] : k \in Kernel} : \A k \in Kernel : x <= begun[k]
      last == CHOOSE x \in {ended[k] : k \in Kernel} : \A k \in Kernel : ended[k] <= x
  IN  last - first

TypeOK ==
  /\ harness \in Harnesses
  /\ team \subseteq Thread
  /\ next \in 0 .. Len(Sections)
  /\ \A t \in Thread : job[t] = Idle \/
       (job[t][1] \in {"begin", "kernel", "runs", "after"} /\ job[t][2] \in Kernel)
  /\ report \in Int
  /\ now \in 0 .. MaxTime /\ offset \in Int
  /\ \A k \in Kernel : /\ time[k] \in Int
                       /\ {begun[k], ended[k]} \subseteq (0 .. MaxTime) \union {None}

(* Performance is computed when every kernel has run and has its time.     *)
AllMeasured ==
  report # None => \A k \in Kernel : time[k] # None /\ ended[k] # None

(* The time of the i7 covers all kernels, however the sections were dealt  *)
(* out: the data of all of them divided by it never exceeds what the       *)
(* machine has done.                                                       *)
CommonCovers == report # None /\ harness = "i7" => report >= Span

(* A kernel's time covers the kernel, across the change of a second too.   *)
KernelCovered ==
  \A k \in Kernel : time[k] # None => time[k] >= ended[k] - begun[k]

(* Within MaxTime: a kernel that begins at its end has no time left.       *)
TimeIsUp == now = MaxTime /\ \E k \in Kernel : begun[k] = now

=============================================================================
