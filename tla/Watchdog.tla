------------------------------ MODULE Watchdog ------------------------------
(***************************************************************************)
(* main.InferenceWatchdog under main.consume_chunks: the worker hands each   *)
(* decode to a pool of one thread and stops waiting for it after `Ceiling`   *)
(* ticks.  A decode cannot be cancelled: given up, it runs on, and the next  *)
(* one stands behind it.                                                    *)
(*                                                                         *)
(* The pool runs the decodes in the order of submission, so it is described  *)
(* on the thread's own clock, which stands still while it has nothing to do: *)
(* decode n ends at ends[n].  `timeout_s <= 0` is a plain call, not modelled.*)
(***************************************************************************)
EXTENDS Integers, Sequences

CONSTANTS
    Ceiling,    \* timeout_s, in ticks
    Longest,    \* bound: ticks a decode takes
    MaxChunks   \* bound: utterances decoded

ASSUME CeilingAssumption == Ceiling \in Nat \ {0}
ASSUME LimitsAssumption == Longest \in Nat /\ MaxChunks \in Nat

VARIABLES
    ends,       \* when each decode submitted so far ends, on the thread's clock
    worked,     \* the thread's clock
    landed,     \* decodes that have ended: the first `landed`
    wpc,        \* where the worker is
    waited,     \* ticks it has been in future.result()
    givenUp,    \* the decodes it gave up
    listening,  \* futures with the callback of `transcribe`
    log,        \* history: the decodes _log_late has reported
    over,       \* history: by how much given up decodes exceeded the ceiling
    late        \* history: the exit has waited for a decode given up

vars == <<ends, worked, landed, wpc, waited, givenUp, listening, log, over, late>>

(*   get     between two utterances      wait    in future.result()          *)
(*   giveup  FutureTimeout was raised     closed  the watchdog is closed      *)
WorkerPC == {"get", "wait", "giveup", "closed", "exited"}

made == Len(ends)
Submitted == IF made = 0 THEN 0 ELSE ends[made]
Need(n) == IF n = 1 THEN ends[1] ELSE ends[n] - ends[n - 1]
Busy == landed < made

Init ==
    /\ ends = <<>> /\ worked = 0 /\ landed = 0
    /\ wpc = "get" /\ waited = 0
    /\ givenUp = {} /\ listening = {} /\ log = <<>>
    /\ over = 0 /\ late = FALSE

-----------------------------------------------------------------------------
(* The pool's thread: decode n ends, its callback runs if it has one.       *)
Land ==
    /\ Busy /\ worked = ends[landed + 1]
    /\ landed' = landed + 1
    /\ log' = IF landed' \in listening THEN Append(log, landed') ELSE log
    /\ listening' = listening \ {landed'}
    /\ UNCHANGED <<ends, worked, wpc, waited, givenUp, over, late>>

-----------------------------------------------------------------------------
(* Mutant of Submit: one deadline for all.                                  *)
SubmitKeepsClock ==
    /\ wpc = "get" /\ made < MaxChunks
    /\ \E need \in 1..Longest : ends' = Append(ends, Submitted + need)
    /\ wpc' = "wait" /\ UNCHANGED waited
    /\ UNCHANGED <<worked, landed, givenUp, listening, log, over, late>>

Submit ==
    /\ wpc = "get" /\ made < MaxChunks
    /\ \E need \in 1..Longest : ends' = Append(ends, Submitted + need)
    /\ wpc' = "wait" /\ waited' = 0
    /\ UNCHANGED <<worked, landed, givenUp, listening, log, over, late>>

(* Mutant of TimedOut: the ceiling is on the decode, not on the wait.       *)
TimedOutRunning == ~Busy \/ worked >= ends[made] - Need(made) + Ceiling

TimedOut == waited >= Ceiling

(* The text; or what backend.transcribe raised, and consume_chunks ends.    *)
Result ==
    /\ wpc = "wait" /\ ~Busy
    /\ wpc' \in {"get", "closed"}
    /\ UNCHANGED <<ends, worked, landed, waited, givenUp, listening, log, over, late>>

GivesUp ==
    /\ wpc = "wait" /\ Busy /\ TimedOut
    /\ wpc' = "giveup"
    /\ givenUp' = givenUp \cup {made}
    /\ over' = over + Need(made) - Ceiling
    /\ UNCHANGED <<ends, worked, landed, waited, listening, log, late>>

(* Mutant of LogWhenLate: a decode that has just ended is not reported.     *)
LogWhenLateMissed ==
    /\ wpc = "giveup" /\ wpc' = "get"
    /\ listening' = listening \cup {made} /\ UNCHANGED log
    /\ UNCHANGED <<ends, worked, landed, waited, givenUp, over, late>>

(* add_done_callback calls at once if the decode has ended meanwhile.       *)
LogWhenLate ==
    /\ wpc = "giveup" /\ wpc' = "get"
    /\ IF Busy THEN listening' = listening \cup {made} /\ UNCHANGED log
               ELSE log' = Append(log, made) /\ UNCHANGED listening
    /\ UNCHANGED <<ends, worked, landed, waited, givenUp, over, late>>

(* The sentinel, or Ctrl-C: close(), which does not wait for the pool.      *)
Stop ==
    /\ wpc \in {"get", "wait"} /\ wpc' = "closed"
    /\ UNCHANGED <<ends, worked, landed, waited, givenUp, listening, log, over, late>>

(* The interpreter joins the threads of every pool before it ends; closed    *)
(* without cancel_futures, a pool first runs what it was given.             *)
Exit ==
    /\ wpc = "closed" /\ ~Busy /\ wpc' = "exited"
    /\ UNCHANGED <<ends, worked, landed, waited, givenUp, listening, log, over, late>>

-----------------------------------------------------------------------------
(* Time passes when nobody has anything to do at this moment.               *)
Tick ==
    /\ wpc \notin {"giveup", "exited"}
    /\ Busy => worked < ends[landed + 1]
    /\ wpc = "wait" => Busy /\ ~TimedOut
    /\ wpc = "closed" => Busy
    /\ worked' = IF Busy THEN worked + 1 ELSE worked
    /\ waited' = IF wpc = "wait" THEN waited + 1 ELSE waited
    /\ late' = (late \/ (wpc = "closed" /\ landed + 1 \in givenUp))
    /\ UNCHANGED <<ends, landed, wpc, givenUp, listening, log, over>>

Worker == Submit \/ Result \/ GivesUp \/ LogWhenLate \/ Stop
Next == Land \/ Worker \/ Exit \/ Tick

Spec == Init /\ [][Next]_vars

-----------------------------------------------------------------------------
TypeOK ==
    /\ ends \in Seq(Nat) /\ made <= MaxChunks
    /\ landed \in 0..made /\ worked \in 0..Submitted
    /\ wpc \in WorkerPC /\ waited \in 0..Ceiling
    /\ givenUp \subseteq 1..made /\ listening \subseteq givenUp
    /\ log \in Seq(givenUp)
    /\ over \in Int /\ late \in BOOLEAN

(* main.py:205-211.  Each decode that was given up is reported when it ends,  *)
(* once, in order, and also when it ends just as it is given up.  No other   *)
(* is: its text went to the transcript.                                     *)
LoggedOnce ==
    /\ \A i, j \in DOMAIN log : i < j => log[i] < log[j]
    /\ {log[i] : i \in DOMAIN log} =
         {n \in givenUp : n <= landed /\ ~(wpc = "giveup" /\ n = made)}

(* main.py:177-184.  What is lost behind a runaway decode: the decodes given  *)
(* up have taken the ceiling or more, on the average.  So with no decode     *)
(* over the ceiling none is given up, and one that is over it by e ticks     *)
(* costs no more ordinary ones than e pays for.                             *)
LostForCause == over >= 0

(* main.py:221-225: "Don't join: a runaway decode would hold shutdown for as  *)
(* long as it likes".                                                       *)
ShutdownNotHeld == ~late
=============================================================================
