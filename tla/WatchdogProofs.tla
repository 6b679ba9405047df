--------------------------- MODULE WatchdogProofs ---------------------------
(***************************************************************************)
(* What TLAPS proves about Watchdog for every ceiling, every length of the   *)
(* decodes and every number of them.                                        *)
(***************************************************************************)
EXTENDS Watchdog, TLAPS

(* The thread's clock is within the decode it runs; decodes take time.      *)
Schedule ==
    /\ \A i, j \in DOMAIN ends : i < j => ends[i] < ends[j]
    /\ \A i \in DOMAIN ends : 0 < ends[i]
    /\ landed > 0 => ends[landed] <= worked
    /\ Busy => worked <= ends[landed + 1]

(* What the thread still has to do has been paid for by decodes given up     *)
(* above the ceiling, but for the decode that the worker waits for.         *)
Account ==
    /\ wpc \in {"get", "giveup"} => Submitted - worked <= over
    /\ wpc = "wait" /\ Busy => Submitted - worked <= over + Need(made) - waited
    /\ wpc \in {"wait", "giveup"} => made > 0

(* A callback waits for each decode given up that has not ended.            *)
Callbacks ==
    /\ listening = {n \in givenUp : landed < n /\ ~(wpc = "giveup" /\ n = made)}
    /\ wpc = "giveup" => made \in givenUp
    /\ wpc = "wait" => made \notin givenUp

IInv == TypeOK /\ Schedule /\ Account /\ LostForCause /\ Callbacks /\ LoggedOnce

-----------------------------------------------------------------------------
LEMMA AppendElements ==
    ASSUME NEW S, NEW s \in Seq(S), NEW e \in S
    PROVE  /\ Append(s, e) \in Seq(S)
           /\ DOMAIN Append(s, e) = DOMAIN s \cup {Len(s) + 1}
           /\ \A i \in DOMAIN s : Append(s, e)[i] = s[i] /\ i \in Nat /\ i < Len(s) + 1
           /\ Append(s, e)[Len(s) + 1] = e
           /\ Len(Append(s, e)) = Len(s) + 1 /\ Len(s) \in Nat
OBVIOUS

(* The types of the numbers, in the form the steps use them.                *)
LEMMA Numbers ==
    ASSUME TypeOK
    PROVE  /\ made \in Nat /\ landed \in 0..made /\ worked \in Nat /\ worked <= Submitted
           /\ Submitted \in Nat /\ waited \in 0..Ceiling /\ over \in Int
           /\ \A i \in 1..made : ends[i] \in Nat /\ i \in DOMAIN ends
           /\ made > 0 => Need(made) \in Int /\ Submitted = ends[made]
<1>1. /\ ends \in Seq(Nat) /\ made \in Nat /\ \A i \in 1..made : ends[i] \in Nat /\ i \in DOMAIN ends
    BY DEF TypeOK, made
<1>2. Submitted \in Nat /\ (made > 0 => Submitted = ends[made])
    BY <1>1 DEF Submitted
<1>3. made > 0 => Need(made) \in Int
    BY <1>1 DEF Need
<1> QED
    BY <1>1, <1>2, <1>3 DEF TypeOK

(* main.py:212-219.  One more report keeps the log in order.                *)
LEMMA ReportOne ==
    ASSUME log \in Seq(givenUp), givenUp \subseteq Nat, NEW n \in givenUp,
           \A i, j \in DOMAIN log : i < j => log[i] < log[j],
           \A i \in DOMAIN log : log[i] < n,
           log' = Append(log, n)
    PROVE  /\ log' \in Seq(givenUp)
           /\ \A i, j \in DOMAIN log' : i < j => log'[i] < log'[j]
           /\ {log'[i] : i \in DOMAIN log'} = {log[i] : i \in DOMAIN log} \cup {n}
<1>1. /\ log' \in Seq(givenUp) /\ Len(log) \in Nat
      /\ DOMAIN log' = DOMAIN log \cup {Len(log) + 1}
      /\ \A i \in DOMAIN log : log'[i] = log[i] /\ i \in Nat /\ i < Len(log) + 1
      /\ log'[Len(log) + 1] = n
    BY AppendElements
<1>2. ASSUME NEW i \in DOMAIN log', NEW j \in DOMAIN log', i < j
      PROVE  log'[i] < log'[j]
  <2>1. CASE i = Len(log) + 1
      BY <1>1, <1>2, <2>1
  <2>2. CASE i \in DOMAIN log /\ j \in DOMAIN log
      BY <1>1, <1>2, <2>2
  <2>3. CASE i \in DOMAIN log /\ j = Len(log) + 1
      BY <1>1, <2>3
  <2> QED
      BY <1>1, <2>1, <2>2, <2>3
<1>3. {log'[i] : i \in DOMAIN log'} = {log[i] : i \in DOMAIN log} \cup {n}
    BY <1>1
<1> QED
    BY <1>1, <1>2, <1>3

-----------------------------------------------------------------------------
LEMMA InitHolds == Init => IInv
<1> SUFFICES ASSUME Init PROVE IInv
    OBVIOUS
<1> USE CeilingAssumption, LimitsAssumption
<1>1. Len(ends) = 0 /\ ends \in Seq(Nat) /\ DOMAIN ends = {} /\ log \in Seq({}) /\ DOMAIN log = {}
    BY DEF Init
<1>2. TypeOK
  <2>1. made = 0 /\ Submitted = 0
      BY <1>1 DEF made, Submitted
  <2>3. log \in Seq(givenUp)
      BY <1>1 DEF Init
  <2>4. /\ landed \in 0..made /\ worked \in 0..Submitted /\ waited \in 0..Ceiling
        /\ made <= MaxChunks
      BY <2>1 DEF Init
  <2>5. wpc \in WorkerPC /\ over \in Int
      BY DEF Init, WorkerPC
  <2>7. late \in BOOLEAN
      BY DEF Init
  <2>6. givenUp \subseteq 1..made /\ listening \subseteq givenUp
      BY DEF Init
  <2> QED
      BY <1>1, <2>3, <2>4, <2>5, <2>6, <2>7 DEF TypeOK
<1>3. Schedule /\ Account /\ LostForCause /\ Callbacks /\ LoggedOnce
    BY <1>1 DEF Init, Schedule, Account, LostForCause, Callbacks, LoggedOnce, made, Submitted, Busy
<1> QED
    BY <1>2, <1>3 DEF IInv

(* The pool's thread moves on.                                              *)
LEMMA LandKeeps ==
    ASSUME IInv, Land
    PROVE  IInv'
<1> USE CeilingAssumption, LimitsAssumption
<1> DEFINE n == landed + 1
<1>1. /\ landed < made /\ worked = ends[n] /\ landed' = n
      /\ UNCHANGED <<ends, worked, wpc, waited, givenUp, over, late, made, Submitted>>
      /\ log' = IF n \in listening THEN Append(log, n) ELSE log
      /\ listening' = listening \ {n}
    BY DEF Land, Busy, made, Submitted
<1>2. TypeOK /\ Schedule /\ Account /\ LostForCause /\ Callbacks /\ LoggedOnce
    BY DEF IInv
<1>3. /\ made \in Nat /\ landed \in 0..made /\ n \in 1..made /\ givenUp \subseteq 1..made
      /\ log \in Seq(givenUp) /\ \A i \in 1..made : i \in DOMAIN ends /\ ends[i] \in Nat
    BY <1>1, <1>2, Numbers DEF TypeOK
<1> HIDE DEF n
<1>n. n = landed + 1 /\ \A m \in givenUp : m \in Int
    BY <1>3 DEF n
<1>4. Schedule'
  <2>1. Busy' => worked <= ends[n + 1]
      BY <1>1, <1>2, <1>3 DEF Busy, Schedule
  <2> QED
      BY <1>1, <1>2, <1>3, <2>1 DEF Schedule, Busy
<1>5. Account' /\ LostForCause'
    BY <1>1, <1>2, <1>3 DEF Account, LostForCause, Busy, Need
<1>6. Callbacks'
  <2>1. \A m \in givenUp : n < m <=> (landed < m /\ m # n)
      BY <1>3, <1>n
  <2> QED
      BY <1>1, <1>2, <2>1 DEF Callbacks
<1>7. log' \in Seq(givenUp) /\ LoggedOnce'
  <2>1. CASE n \in listening
    <3>1. n \in givenUp /\ ~(wpc = "giveup" /\ n = made)
        BY <1>2, <2>1 DEF Callbacks
    <3>2. \A i \in DOMAIN log : log[i] < n
      <4> SUFFICES ASSUME NEW i \in DOMAIN log PROVE log[i] < n
          OBVIOUS
      <4>1. log[i] \in givenUp /\ log[i] <= landed
          BY <1>2 DEF LoggedOnce
      <4>2. log[i] \in Int
          BY <1>n, <4>1
      <4>3. landed \in Int
          BY <1>3
      <4> QED
          BY <1>n, <4>1, <4>2, <4>3
    <3>3. /\ log' \in Seq(givenUp)
          /\ \A i, j \in DOMAIN log' : i < j => log'[i] < log'[j]
          /\ {log'[i] : i \in DOMAIN log'} = {log[i] : i \in DOMAIN log} \cup {n}
      <4>1. log' = Append(log, n) /\ givenUp \subseteq Nat
          BY <1>1, <1>3, <2>1
      <4>2. \A i, j \in DOMAIN log : i < j => log[i] < log[j]
          BY <1>2 DEF LoggedOnce
      <4> QED
          BY <1>3, <3>1, <3>2, <4>1, <4>2, ReportOne
    <3>4. \A m \in givenUp : m <= n <=> (m <= landed \/ m = n)
        BY <1>3, <1>n
    <3> QED
        BY <1>1, <1>2, <3>1, <3>3, <3>4 DEF LoggedOnce
  <2>2. CASE n \notin listening
    <3>1. n \notin givenUp \/ (wpc = "giveup" /\ n = made)
      <4>1. landed < n
          BY <1>3, <1>n
      <4> QED
          BY <1>2, <2>2, <4>1 DEF Callbacks
    <3>2. \A m \in givenUp : m <= n <=> (m <= landed \/ m = n)
        BY <1>3, <1>n
    <3>3. log' = log
        BY <1>1, <2>2
    <3>4. n \in givenUp => wpc = "giveup" /\ n = made
        BY <3>1
    <3> QED
      <4>1. {m \in givenUp : m <= n /\ ~(wpc = "giveup" /\ m = made)} =
              {m \in givenUp : m <= landed /\ ~(wpc = "giveup" /\ m = made)}
          BY <3>2, <3>4
      <4>2. {log[i] : i \in DOMAIN log} =
              {m \in givenUp : m <= n /\ ~(wpc = "giveup" /\ m = made)}
          BY <1>2, <4>1 DEF LoggedOnce
      <4>3. \A i, j \in DOMAIN log : i < j => log[i] < log[j]
          BY <1>2 DEF LoggedOnce
      <4>4. wpc' = wpc /\ made' = made /\ givenUp' = givenUp /\ landed' = n
          BY <1>1
      <4>5. log' \in Seq(givenUp)
          BY <1>3, <3>3
      <4> QED
          BY <3>3, <4>2, <4>3, <4>4, <4>5 DEF LoggedOnce
  <2> QED
      BY <2>1, <2>2
<1>8. TypeOK'
    BY <1>1, <1>2, <1>3, <1>7 DEF TypeOK
<1> QED
    BY <1>4, <1>5, <1>6, <1>7, <1>8 DEF IInv

(* One more decode stands behind what the thread has left to do.            *)
LEMMA SubmitKeeps ==
    ASSUME IInv, Submit
    PROVE  IInv'
<1> USE CeilingAssumption, LimitsAssumption
<1>1. PICK need \in 1..Longest : ends' = Append(ends, Submitted + need)
    BY DEF Submit
<1>2. /\ wpc = "get" /\ made < MaxChunks /\ wpc' = "wait" /\ waited' = 0
      /\ UNCHANGED <<worked, landed, givenUp, listening, log, over, late>>
    BY DEF Submit
<1>3. TypeOK /\ Schedule /\ Account /\ LostForCause /\ Callbacks /\ LoggedOnce
    BY DEF IInv
<1>4. /\ made \in Nat /\ landed \in 0..made /\ worked \in Nat /\ worked <= Submitted
      /\ Submitted \in Nat /\ over \in Int
      /\ \A i \in 1..made : ends[i] \in Nat /\ i \in DOMAIN ends
      /\ made > 0 => Submitted = ends[made]
      /\ made = 0 => Submitted = 0
    BY <1>3, Numbers DEF Submitted
<1>5. /\ ends' \in Seq(Nat) /\ made' = made + 1
      /\ DOMAIN ends' = DOMAIN ends \cup {made + 1} /\ DOMAIN ends = 1..made
      /\ \A i \in 1..made : ends'[i] = ends[i]
      /\ ends'[made + 1] = Submitted + need
  <2>1. ends \in Seq(Nat) /\ Submitted + need \in Nat
      BY <1>3, <1>4 DEF TypeOK
  <2> QED
      BY <1>1, <2>1, AppendElements DEF made
<1>6. Submitted' = Submitted + need
    BY <1>4, <1>5 DEF Submitted
<1>7. Need(made)' = need
    BY <1>4, <1>5 DEF Need
<1>8. Schedule'
  <2>1. \A i \in 1..made : ends[i] <= Submitted
    <3> SUFFICES ASSUME NEW i \in 1..made PROVE ends[i] <= Submitted
        OBVIOUS
    <3>1. i \in DOMAIN ends /\ made \in DOMAIN ends /\ Submitted = ends[made] /\ i \in Int
        BY <1>4, <1>5
    <3>2. i < made => ends[i] < ends[made]
        BY <1>3, <3>1 DEF Schedule
    <3> QED
        BY <1>4, <3>1, <3>2
  <2>2. \A i, j \in DOMAIN ends' : i < j => ends'[i] < ends'[j]
      BY <1>3, <1>4, <1>5, <2>1 DEF Schedule
  <2>3. \A i \in DOMAIN ends' : 0 < ends'[i]
      BY <1>3, <1>4, <1>5 DEF Schedule
  <2>4. landed > 0 => ends'[landed] <= worked
      BY <1>3, <1>4, <1>5 DEF Schedule
  <2>5. worked <= ends'[landed + 1]
    <3>1. CASE landed < made
        BY <1>3, <1>4, <1>5, <3>1 DEF Schedule, Busy
    <3>2. CASE landed = made
        BY <1>4, <1>5, <3>2
    <3> QED
        BY <1>4, <3>1, <3>2
  <2> QED
      BY <1>2, <2>2, <2>3, <2>4, <2>5 DEF Schedule
<1>9. Account' /\ LostForCause'
  <2>1. Submitted - worked <= over
      BY <1>2, <1>3 DEF Account
  <2> QED
      BY <1>2, <1>3, <1>4, <1>5, <1>6, <1>7, <2>1 DEF Account, LostForCause
<1>10. givenUp \subseteq 1..made /\ listening \subseteq givenUp /\ log \in Seq(givenUp) /\ late \in BOOLEAN
    BY <1>3 DEF TypeOK
<1>11. Callbacks'
    BY <1>2, <1>3, <1>4, <1>5, <1>10 DEF Callbacks
<1>12. LoggedOnce'
    BY <1>2, <1>3 DEF LoggedOnce
<1>13. TypeOK'
    BY <1>2, <1>4, <1>5, <1>6, <1>10 DEF TypeOK, WorkerPC
<1> QED
    BY <1>8, <1>9, <1>11, <1>12, <1>13 DEF IInv

(* main.py:204-210.  What the thread still has to do, at the ceiling, is what *)
(* the decode given up takes in excess of it.                               *)
LEMMA GivesUpKeeps ==
    ASSUME IInv, GivesUp
    PROVE  IInv'
<1> USE CeilingAssumption, LimitsAssumption
<1>1. /\ wpc = "wait" /\ landed < made /\ waited >= Ceiling
      /\ wpc' = "giveup" /\ givenUp' = givenUp \cup {made}
      /\ over' = over + Need(made) - Ceiling
      /\ UNCHANGED <<ends, worked, landed, waited, listening, log, late, made, Submitted>>
    BY DEF GivesUp, Busy, TimedOut, made, Submitted
<1>2. TypeOK /\ Schedule /\ Account /\ LostForCause /\ Callbacks /\ LoggedOnce
    BY DEF IInv
<1>3. /\ made \in Nat /\ landed \in 0..made /\ worked \in Nat /\ worked <= Submitted
      /\ Submitted \in Nat /\ waited \in 0..Ceiling /\ over \in Int /\ Need(made) \in Int
    BY <1>1, <1>2, Numbers
<1>4. Submitted - worked <= over + Need(made) - waited
    BY <1>1, <1>2 DEF Account, Busy
<1>5. Account' /\ LostForCause'
    BY <1>1, <1>3, <1>4 DEF Account, LostForCause
<1>6. Schedule'
    BY <1>1, <1>2 DEF Schedule, Busy
<1>7. givenUp \subseteq 1..made /\ listening \subseteq givenUp /\ log \in Seq(givenUp) /\ late \in BOOLEAN
    BY <1>2 DEF TypeOK
<1>8. Callbacks'
    BY <1>1, <1>2, <1>3 DEF Callbacks
<1>9. LoggedOnce'
    BY <1>1, <1>2, <1>3 DEF LoggedOnce
<1>10. log' \in Seq(givenUp')
    BY <1>1, <1>7
<1>11. TypeOK'
    BY <1>1, <1>2, <1>3, <1>7, <1>10 DEF TypeOK, WorkerPC
<1> QED
    BY <1>5, <1>6, <1>8, <1>9, <1>11 DEF IInv

(* main.py:209.  Reported now or when it ends, and not twice.               *)
LEMMA LogWhenLateKeeps ==
    ASSUME IInv, LogWhenLate
    PROVE  IInv'
<1> USE CeilingAssumption, LimitsAssumption
<1>1. /\ wpc = "giveup" /\ wpc' = "get"
      /\ UNCHANGED <<ends, worked, landed, waited, givenUp, over, late, made, Submitted>>
    BY DEF LogWhenLate, made, Submitted
<1>2. TypeOK /\ Schedule /\ Account /\ LostForCause /\ Callbacks /\ LoggedOnce
    BY DEF IInv
<1>3. /\ made \in Nat /\ landed \in 0..made /\ givenUp \subseteq 1..made
      /\ log \in Seq(givenUp) /\ made \in givenUp /\ listening \subseteq givenUp
    BY <1>1, <1>2, Numbers DEF TypeOK, Callbacks
<1>4. Schedule' /\ Account' /\ LostForCause'
    BY <1>1, <1>2 DEF Schedule, Account, LostForCause, Busy
<1>5. CASE landed < made
  <2>1. listening' = listening \cup {made} /\ log' = log
      BY <1>5 DEF LogWhenLate, Busy
  <2>2. Callbacks' /\ LoggedOnce'
      BY <1>1, <1>2, <1>3, <1>5, <2>1 DEF Callbacks, LoggedOnce
  <2>3. TypeOK'
      BY <1>1, <1>2, <1>3, <2>1 DEF TypeOK, WorkerPC
  <2> QED
      BY <1>4, <2>2, <2>3 DEF IInv
<1>6. CASE ~(landed < made)
  <2>1. log' = Append(log, made) /\ listening' = listening /\ landed = made
      BY <1>3, <1>6 DEF LogWhenLate, Busy
  <2>2. \A i \in DOMAIN log : log[i] < made
    <3> SUFFICES ASSUME NEW i \in DOMAIN log PROVE log[i] < made
        OBVIOUS
    <3>1. log[i] \in givenUp /\ log[i] # made
        BY <1>1, <1>2 DEF LoggedOnce
    <3>2. log[i] \in 1..made
        BY <1>3, <3>1
    <3>3. log[i] \in Int /\ log[i] <= made
        BY <1>3, <3>2
    <3> QED
        BY <1>3, <3>1, <3>3
  <2>3. /\ log' \in Seq(givenUp)
        /\ \A i, j \in DOMAIN log' : i < j => log'[i] < log'[j]
        /\ {log'[i] : i \in DOMAIN log'} = {log[i] : i \in DOMAIN log} \cup {made}
      BY <1>2, <1>3, <2>1, <2>2, ReportOne DEF LoggedOnce
  <2>4. LoggedOnce'
      BY <1>1, <1>2, <1>3, <2>1, <2>3 DEF LoggedOnce
  <2>5. Callbacks'
      BY <1>1, <1>2, <1>3, <2>1 DEF Callbacks
  <2>6. TypeOK'
      BY <1>1, <1>2, <2>1, <2>3 DEF TypeOK, WorkerPC
  <2> QED
      BY <1>4, <2>4, <2>5, <2>6 DEF IInv
<1> QED
    BY <1>5, <1>6

(* While time passes, the thread works off what the worker waits for.       *)
LEMMA TickKeeps ==
    ASSUME IInv, Tick
    PROVE  IInv'
<1> USE CeilingAssumption, LimitsAssumption
<1>1. /\ Busy => worked < ends[landed + 1]
      /\ wpc = "wait" => Busy /\ waited < Ceiling
      /\ wpc # "giveup"
      /\ worked' = IF Busy THEN worked + 1 ELSE worked
      /\ waited' = IF wpc = "wait" THEN waited + 1 ELSE waited
      /\ late' \in BOOLEAN
      /\ UNCHANGED <<ends, landed, wpc, givenUp, listening, log, over, made, Submitted>>
      /\ Busy' = Busy
  <2>1. waited \in 0..Ceiling
      BY DEF IInv, TypeOK
  <2> QED
      BY <2>1 DEF Tick, TimedOut, Busy, made, Submitted
<1>2. TypeOK /\ Schedule /\ Account /\ LostForCause /\ Callbacks /\ LoggedOnce
    BY DEF IInv
<1>3. /\ made \in Nat /\ landed \in 0..made /\ worked \in Nat /\ worked <= Submitted
      /\ Submitted \in Nat /\ waited \in 0..Ceiling /\ over \in Int
      /\ \A i \in 1..made : ends[i] \in Nat /\ i \in DOMAIN ends
      /\ made > 0 => Need(made) \in Int /\ Submitted = ends[made]
    BY <1>2, Numbers
<1>4. Busy => ends[landed + 1] <= Submitted /\ landed + 1 \in 1..made
    BY <1>2, <1>3 DEF Schedule, Busy
<1>5. Schedule'
    BY <1>1, <1>2, <1>3, <1>4 DEF Schedule
<1>6. Account' /\ LostForCause'
  <2>1. Need(made)' = Need(made)
      BY <1>1 DEF Need
  <2> QED
      BY <1>1, <1>2, <1>3, <2>1 DEF Account, LostForCause
<1>7. Callbacks' /\ LoggedOnce'
    BY <1>1, <1>2 DEF Callbacks, LoggedOnce
<1>8. worked' \in 0..Submitted /\ waited' \in 0..Ceiling
    BY <1>1, <1>3, <1>4
<1>9. TypeOK'
    BY <1>1, <1>2, <1>8 DEF TypeOK
<1> QED
    BY <1>5, <1>6, <1>7, <1>9 DEF IInv

(* The worker takes the result, closes the watchdog, or is gone.            *)
LEMMA OthersKeep ==
    ASSUME IInv, Result \/ Stop \/ Exit \/ UNCHANGED vars
    PROVE  IInv'
<1> USE CeilingAssumption, LimitsAssumption
<1>1. TypeOK /\ Schedule /\ Account /\ LostForCause /\ Callbacks /\ LoggedOnce
    BY DEF IInv
<1>2. /\ UNCHANGED <<ends, worked, landed, waited, givenUp, listening, log, over, made, Submitted>>
      /\ Busy' = Busy /\ late' = late
    BY DEF Result, Stop, Exit, vars, Busy, made, Submitted
<1>3. /\ wpc' = wpc \/ (wpc # "giveup" /\ wpc' \in {"get", "closed", "exited"})
      /\ wpc' = "get" /\ wpc' # wpc => ~Busy
    BY DEF Result, Stop, Exit, vars
<1>4. TypeOK'
    BY <1>1, <1>2, <1>3 DEF TypeOK, WorkerPC
<1>5. Schedule'
    BY <1>1, <1>2 DEF Schedule
<1>6. ~Busy => Submitted - worked <= over
  <2>1. /\ made \in Nat /\ landed \in 0..made /\ worked \in Nat /\ worked <= Submitted
        /\ Submitted \in Nat /\ over \in Int /\ (made > 0 => Submitted = ends[made])
        /\ made = 0 => Submitted = 0
      BY <1>1, Numbers DEF Submitted
  <2> QED
      BY <1>1, <2>1 DEF Schedule, LostForCause, Busy
<1>7. Account' /\ LostForCause'
  <2>1. Need(made)' = Need(made)
      BY <1>2 DEF Need
  <2> QED
      BY <1>1, <1>2, <1>3, <1>6, <2>1 DEF Account, LostForCause
<1>8. Callbacks'
    BY <1>1, <1>2, <1>3 DEF Callbacks
<1>9. LoggedOnce'
    BY <1>1, <1>2, <1>3 DEF LoggedOnce
<1> QED
    BY <1>4, <1>5, <1>7, <1>8, <1>9 DEF IInv

(* The inductive invariant.                                                 *)
THEOREM Invariance == Spec => []IInv
<1>1. IInv /\ [Next]_vars => IInv'
    BY LandKeeps, SubmitKeeps, GivesUpKeeps, LogWhenLateKeeps, TickKeeps, OthersKeep
       DEF Next, Worker
<1> QED
    BY InitHolds, <1>1, PTL DEF Spec

(* main.py:198-225.  Every variable keeps to its range; no wait for a decode  *)
(* is longer than the ceiling.                                              *)
THEOREM TypeCorrect == Spec => []TypeOK
<1>1. IInv => TypeOK
    BY DEF IInv
<1> QED
    BY Invariance, <1>1, PTL

(* main.py:205-211.  Each decode given up is reported once, when it ends.    *)
THEOREM LoggedOnceHolds == Spec => []LoggedOnce
<1>1. IInv => LoggedOnce
    BY DEF IInv
<1> QED
    BY Invariance, <1>1, PTL

(* main.py:177-184.  The decodes given up took the ceiling or more on the    *)
(* average.                                                                 *)
THEOREM LostForCauseHolds == Spec => []LostForCause
<1>1. IInv => LostForCause
    BY DEF IInv
<1> QED
    BY Invariance, <1>1, PTL
=============================================================================
