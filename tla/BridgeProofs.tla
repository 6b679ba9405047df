---------------------------- MODULE BridgeProofs ----------------------------
(***************************************************************************)
(* What TLAPS proves about Bridge for every value of its constants.  Each    *)
(* machine in it behaves as its own module says, so what is proved there     *)
(* holds here; and with that, what the phone sees of a call is a             *)
(* Conversation.  The second half is about the end of a call: the server     *)
(* closes before the phone's grace runs out, and by then the phone has heard *)
(* all that was sent.                                                       *)
(***************************************************************************)
EXTENDS Bridge, TLAPS

(* The machines' modules with all that is proved about them.                *)
Serving == INSTANCE CallServerOrder WITH Conns <- {Conn}, Calls <- {CallId}
Dialing == INSTANCE SttLinkProofs

-----------------------------------------------------------------------------
(* The two instances of a machine's module are the same.                    *)
LEMMA SameServer ==
    /\ Server!Init <=> Serving!Init
    /\ Server!Next <=> Serving!Next
    /\ Server!RunCallback <=> Serving!RunCallback
<1> USE DEF Server!Chunks, Serving!Chunks, Server!NoItem, Serving!NoItem,
       Server!hvars, Serving!hvars, Server!svars, Serving!svars, Server!cvars, Serving!cvars,
       Server!wvars, Serving!wvars, Server!vars, Serving!vars,
       Server!LoopFree, Serving!LoopFree, Server!MidStep, Serving!MidStep,
       Server!Fresh, Serving!Fresh, Server!Resumes, Serving!Resumes,
       Server!MayOpen, Serving!MayOpen, Server!Count, Serving!Count,
       Server!EndCall, Serving!EndCall, Server!ChunkItem, Serving!ChunkItem,
       Server!SpeakItem, Serving!SpeakItem, Server!SendOn, Serving!SendOn,
       Server!EventOn, Serving!EventOn
<1>c. \A S : Server!Cardinality(S) = Serving!Cardinality(S)
    BY DEF Server!Cardinality, Serving!Cardinality
<1>1. Server!Init <=> Serving!Init
    BY DEF Server!Init, Serving!Init
<1>2. ASSUME NEW k \in {Conn}
      PROVE  Server!Handler(k) <=> Serving!Handler(k)
  <2>1. /\ Server!Accept(k) <=> Serving!Accept(k)
        /\ Server!CallStart(k) <=> Serving!CallStart(k)
        /\ Server!AudioAdopted(k) <=> Serving!AudioAdopted(k)
        /\ Server!AudioOpens(k) <=> Serving!AudioOpens(k)
        /\ Server!AudioCloses(k) <=> Serving!AudioCloses(k)
      BY <1>c DEF Server!Accept, Serving!Accept, Server!CallStart, Serving!CallStart,
         Server!AudioAdopted, Serving!AudioAdopted, Server!AudioOpens, Serving!AudioOpens,
         Server!AudioCloses, Serving!AudioCloses
  <2>2. /\ Server!WatchIdle(k) <=> Serving!WatchIdle(k)
        /\ Server!QueueSpeech(k) <=> Serving!QueueSpeech(k)
        /\ Server!CallEnd(k) <=> Serving!CallEnd(k)
        /\ Server!EndOfStream(k) <=> Serving!EndOfStream(k)
      BY DEF Server!WatchIdle, Serving!WatchIdle, Server!QueueSpeech, Serving!QueueSpeech,
         Server!CallEnd, Serving!CallEnd, Server!EndOfStream, Serving!EndOfStream
  <2>3. /\ Server!DrainTimeout(k) <=> Serving!DrainTimeout(k)
        /\ Server!SocketCloses(k) <=> Serving!SocketCloses(k)
        /\ Server!MidCall(k) <=> Serving!MidCall(k)
      BY DEF Server!DrainTimeout, Serving!DrainTimeout,
         Server!SocketCloses, Serving!SocketCloses, Server!MidCall, Serving!MidCall,
         Server!Put, Serving!Put, Server!Check, Serving!Check, Server!Leave, Serving!Leave,
         Server!Drop, Serving!Drop
  <2> QED
      BY <2>1, <2>2, <2>3 DEF Server!Handler, Serving!Handler
<1>3. Server!RunCallback <=> Serving!RunCallback
    BY DEF Server!RunCallback, Serving!RunCallback
<1>4. Server!WorkerStep <=> Serving!WorkerStep
  <2>1. Server!Get <=> Serving!Get
      BY DEF Server!Get, Serving!Get
  <2> QED
      BY <2>1 DEF Server!WorkerStep, Serving!WorkerStep, Server!Emit, Serving!Emit,
         Server!ChunkDone, Serving!ChunkDone, Server!Notify, Serving!Notify,
         Server!Speak, Serving!Speak
<1>5. /\ Server!Crash <=> Serving!Crash
      /\ Server!BeginStop <=> Serving!BeginStop
      /\ Server!FinishStop <=> Serving!FinishStop
      /\ Server!Finished <=> Serving!Finished
    BY DEF Server!Crash, Serving!Crash, Server!BeginStop, Serving!BeginStop,
       Server!FinishStop, Serving!FinishStop, Server!Finished, Serving!Finished
<1> QED
    BY <1>1, <1>2, <1>3, <1>4, <1>5 DEF Server!Next, Serving!Next

LEMMA SamePhone ==
    /\ Phone!Init <=> Dialing!Init
    /\ Phone!Next <=> Dialing!Next
<1> USE DEF Phone!box, Dialing!box, Phone!tall, Dialing!tall, Phone!back, Dialing!back,
       Phone!vars, Dialing!vars, Phone!Writers, Dialing!Writers, Phone!Text, Dialing!Text,
       Phone!Audio, Dialing!Audio, Phone!Posts, Dialing!Posts, Phone!Unlocked, Dialing!Unlocked,
       Phone!Returns, Dialing!Returns, Phone!Raises, Dialing!Raises, Phone!Expires, Dialing!Expires,
       Phone!TextSent, Dialing!TextSent, Phone!EnterLoop, Dialing!EnterLoop,
       Phone!Announce, Dialing!Announce, Phone!Close, Dialing!Close,
       Phone!ReaderOver, Dialing!ReaderOver
<1>1. Phone!Init <=> Dialing!Init
    BY DEF Phone!Init, Dialing!Init
<1>2. Phone!Main <=> Dialing!Main
    BY DEF Phone!Main, Dialing!Main, Phone!Connected, Dialing!Connected,
       Phone!DialFails, Dialing!DialFails, Phone!StartPump, Dialing!StartPump,
       Phone!Hangup, Dialing!Hangup, Phone!Flushed, Dialing!Flushed,
       Phone!FlushTimeout, Dialing!FlushTimeout, Phone!EndSent, Dialing!EndSent,
       Phone!GraceOver, Dialing!GraceOver, Phone!GraceTimeout, Dialing!GraceTimeout
<1>3. Phone!Pump <=> Dialing!Pump
    BY DEF Phone!Pump, Dialing!Pump, Phone!PumpTakes, Dialing!PumpTakes,
       Phone!PumpTicksOff, Dialing!PumpTicksOff, Phone!PumpUnwinds, Dialing!PumpUnwinds
<1>4. Phone!Reader <=> Dialing!Reader
    BY DEF Phone!Reader, Dialing!Reader, Phone!ReaderStarts, Dialing!ReaderStarts,
       Phone!SpeechArrives, Dialing!SpeechArrives, Phone!SpeechPlayed, Dialing!SpeechPlayed,
       Phone!TranscriptArrives, Dialing!TranscriptArrives, Phone!ReaderEnds, Dialing!ReaderEnds
<1>5. /\ Phone!Closed <=> Dialing!Closed
      /\ Phone!SendAudio <=> Dialing!SendAudio
      /\ Phone!PeerCloses <=> Dialing!PeerCloses
      /\ Phone!Finished <=> Dialing!Finished
    BY DEF Phone!Closed, Dialing!Closed, Phone!SendAudio, Dialing!SendAudio,
       Phone!PeerCloses, Dialing!PeerCloses, Phone!Finished, Dialing!Finished
<1>6. ASSUME NEW w
      PROVE  Phone!GetsLock(w) <=> Dialing!GetsLock(w)
    BY DEF Phone!GetsLock, Dialing!GetsLock, Phone!Pending, Dialing!Pending
<1>7. ASSUME NEW r
      PROVE  /\ Phone!SpeakStarts(r) <=> Dialing!SpeakStarts(r)
             /\ Phone!SpeakSent(r) <=> Dialing!SpeakSent(r)
    BY DEF Phone!SpeakStarts, Dialing!SpeakStarts, Phone!SpeakSent, Dialing!SpeakSent
<1> QED
    BY <1>1, <1>2, <1>3, <1>4, <1>5, <1>6, <1>7 DEF Phone!Next, Dialing!Next

-----------------------------------------------------------------------------
(* What a step of Bridge is for each machine.                                *)
LEMMA ServerSteps == [Next]_vars => [Server!Next]_srvrs
<1> SUFFICES ASSUME [Next]_vars PROVE [Server!Next]_srvrs
    OBVIOUS
<1> USE DEF Server!Next, Server!Handler
<1>1. CASE Connects \/ ServerLearns \/ DrainTimeout
    BY <1>1 DEF Connects, ServerLearns, DrainTimeout
<1>2. CASE Reads
    BY <1>2 DEF Reads
<1>3. CASE RunsCallback
    BY <1>3 DEF RunsCallback
<1>4. CASE ServerOwn
    BY <1>4 DEF ServerOwn
<1>5. CASE UNCHANGED srvrs
    BY <1>5
<1>6. \/ Connects \/ ServerLearns \/ DrainTimeout \/ Reads \/ RunsCallback \/ ServerOwn
      \/ UNCHANGED srvrs
    BY DEF Next, LinkLost, PhoneLearns, PhoneOwn, CallerSpeaks, HearsSpeech, HearsText,
       Takes, ReaderEnds, GraceTimeout, Tick, Finished, vars
<1> QED
    BY <1>1, <1>2, <1>3, <1>4, <1>5, <1>6

LEMMA PhoneSteps == [Next]_vars => [Phone!Next]_pvars
<1> SUFFICES ASSUME [Next]_vars PROVE [Phone!Next]_pvars
    OBVIOUS
<1> USE DEF Phone!Next, Phone!Main, Phone!Pump, Phone!Reader
<1>1. CASE Connects \/ PhoneLearns \/ CallerSpeaks \/ GraceTimeout \/ ReaderEnds
    BY <1>1 DEF Connects, PhoneLearns, CallerSpeaks, GraceTimeout, ReaderEnds
<1>2. CASE PhoneOwn
    BY <1>2 DEF PhoneOwn, Speaking
<1>3. CASE HearsSpeech \/ HearsText
    BY <1>3 DEF HearsSpeech, HearsText
<1>4. \/ Connects \/ PhoneLearns \/ CallerSpeaks \/ GraceTimeout \/ ReaderEnds \/ PhoneOwn
      \/ HearsSpeech \/ HearsText
      \/ UNCHANGED pvars
    BY DEF Next, LinkLost, ServerLearns, Reads, RunsCallback, ServerOwn, DrainTimeout, Tick,
       Finished, vars
<1> QED
    BY <1>1, <1>2, <1>3, <1>4

(* The STT machine in Bridge behaves as CallServer says.                    *)
THEOREM ServerImplemented == Spec => Server!Spec
<1>1. Init => Server!Init
    BY DEF Init
<1> QED
    BY <1>1, ServerSteps, PTL DEF Spec, Server!Spec, Server!vars, srvrs

(* The phone machine in Bridge behaves as SttLink says.                     *)
THEOREM PhoneImplemented == Spec => Phone!Spec
<1>1. Init => Phone!Init
    BY DEF Init
<1> QED
    BY <1>1, PhoneSteps, PTL DEF Spec, Phone!Spec, Phone!vars, pvars

(* So what is proved of the two machines alone holds of them together.       *)
THEOREM ServerFacts ==
    Spec => [](Serving!IInv /\ Serving!OInv /\ Serving!SentAhead /\ Serving!InSpokenOrder)
<1>1. Spec => Serving!Spec
  <2>1. Init => Serving!Init
      BY SameServer DEF Init
  <2>2. [Next]_vars => [Serving!Next]_srvrs
      BY SameServer, ServerSteps
  <2> QED
      BY <2>1, <2>2, PTL DEF Spec, Serving!Spec, Serving!vars, srvrs
<1>2. /\ Serving!Spec => []Serving!IInv
      /\ Serving!Spec => []Serving!OInv
      /\ Serving!Spec => []Serving!SentAhead
      /\ Serving!Spec => []Serving!InSpokenOrder
    BY ServerAssumption, Serving!Invariance, Serving!OrderInvariance, Serving!SentAheadHolds,
       Serving!InSpokenOrderHolds
<1> QED
    BY <1>1, <1>2, PTL

THEOREM PhoneFacts == Spec => []Dialing!IInv
<1>1. Spec => Dialing!Spec
  <2>1. Init => Dialing!Init
      BY SamePhone DEF Init
  <2>2. [Next]_vars => [Dialing!Next]_pvars
      BY SamePhone, PhoneSteps
  <2> QED
      BY <2>1, <2>2, PTL DEF Spec, Dialing!Spec, Dialing!vars, pvars
<1>2. Dialing!Spec => []Dialing!IInv
    BY PhoneAssumption, Dialing!Invariance
<1> QED
    BY <1>1, <1>2, PTL

-----------------------------------------------------------------------------
(* The promise of the call.                                                 *)

(* The message n is the transcript of an utterance, and was sent.            *)
Gone(n, f) == n \in Serving!Chunks /\ f[n] = "sent"

(* d is on the way to a reader whose latest transcript is n: the transcripts  *)
(* in it are later ones, in order.                                          *)
Relays(d, n, f) ==
    /\ d \in Seq(Nat) /\ n \in Nat
    /\ n # 0 => Gone(n, f)
    /\ \A i \in DOMAIN d : d[i] # Speech => n < d[i] /\ Gone(d[i], f)
    /\ \A i, j \in DOMAIN d : i < j /\ d[j] # Speech => d[i] < d[j]

(* The reader has ended before the phone leaves the call.                   *)
Left == Over => reader \in Phone!ReaderOver

LEMMA RelaysLater ==
    ASSUME NEW d, NEW n, NEW f, NEW g, Relays(d, n, f),
           \A x \in Serving!Chunks : f[x] = "sent" => g[x] = "sent"
    PROVE  Relays(d, n, g)
BY DEF Relays, Gone

LEMMA RelaysCut ==
    ASSUME NEW d, NEW n, NEW f, Relays(d, n, f), NEW m \in 0..Len(d)
    PROVE  Relays(SubSeq(d, 1, m), n, f)
<1> DEFINE p == SubSeq(d, 1, m)
<1>1. /\ p \in Seq(Nat) /\ DOMAIN p = 1..m /\ DOMAIN d = 1..Len(d) /\ Len(d) \in Nat
      /\ \A i \in 1..m : p[i] = d[i]
    BY DEF Relays
<1> HIDE DEF p
<1>2. \A i \in DOMAIN p : i \in DOMAIN d /\ p[i] = d[i]
    BY <1>1
<1>3. Relays(p, n, f)
    BY <1>1, <1>2 DEF Relays
<1> QED
    BY <1>3 DEF p

(* Taking the first message, which may be a transcript.                     *)
LEMMA RelaysTail ==
    ASSUME NEW d, NEW n, NEW f, Relays(d, n, f), d # <<>>
    PROVE  /\ Relays(Tail(d), n, f)
           /\ Head(d) # Speech => /\ n < Head(d) /\ Gone(Head(d), f)
                                  /\ Relays(Tail(d), Head(d), f)
<1> DEFINE p == Tail(d)
<1>1. /\ p \in Seq(Nat) /\ Head(d) = d[1] /\ 1 \in DOMAIN d /\ d[1] \in Nat
      /\ \A i \in DOMAIN p : i \in Nat \ {0} /\ i + 1 \in DOMAIN d /\ p[i] = d[i + 1]
    BY DEF Relays
<1> HIDE DEF p
<1>2. Relays(p, n, f)
  <2>1. \A i, j \in Nat : i < j => i + 1 < j + 1
      OBVIOUS
  <2> QED
      BY <1>1, <2>1 DEF Relays
<1>3. ASSUME Head(d) # Speech
      PROVE  n < Head(d) /\ Gone(Head(d), f) /\ Relays(p, Head(d), f)
  <2>1. \A i \in DOMAIN p : p[i] # Speech => d[1] < p[i]
    <3>1. \A i \in Nat \ {0} : 1 < i + 1
        OBVIOUS
    <3> QED
        BY <1>1, <3>1 DEF Relays
  <2>2. n < d[1] /\ Gone(d[1], f)
      BY <1>1, <1>3 DEF Relays
  <2> QED
      BY <1>1, <1>2, <2>1, <2>2 DEF Relays
<1> QED
    BY <1>2, <1>3 DEF p

LEMMA RelaysAppend ==
    ASSUME NEW d, NEW n, NEW f, Relays(d, n, f), NEW e \in Nat,
           e # Speech => /\ n < e /\ Gone(e, f)
                         /\ \A i \in DOMAIN d : d[i] < e
    PROVE  Relays(Append(d, e), n, f)
<1> DEFINE p == Append(d, e)
<1>1. /\ p \in Seq(Nat) /\ DOMAIN p = DOMAIN d \cup {Len(d) + 1}
      /\ \A i \in DOMAIN d : p[i] = d[i]
      /\ p[Len(d) + 1] = e
      /\ DOMAIN d = 1..Len(d) /\ Len(d) \in Nat
    BY DEF Relays
<1> HIDE DEF p
<1>2. \A i, j \in DOMAIN p : i < j => i \in DOMAIN d
    BY <1>1
<1>3. Relays(p, n, f)
    BY <1>1, <1>2 DEF Relays
<1> QED
    BY <1>3 DEF p

(* What was sent stays sent.                                                *)
LEMMA StaysSent ==
    ASSUME Serving!IInv, Serving!SentAhead, [Serving!Next]_srvrs
    PROVE  \A x \in Serving!Chunks : fate[x] = "sent" => fate'[x] = "sent"
<1>1. Serving!Shape /\ [Serving!Next]_(Serving!vars)
    BY DEF Serving!IInv, Serving!Shape, Serving!vars, srvrs
<1>2. CASE Serving!RunCallback
  <2>1. SUFFICES ASSUME NEW x \in Serving!Chunks, fate[x] = "sent", fate'[x] # "sent"
                 PROVE  FALSE
      OBVIOUS
  <2>2. /\ ready[1].kind = "send" /\ ready[1].n = x /\ 1 \in DOMAIN ready
      BY <1>1, <1>2, <2>1, ServerAssumption, Serving!CallbackSteps
  <2>3. x \in Nat \ {0}
      BY ServerAssumption DEF Serving!Chunks
  <2>4. x < x
      BY <2>1, <2>2, <2>3 DEF Serving!SentAhead, Serving!AheadIn, Serving!Sends
  <2> QED
      BY <2>3, <2>4
<1>3. CASE Serving!Emit
    BY <1>1, <1>3, ServerAssumption, Serving!EmitFate
<1> QED
    BY <1>1, <1>2, <1>3, ServerAssumption, Serving!ReadySteps DEF Serving!Unfinished

(* A send that the loop runs on the open connection is the latest, and it is  *)
(* sent.                                                                    *)
LEMMA SendRuns ==
    ASSUME Serving!IInv, Serving!SentAhead, Server!RunCallback,
           Head(ready).kind = "send", Open = "open"
    PROVE  /\ Head(ready).n \in Nat
           /\ Head(ready).n # Speech => Gone(Head(ready).n, fate')
           /\ Head(ready).n # Speech =>
                 \A x \in Serving!Chunks : fate[x] = "sent" => x < Head(ready).n
<1> DEFINE cb == ready[1]
<1>1. Serving!Shape /\ Serving!RunCallback
    BY SameServer DEF Serving!IInv, Serving!Shape
<1>2. /\ Head(ready) = cb /\ cb \in Serving!Callbacks /\ 1 \in DOMAIN ready
      /\ cb.n = 0 \/ /\ cb.n \in Serving!Chunks
                     /\ fate'[cb.n] = IF sock[cb.conn] = "open" THEN "sent" ELSE "lost"
    BY <1>1, ServerAssumption, Serving!CallbackSteps
<1>3. Serving!Chunks \subseteq Nat \ {0}
    BY ServerAssumption DEF Serving!Chunks
<1>4. cb.conn \in {Conn, NoConn} /\ cb.kind = "send"
    BY <1>2 DEF Serving!Callbacks
<1>5. ASSUME cb.n # 0
      PROVE  cb.conn = Conn /\ \A x \in Serving!Chunks : fate[x] = "sent" => x < cb.n
    BY <1>2, <1>4, <1>5 DEF Serving!SentAhead, Serving!AheadIn, Serving!Sends
<1>6. ASSUME cb.n # 0
      PROVE  Gone(cb.n, fate')
    BY <1>2, <1>5, <1>6 DEF Gone, Open
<1>7. cb.n \in Nat
  <2>1. CASE cb.n = 0
      BY <2>1
  <2>2. CASE cb.n \in Serving!Chunks
      BY <2>2, <1>3
  <2> QED
      BY <1>2, <2>1, <2>2
<1> QED
    BY <1>2, <1>5, <1>6, <1>7 DEF Speech

(* The invariant the refinement rests on, besides those of the machines.      *)
BInv == heard \in Seq(Nat) /\ Relays(down, Seen!Latest, fate) /\ Left

LEMMA LatestHeard ==
    ASSUME heard \in Seq(Nat), NEW n \in Nat, heard' = Append(heard, n)
    PROVE  Seen!Latest' = n /\ heard' \in Seq(Nat)
BY DEF Seen!Latest

(* The reader does not outlive the call.                                    *)
LEMMA LeftStep ==
    ASSUME Left, [Phone!Next]_pvars
    PROVE  Left'
<1> USE DEF Left, Over, Phone!ReaderOver
<1>1. CASE Phone!Main
    BY <1>1 DEF Phone!Main, Phone!Connected, Phone!DialFails, Phone!StartPump, Phone!EnterLoop,
       Phone!Hangup, Phone!Flushed, Phone!FlushTimeout, Phone!Announce, Phone!EndSent,
       Phone!GraceOver, Phone!GraceTimeout, Phone!Close, Phone!back
<1>2. CASE Phone!Closed \/ Phone!SendAudio \/ Phone!PeerCloses \/ Phone!Finished
    BY <1>2 DEF Phone!Closed, Phone!SendAudio, Phone!PeerCloses, Phone!Finished, Phone!vars,
       Phone!back
<1>3. CASE Phone!Pump
    BY <1>3 DEF Phone!Pump, Phone!PumpTakes, Phone!PumpTicksOff, Phone!PumpUnwinds, Phone!back
<1>4. CASE Phone!Reader
    BY <1>4 DEF Phone!Reader, Phone!ReaderStarts, Phone!SpeechArrives, Phone!SpeechPlayed,
       Phone!TranscriptArrives, Phone!ReaderEnds
<1>5. ASSUME NEW w, Phone!GetsLock(w) \/ Phone!SpeakStarts(w) \/ Phone!SpeakSent(w)
      PROVE  Left'
    BY <1>5 DEF Phone!GetsLock, Phone!SpeakStarts, Phone!SpeakSent, Phone!back
<1>6. CASE UNCHANGED pvars
    BY <1>6 DEF pvars
<1> QED
    BY <1>1, <1>2, <1>3, <1>4, <1>5, <1>6 DEF Phone!Next

LEMMA BInvStep ==
    ASSUME BInv, Serving!IInv, Serving!SentAhead, [Next]_vars
    PROVE  BInv'
<1>1. [Serving!Next]_srvrs /\ [Phone!Next]_pvars
    BY SameServer, ServerSteps, PhoneSteps
<1>2. Left'
    BY <1>1, LeftStep DEF BInv
<1>3. Relays(down, Seen!Latest, fate')
    BY <1>1, StaysSent, RelaysLater DEF BInv
<1>4. CASE LinkLost
  <2>1. /\ heard' = heard
        /\ \E n \in 0..Len(down) : down' = SubSeq(down, 1, n)
      BY <1>4 DEF LinkLost
  <2>2. Relays(down', Seen!Latest, fate')
      BY <1>3, <2>1, RelaysCut
  <2> QED
      BY <1>2, <2>1, <2>2 DEF BInv, Seen!Latest
<1>5. CASE HearsSpeech
  <2>1. heard' = heard /\ down # <<>> /\ down' = Tail(down)
      BY <1>5 DEF HearsSpeech, Takes
  <2>2. Relays(down', Seen!Latest, fate')
      BY <1>3, <2>1, RelaysTail
  <2> QED
      BY <1>2, <2>1, <2>2 DEF BInv, Seen!Latest
<1>6. CASE HearsText
  <2>1. /\ Head(down) # Speech /\ down # <<>> /\ down' = Tail(down)
        /\ heard' = Append(heard, Head(down))
      BY <1>6 DEF HearsText, Takes
  <2>2. Head(down) \in Nat /\ heard \in Seq(Nat)
      BY <2>1 DEF BInv, Relays
  <2>3. Seen!Latest' = Head(down) /\ heard' \in Seq(Nat)
      BY <2>1, <2>2, LatestHeard
  <2>4. Relays(down', Head(down), fate')
      BY <1>3, <2>1, RelaysTail
  <2> QED
      BY <1>2, <2>3, <2>4 DEF BInv
<1>7. CASE RunsCallback
  <2> DEFINE n == Head(ready).n
  <2>1. /\ Server!RunCallback /\ heard' = heard
        /\ \/ down' = down
           \/ Head(ready).kind = "send" /\ Open = "open" /\ down' = Append(down, n)
      BY <1>7 DEF RunsCallback
  <2>2. CASE down' = down
      BY <1>2, <1>3, <2>1, <2>2 DEF BInv, Seen!Latest
  <2>3. CASE Head(ready).kind = "send" /\ Open = "open" /\ down' = Append(down, n)
    <3>1. /\ n \in Nat
          /\ n # Speech => /\ Gone(n, fate')
                           /\ \A x \in Serving!Chunks : fate[x] = "sent" => x < n
        BY <2>1, <2>3, SendRuns
    <3> HIDE DEF n
    <3>2. ASSUME n # Speech
          PROVE  Seen!Latest < n /\ \A i \in DOMAIN down : down[i] < n
      <4>1. n \in Nat \ {0}
          BY <3>1, <3>2 DEF Speech
      <4>2. \A m \in Nat : (m # 0 => Gone(m, fate)) => m < n
          BY <3>1, <3>2, <4>1 DEF Gone
      <4>3. \A i \in DOMAIN down : down[i] \in Nat /\ (down[i] # 0 => Gone(down[i], fate))
          BY DEF BInv, Relays, Speech
      <4>4. Seen!Latest \in Nat /\ (Seen!Latest # 0 => Gone(Seen!Latest, fate))
          BY DEF BInv, Relays
      <4> QED
          BY <4>2, <4>3, <4>4
    <3>3. Relays(down', Seen!Latest, fate')
        BY <1>3, <2>3, <3>1, <3>2, RelaysAppend
    <3> QED
        BY <1>2, <2>1, <3>3 DEF BInv, Seen!Latest
  <2> QED
      BY <2>1, <2>2, <2>3
<1>8. CASE UNCHANGED <<down, heard>>
    BY <1>2, <1>3, <1>8 DEF BInv, Seen!Latest
<1>9. \/ LinkLost \/ HearsSpeech \/ HearsText \/ RunsCallback \/ UNCHANGED <<down, heard>>
    BY DEF Next, Connects, PhoneLearns, ServerLearns, PhoneOwn, CallerSpeaks, ReaderEnds,
       GraceTimeout, Reads, ServerOwn, DrainTimeout, Tick, Finished, vars, links
<1> QED
    BY <1>4, <1>5, <1>6, <1>7, <1>8, <1>9

-----------------------------------------------------------------------------
(* Every step of Bridge is a step of Conversation or a stutter.              *)
Phase == IF main \in TalkingAt THEN "talking"
         ELSE IF main \in HungUpAt THEN "hungup" ELSE "over"

(* A call is hung up, and after that left.                                  *)
LEMMA PhaseSteps ==
    ASSUME [Phone!Next]_pvars
    PROVE  \/ Phase' = Phase
           \/ Phase = "talking" /\ Phase' = "hungup"
           \/ Phase = "hungup" /\ Phase' = "over"
<1> USE DEF Phase, TalkingAt, HungUpAt
<1>1. CASE Phone!Main
    BY <1>1 DEF Phone!Main, Phone!Connected, Phone!DialFails, Phone!StartPump, Phone!EnterLoop,
       Phone!Hangup, Phone!Flushed, Phone!FlushTimeout, Phone!Announce, Phone!EndSent,
       Phone!GraceOver, Phone!GraceTimeout, Phone!Close
<1>2. CASE Phone!Closed
    BY <1>2 DEF Phone!Closed
<1>3. main' = main => Phase' = Phase
    OBVIOUS
<1>4. CASE Phone!SendAudio \/ Phone!PeerCloses \/ Phone!Finished \/ Phone!Pump \/ Phone!Reader
    BY <1>3, <1>4 DEF Phone!SendAudio, Phone!PeerCloses, Phone!Finished, Phone!vars,
       Phone!Pump, Phone!PumpTakes, Phone!PumpTicksOff, Phone!PumpUnwinds,
       Phone!Reader, Phone!ReaderStarts, Phone!SpeechArrives, Phone!SpeechPlayed,
       Phone!TranscriptArrives, Phone!ReaderEnds
<1>5. ASSUME NEW w, Phone!GetsLock(w) \/ Phone!SpeakStarts(w) \/ Phone!SpeakSent(w)
      PROVE  Phase' = Phase
    BY <1>3, <1>5 DEF Phone!GetsLock, Phone!SpeakStarts, Phone!SpeakSent
<1>6. CASE UNCHANGED pvars
    BY <1>3, <1>6 DEF pvars
<1> QED
    BY <1>1, <1>2, <1>4, <1>5, <1>6 DEF Phone!Next

(* Utterances are cut one at a time.                                        *)
LEMMA MadeSteps ==
    ASSUME [Server!Next]_srvrs
    PROVE  made' = made \/ made' = made + 1
<1> USE DEF Server!cvars
<1>1. ASSUME NEW k \in {Conn}, Server!Handler(k)
      PROVE  made' = made \/ made' = made + 1
    BY <1>1 DEF Server!Handler, Server!MidCall, Server!Accept, Server!CallStart,
       Server!AudioAdopted, Server!AudioOpens, Server!AudioCloses, Server!WatchIdle,
       Server!QueueSpeech, Server!CallEnd, Server!EndOfStream, Server!EndCall, Server!Count,
       Server!DrainTimeout, Server!SocketCloses, Server!Put, Server!Check, Server!Leave,
       Server!Drop
<1>2. CASE Server!RunCallback
    BY <1>2 DEF Server!RunCallback
<1>3. CASE Server!WorkerStep \/ Server!Crash
    BY <1>3 DEF Server!WorkerStep, Server!Get, Server!Emit, Server!ChunkDone, Server!Notify,
       Server!Speak, Server!Crash
<1>4. CASE Server!BeginStop \/ Server!FinishStop \/ Server!Finished \/ UNCHANGED srvrs
    BY <1>4 DEF Server!BeginStop, Server!FinishStop, Server!Finished, Server!vars, srvrs
<1> QED
    BY <1>1, <1>2, <1>3, <1>4 DEF Server!Next

(* What the phone hears is heard during the call, and nothing else happens.   *)
LEMMA OneAtATime ==
    ASSUME [Next]_vars
    PROVE  \/ HearsText /\ main' = main /\ made' = made
           \/ heard' = heard /\ (made' = made \/ main' = main)
<1>1. CASE HearsText
    BY <1>1 DEF HearsText, Takes, srvrs, pvars, Phone!TranscriptArrives, Phone!ReaderEnds
<1>2. CASE Connects
    BY <1>2 DEF Connects, Server!Accept, Server!cvars, links
<1>3. CASE UNCHANGED <<srvrs, heard>> \/ UNCHANGED <<pvars, heard>>
    BY <1>3 DEF srvrs, pvars
<1>4. \/ HearsText \/ Connects
      \/ UNCHANGED <<srvrs, heard>> \/ UNCHANGED <<pvars, heard>>
    BY DEF Next, LinkLost, PhoneLearns, ServerLearns, PhoneOwn, CallerSpeaks, HearsSpeech,
       Takes, ReaderEnds, GraceTimeout, Reads, RunsCallback, ServerOwn, DrainTimeout, Tick,
       Finished, vars, links
<1> QED
    BY <1>1, <1>2, <1>3, <1>4

LEMMA ConversationSteps ==
    ASSUME BInv, Serving!IInv, Dialing!IInv, [Next]_vars
    PROVE  [Seen!Next]_(Seen!vars)
<1>m. main \in Phone!MainPC
    BY DEF Dialing!IInv, Dialing!TypeOK, Dialing!MainPC, Phone!MainPC
<1>1. CASE HearsText /\ main' = main /\ made' = made
  <2>1. /\ Head(down) # Speech /\ down # <<>> /\ reader = "recv"
        /\ heard' = Append(heard, Head(down))
      BY <1>1 DEF HearsText, Takes
  <2>2. Phase # "over"
      BY <1>m, <2>1 DEF BInv, Left, Over, Phone!ReaderOver, Phone!MainPC, Phase, TalkingAt,
         HungUpAt
  <2>3. Seen!Latest < Head(down) /\ Gone(Head(down), fate) /\ Seen!Latest \in Nat
      BY <2>1, RelaysTail DEF BInv, Relays
  <2>4. Head(down) \in Nat /\ made \in Nat /\ Head(down) <= made
      BY <2>3, ServerAssumption DEF Gone, Serving!IInv, Serving!TypeOK, Serving!Made,
         Serving!Chunks
  <2>5. Head(down) \in Seen!Latest + 1 .. made
      BY <2>3, <2>4
  <2>6. Seen!Hear
      BY <1>1, <2>1, <2>2, <2>5 DEF Seen!Hear, Phase
  <2> QED
      BY <2>6 DEF Seen!Next
<1>2. CASE heard' = heard /\ made' = made
  <2>1. \/ Phase' = Phase
        \/ Phase = "talking" /\ Phase' = "hungup"
        \/ Phase = "hungup" /\ Phase' = "over"
      BY PhoneSteps, PhaseSteps
  <2> QED
      BY <1>2, <2>1 DEF Phase, Seen!Next, Seen!HangUp, Seen!End, Seen!vars
<1>3. CASE heard' = heard /\ main' = main
  <2>1. made' = made \/ made' = made + 1
      BY ServerSteps, MadeSteps
  <2> QED
      BY <1>3, <2>1 DEF Seen!Next, Seen!Say, Seen!vars, TalkingAt, HungUpAt
<1> QED
    BY <1>1, <1>2, <1>3, OneAtATime

(* server.py:221-254, session.py:205-225: the phone hears the transcripts of   *)
(* its call in the order spoken, none twice and none after the call, whatever *)
(* both machines, the timers and the network do.                            *)
THEOREM ConversationHolds == Spec => ImplementsConversation
<1>1. Init => BInv /\ Seen!Init
  <2>1. Init => /\ heard = <<>> /\ down = <<>> /\ main = "dial" /\ made = 0
                /\ Seen!Latest = 0
      BY DEF Init, Phone!Init, Server!Init, Seen!Latest
  <2> QED
      BY <2>1 DEF BInv, Relays, Left, Over, Seen!Init, TalkingAt
<1>2. /\ BInv /\ Serving!IInv /\ Serving!SentAhead /\ [Next]_vars => BInv'
      /\ BInv /\ Serving!IInv /\ Dialing!IInv /\ [Next]_vars => [Seen!Next]_(Seen!vars)
    BY BInvStep, ConversationSteps
<1> QED
    BY <1>1, <1>2, ServerFacts, PhoneFacts, PTL DEF Spec, ImplementsConversation, Seen!Spec

-----------------------------------------------------------------------------
(* What the proof looks at of each machine, and what a step does to it.      *)

EndAt(i)    == i \in DOMAIN wire /\ wire[i].kind = "end"
EndOut      == \E i \in DOMAIN wire : EndAt(i)
EndRead     == \E i \in 1..rd : EndAt(i)
EndAhead(n) == \E i \in DOMAIN wire : rd < i /\ i - rd <= n /\ EndAt(i)

Ours == snd["main"]     \* the send of handle_call itself

(* The link is given up on a closed connection only.                         *)
KeepsLink == ws' = ws \/ (ws' = FALSE /\ conn = "closed")

WiresOther == \E m \in Phone!Msgs : /\ m.kind \notin {"start", "end"}
                                    /\ wire' = Append(wire, m)
WiresEnd   == wire' = Append(wire, Phone!Text("end"))

(* The pump, the replies and the lock.                                       *)
Writes ==
    /\ main' = main /\ conn' = conn /\ reader' = reader /\ KeepsLink
    /\ \/ Ours' = Ours /\ (wire' = wire \/ (conn = "open" /\ WiresOther))
       \/ Ours = "queued" /\ Ours' = "written" /\ main = "announce" /\ WiresEnd

EntersLoop ==
    /\ main \in {"dial", "start"} /\ main' = "loop" /\ reader' = "created"
    /\ conn' = conn /\ KeepsLink /\ wire' = wire

HangsUp ==
    /\ main \in {"loop", "flush"} /\ ws' = ws /\ conn' = conn /\ reader' = reader
    /\ \/ main' = "flush" /\ wire' = wire
       \/ main' = "grace" /\ ~ws /\ wire' = wire
       \/ main' = "announce" /\ Ours' = "queued" /\ wire' = wire
       \/ main' = "announce" /\ Ours' = "written" /\ WiresEnd

EndsAnnounce ==
    /\ main = "announce" /\ main' = "grace"
    /\ conn' = conn /\ reader' = reader /\ wire' = wire
    /\ \/ Ours = "written" /\ ws' = ws
       \/ ws' = FALSE /\ KeepsLink

Leaves ==
    /\ main = "grace" /\ conn' = conn /\ wire' = wire
    /\ \/ ws /\ main' = "closing" /\ ws' = FALSE
       \/ ~ws /\ main' = "done" /\ ws' = ws

LeavesLater ==
    /\ Leaves /\ reader \in Phone!ReaderOver /\ reader' = reader

Closes ==
    /\ main = "closing" /\ main' = "done" /\ conn' = "closed"
    /\ ws' = ws /\ wire' = wire /\ reader' = reader

Reading ==
    /\ main' = main /\ ws' = ws /\ conn' = conn /\ wire' = wire /\ Ours' = Ours
    /\ \/ reader' = reader
       \/ reader = "created" /\ reader' = IF ws THEN "recv" ELSE "absent"
       \/ reader = "playing" /\ reader' = "recv"

LEMMA PhoneShape ==
    ASSUME Dialing!IInv
    PROVE  /\ main \in Phone!MainPC /\ reader \in Phone!ReaderPC
           /\ conn \in {"none", "open", "closed"} /\ ws \in BOOLEAN
           /\ wire \in Seq(Phone!Msgs)
           /\ snd \in [Phone!Writers -> {"no", "queued", "written"}]
           /\ main \notin {"start", "announce"} => Ours = "no"
           /\ main = "start" => Ours = "written"
BY DEF Dialing!IInv, Dialing!TypeOK, Dialing!MainPC, Phone!MainPC, Dialing!ReaderPC,
   Phone!ReaderPC, Dialing!Msgs, Phone!Msgs, Dialing!Frames, Phone!Frames, Dialing!Writers,
   Phone!Writers, Dialing!Senders, Ours

(* A send other than handle_call's own.                                      *)
LEMMA OtherPosts ==
    ASSUME Dialing!IInv, NEW w \in Phone!Writers \ {"main"}, NEW m \in Phone!Msgs,
           m.kind \notin {"start", "end"}, Phone!Posts(w, m)
    PROVE  Ours' = Ours /\ (wire' = wire \/ (conn = "open" /\ WiresOther))
<1>1. "main" \in Phone!Writers
    BY DEF Phone!Writers
<1>2. Ours' = Ours
    BY <1>1, PhoneShape DEF Phone!Posts, Ours
<1>3. wire' = wire \/ (conn = "open" /\ wire' = Append(wire, m))
    BY DEF Phone!Posts
<1> QED
    BY <1>2, <1>3 DEF WiresOther

LEMMA PhoneActs ==
    ASSUME Dialing!IInv, PhoneOwn \/ CallerSpeaks
    PROVE  \/ Writes \/ EntersLoop \/ HangsUp \/ EndsAnnounce \/ LeavesLater \/ Closes
           \/ Reading
<1>s. /\ main \in Phone!MainPC /\ reader \in Phone!ReaderPC
      /\ conn \in {"none", "open", "closed"} /\ ws \in BOOLEAN
      /\ snd \in [Phone!Writers -> {"no", "queued", "written"}]
      /\ main \notin {"start", "announce"} => Ours = "no"
      /\ main = "start" => Ours = "written"
    BY PhoneShape
<1>w. "main" \in Phone!Writers /\ "pump" \in Phone!Writers /\ "pump" # "main"
    BY DEF Phone!Writers
<1>r. \A r \in Replies : r \in Phone!Writers \ {"main"}
    BY PhoneAssumption DEF Phone!Writers
<1>1. CASE CallerSpeaks
    BY <1>1 DEF CallerSpeaks, Phone!SendAudio, Phone!back, Reading, Ours
<1>2. CASE Phone!ReaderStarts \/ Phone!SpeechPlayed
    BY <1>2 DEF Phone!ReaderStarts, Phone!SpeechPlayed, Reading, Ours
<1>3. CASE (Phone!StartPump \/ Phone!EndSent) /\ FailsOnClosed
  <2>1. CASE Phone!StartPump /\ FailsOnClosed
      BY <1>s, <2>1 DEF Phone!StartPump, FailsOnClosed, Phone!TextSent, Phone!EnterLoop,
         EntersLoop, KeepsLink
  <2>2. CASE Phone!EndSent /\ FailsOnClosed
      BY <1>s, <2>2 DEF Phone!EndSent, FailsOnClosed, Phone!TextSent, Phone!Returns,
         Phone!back, EndsAnnounce, KeepsLink, Ours
  <2> QED
      BY <1>3, <2>1, <2>2
<1>4. CASE Phone!DialFails
    BY <1>4 DEF Phone!DialFails, Phone!EnterLoop, EntersLoop, KeepsLink
<1>5. CASE Phone!Hangup \/ Phone!Flushed
  <2>1. main \in {"loop", "flush"} /\ Ours = "no"
      BY <1>5, <1>s DEF Phone!Hangup, Phone!Flushed
  <2>2. CASE main' = "flush" /\ UNCHANGED <<ws, conn, snd, wire, reader>>
      BY <2>1, <2>2 DEF HangsUp
  <2>3. CASE Phone!Announce
    <3>1. CASE ws
        BY <1>s, <1>w, <2>1, <2>3, <3>1 DEF Phone!Announce, HangsUp, WiresEnd, Ours, Phone!back
    <3>2. CASE ~ws
        BY <2>1, <2>3, <3>2 DEF Phone!Announce, HangsUp, Phone!back
    <3> QED
        BY <3>1, <3>2
  <2> QED
      BY <1>5, <2>2, <2>3 DEF Phone!Hangup, Phone!Flushed, Phone!back
<1>6. CASE Phone!GraceOver
    BY <1>6, <1>s DEF Phone!GraceOver, Phone!Close, Phone!back, LeavesLater, Leaves
<1>7. CASE Phone!Closed
    BY <1>7 DEF Phone!Closed, Phone!back, Closes
<1>8. CASE Phone!Pump
  <2>1. CASE Phone!PumpTakes
    <3>1. CASE ~ws
        BY <2>1, <3>1 DEF Phone!PumpTakes, Phone!back, Writes, KeepsLink, Ours
    <3>2. CASE ws
      <4>1. Phone!Posts("pump", Phone!Audio(hand')) /\ hand' = Head(outbox) /\ outbox # <<>>
          BY <2>1, <3>2 DEF Phone!PumpTakes
      <4>2. Phone!Audio(hand') \in Phone!Msgs /\ Phone!Audio(hand').kind = "audio"
        <5>1. hand' \in Phone!Frames
          <6>1. outbox \in Seq(Phone!Frames)
              BY DEF Dialing!IInv, Dialing!TypeOK, Dialing!Frames, Phone!Frames
          <6>2. hand' = outbox[1] /\ 1 \in DOMAIN outbox
              BY <4>1, <6>1
          <6> QED
              BY <6>1, <6>2
        <5> QED
            BY <5>1 DEF Phone!Audio, Phone!Msgs
      <4>3. Ours' = Ours /\ (wire' = wire \/ (conn = "open" /\ WiresOther))
          BY <1>w, <4>1, <4>2, OtherPosts
      <4> QED
          BY <2>1, <3>2, <4>3 DEF Phone!PumpTakes, Phone!back, Writes, KeepsLink
    <3> QED
        BY <3>1, <3>2, <1>s
  <2>2. CASE Phone!PumpTicksOff
      BY <1>s, <1>w, <2>2 DEF Phone!PumpTicksOff, Phone!Returns, Phone!Raises, Phone!back, Writes,
         KeepsLink, Ours
  <2>3. CASE Phone!PumpUnwinds
      BY <1>s, <1>w, <2>3 DEF Phone!PumpUnwinds, Phone!back, Writes, KeepsLink, Ours
  <2> QED
      BY <1>8, <2>1, <2>2, <2>3 DEF Phone!Pump
<1>9. ASSUME NEW w \in Phone!Writers, Phone!GetsLock(w)
      PROVE  Writes
  <2>1. /\ snd[w] = "queued" /\ conn = "open"
        /\ snd' = [snd EXCEPT ![w] = "written"]
        /\ wire' = Append(wire, Phone!Pending(w))
        /\ UNCHANGED <<main, ws, conn, reader>>
      BY <1>9 DEF Phone!GetsLock, Phone!back
  <2>2. CASE w = "main"
    <3>1. main = "announce"
        BY <1>s, <2>1, <2>2 DEF Ours
    <3>2. Phone!Pending(w) = Phone!Text("end")
        BY <2>2, <3>1, PhoneAssumption DEF Phone!Pending
    <3> QED
        BY <1>s, <1>w, <2>1, <2>2, <3>1, <3>2 DEF Writes, KeepsLink, WiresEnd, Ours
  <2>3. CASE w # "main"
    <3>1. Phone!Pending(w) \in Phone!Msgs /\ Phone!Pending(w).kind \in {"audio", "speak"}
      <4>1. CASE w = "pump"
        <5>1. hand \in Phone!Frames \cup {0}
            BY DEF Dialing!IInv, Dialing!TypeOK, Dialing!Frames, Phone!Frames
        <5>2. Phone!Pending(w) = Phone!Audio(hand)
            BY <4>1, PhoneAssumption DEF Phone!Pending
        <5> QED
            BY <5>1, <5>2 DEF Phone!Audio, Phone!Msgs
      <4>2. CASE w \in Replies
          BY <2>3, <4>2, PhoneAssumption DEF Phone!Pending, Phone!Text, Phone!Msgs
      <4> QED
          BY <2>3, <4>1, <4>2 DEF Phone!Writers
    <3>2. WiresOther /\ Ours' = Ours
        BY <1>s, <2>1, <2>3, <3>1 DEF WiresOther, Ours
    <3> QED
        BY <2>1, <3>2 DEF Writes, KeepsLink
  <2> QED
      BY <2>2, <2>3
<1>10. ASSUME NEW r \in Replies, Speaking(r)
       PROVE  Writes
  <2>1. CASE Phone!SpeakStarts(r)
    <3>1. CASE ~ws
        BY <2>1, <3>1 DEF Phone!SpeakStarts, Writes, KeepsLink, Ours
    <3>2. CASE ws
      <4>1. Phone!Posts(r, Phone!Text("speak"))
          BY <2>1, <3>2 DEF Phone!SpeakStarts
      <4>2. Phone!Text("speak") \in Phone!Msgs /\ Phone!Text("speak").kind = "speak"
          BY DEF Phone!Text, Phone!Msgs
      <4>3. Ours' = Ours /\ (wire' = wire \/ (conn = "open" /\ WiresOther))
          BY <1>r, <4>1, <4>2, OtherPosts
      <4> QED
          BY <2>1, <4>3 DEF Phone!SpeakStarts, Writes, KeepsLink
    <3> QED
        BY <3>1, <3>2, <1>s
  <2>2. CASE Phone!SpeakSent(r) /\ FailsOnClosed
    <3>1. /\ snd' = [snd EXCEPT ![r] = "no"]
          /\ ws' = ws \/ ws' = FALSE
          /\ UNCHANGED <<main, conn, wire, reader>>
        BY <2>2 DEF Phone!SpeakSent, Phone!TextSent, Phone!Returns, Phone!Raises, Phone!Expires
    <3>2. Ours' = Ours
        BY <1>s, <1>r, <1>w, <3>1 DEF Ours
    <3> QED
        BY <2>2, <3>1, <3>2 DEF FailsOnClosed, Writes, KeepsLink
  <2> QED
      BY <1>10, <2>1, <2>2 DEF Speaking
<1> QED
    BY <1>1, <1>2, <1>3, <1>4, <1>5, <1>6, <1>7, <1>8, <1>9, <1>10 DEF PhoneOwn

(* The handler takes a message.                                             *)
HandlerReads ==
    /\ At = "recv" /\ rd < Arrived /\ rd' = rd + 1
    /\ age' = [age EXCEPT !.up = OneLess(@)]
    /\ Message.kind # "end" => At' \in {"recv", "put"} /\ Open' = Open
    /\ Message.kind = "end" => \/ At' \in {"check", "putlast"} /\ Open' = Open
                               \/ At' = "closed" /\ Open' = "closed"

(* The handler, or what wakes it, on its way to the end of the call.         *)
HandlerMoves ==
    /\ stopping' = stopping
    /\ \/ At = "recv" /\ Open = "closed" /\ At' \in {"check", "putlast", "closed"}
       \/ At = "drop" /\ At' = "closed" /\ Open' = "closed"
       \/ /\ Open' = Open
          /\ \/ At' = At
             \/ At = "recv" /\ At' = "put"
             \/ At = "put" /\ At' = "recv"
             \/ At = "putlast" /\ At' = "check"
             \/ At = "check" /\ At' \in {"wait", "drop"}
             \/ At = "wait" /\ At' = "leave"
             \/ At = "leave" /\ At' = "drop"

LEMMA ServerShape ==
    ASSUME Serving!IInv
    PROVE  /\ hpc \in [{Conn} -> Server!HandlerPC]
           /\ sock \in [{Conn} -> {"new", "open", "closed"}]
           /\ call \in [{Conn} -> {CallId, NoCall}]
           /\ open \in [{Conn} -> BOOLEAN]
           /\ At \in Server!HandlerPC
           /\ fate \in [Serving!Chunks -> Serving!Fates]
           /\ made \in 0..MaxChunks
           /\ Serving!Chunks = 1..MaxChunks
BY DEF Serving!IInv, Serving!TypeOK, Serving!HandlerPC, Serving!MidStep, Server!HandlerPC,
   Server!MidStep, Serving!Chunks, At

LEMMA ReadsActs ==
    ASSUME Serving!IInv, Reads
    PROVE  HandlerReads /\ stopping' = stopping
<1> USE DEF At, Open
<1>s. /\ hpc \in [{Conn} -> Server!HandlerPC]
      /\ sock \in [{Conn} -> {"new", "open", "closed"}]
    BY ServerShape
<1>1. At = "recv" /\ rd < Arrived /\ rd' = rd + 1 /\ age' = [age EXCEPT !.up = OneLess(@)]
    BY DEF Reads, Server!Resumes
<1>2. CASE Message.kind = "end"
  <2>1. Server!CallEnd(Conn)
      BY <1>2 DEF Reads
  <2> QED
      BY <1>s, <1>1, <1>2, <2>1 DEF Server!CallEnd, Server!EndCall, Server!Count, HandlerReads
<1>3. CASE Message.kind # "end"
  <2>1. \/ Server!CallStart(Conn) \/ Server!AudioOpens(Conn) \/ Server!AudioCloses(Conn)
        \/ UNCHANGED srvrs \/ Server!QueueSpeech(Conn)
      BY <1>3 DEF Reads
  <2>2. /\ At' \in {"recv", "put"} /\ Open' = Open /\ stopping' = stopping
      BY <1>s, <1>1, <2>1 DEF Server!CallStart, Server!AudioOpens, Server!AudioCloses,
         Server!QueueSpeech, Server!Count, srvrs
  <2> QED
      BY <1>1, <1>3, <2>2 DEF HandlerReads
<1> QED
    BY <1>2, <1>3

LEMMA ServerActs ==
    ASSUME Serving!IInv, ServerOwn \/ DrainTimeout \/ RunsCallback
    PROVE  HandlerMoves
<1> USE DEF At, Open
<1>s. /\ hpc \in [{Conn} -> Server!HandlerPC]
      /\ sock \in [{Conn} -> {"new", "open", "closed"}]
    BY ServerShape
<1>1. CASE Server!Put(Conn) \/ Server!Check(Conn) \/ Server!Leave(Conn) \/ Server!DrainTimeout(Conn)
    BY <1>s, <1>1 DEF Server!Put, Server!Check, Server!Leave, Server!DrainTimeout, HandlerMoves
<1>2. CASE Server!Drop(Conn)
    BY <1>s, <1>2 DEF Server!Drop, HandlerMoves
<1>3. CASE Server!WatchIdle(Conn)
    BY <1>s, <1>3 DEF Server!WatchIdle, Server!Resumes, Server!Count, HandlerMoves
<1>4. CASE Server!EndOfStream(Conn)
    BY <1>s, <1>4 DEF Server!EndOfStream, Server!Resumes, Server!EndCall, Server!Count,
       HandlerMoves
<1>5. CASE Server!WorkerStep
    BY <1>5 DEF Server!WorkerStep, Server!Get, Server!Emit, Server!ChunkDone, Server!Notify,
       Server!Speak, Server!hvars, HandlerMoves
<1>6. CASE Server!RunCallback
  <2>1. stopping' = stopping /\ Open' = Open
      BY <1>6 DEF Server!RunCallback
  <2>2. \/ hpc' = hpc
        \/ hpc' = [k \in {Conn} |-> IF hpc[k] = "wait" /\ call[k] = Head(ready).call
                                        THEN "leave" ELSE hpc[k]]
      BY <1>6 DEF Server!RunCallback
  <2> QED
      BY <2>1, <2>2 DEF HandlerMoves
<1> QED
    BY <1>1, <1>2, <1>3, <1>4, <1>5, <1>6 DEF ServerOwn, Server!MidCall, DrainTimeout, RunsCallback

-----------------------------------------------------------------------------
(* What is on the wire stays there.                                         *)
LEMMA WireStep ==
    ASSUME Dialing!IInv, [Next]_vars
    PROVE  /\ wire \in Seq(Phone!Msgs)
           /\ \/ wire' = wire
              \/ WiresOther
              \/ WiresEnd
              \/ main = "dial" /\ conn = "none" /\ wire = <<>> /\ wire' = <<Phone!Text("start")>>
<1>s. wire \in Seq(Phone!Msgs)
    BY PhoneShape
<1>1. CASE Connects
  <2>1. main = "dial" /\ wire' = <<Phone!Text("start")>>
      BY <1>1 DEF Connects, Phone!Connected
  <2> QED
      BY <1>s, <2>1 DEF Dialing!IInv, Dialing!Links
<1>2. CASE PhoneOwn \/ CallerSpeaks
    BY <1>2, <1>s, PhoneActs DEF Writes, EntersLoop, HangsUp, EndsAnnounce, LeavesLater, Leaves,
       Closes, Reading
<1>3. CASE wire' = wire
    BY <1>3, <1>s
<1>4. \/ Connects \/ PhoneOwn \/ CallerSpeaks \/ wire' = wire
    BY DEF Next, LinkLost, PhoneLearns, Phone!PeerCloses, ServerLearns, HearsSpeech, HearsText,
       Takes, Phone!SpeechArrives, Phone!TranscriptArrives, Phone!ReaderEnds, ReaderEnds,
       GraceTimeout, Phone!GraceTimeout, Reads, RunsCallback, ServerOwn, DrainTimeout, Tick,
       Finished, vars, pvars
<1> QED
    BY <1>1, <1>2, <1>3, <1>4

LEMMA WireGrows ==
    ASSUME Dialing!IInv, [Next]_vars
    PROVE  /\ Len(wire) \in Nat /\ Len(wire') \in Nat /\ Len(wire) <= Len(wire')
           /\ DOMAIN wire = 1..Len(wire) /\ DOMAIN wire' = 1..Len(wire')
           /\ \A i \in DOMAIN wire : i \in DOMAIN wire' /\ wire'[i] = wire[i]
           /\ \A i \in DOMAIN wire' :
                 EndAt(i)' => EndAt(i) \/ (WiresEnd /\ i = Len(wire) + 1)
<1>s. wire \in Seq(Phone!Msgs)
    BY WireStep
<1>1. CASE wire' = wire
    BY <1>s, <1>1 DEF EndAt
<1>2. ASSUME NEW m \in Phone!Msgs, wire' = Append(wire, m), m.kind # "end" \/ WiresEnd
      PROVE  /\ Len(wire') = Len(wire) + 1 /\ DOMAIN wire = 1..Len(wire)
             /\ DOMAIN wire' = 1..(Len(wire) + 1)
             /\ \A i \in 1..Len(wire) : wire'[i] = wire[i]
             /\ \A i \in DOMAIN wire' :
                   EndAt(i)' => EndAt(i) \/ (WiresEnd /\ i = Len(wire) + 1)
  <2>1. /\ Len(wire') = Len(wire) + 1 /\ DOMAIN wire = 1..Len(wire)
        /\ DOMAIN wire' = 1..(Len(wire) + 1)
        /\ \A i \in 1..Len(wire) : wire'[i] = wire[i]
        /\ wire'[Len(wire) + 1] = m
      BY <1>s, <1>2
  <2> QED
      BY <1>s, <1>2, <2>1 DEF EndAt
<1>3. CASE WiresOther
    BY <1>s, <1>2, <1>3 DEF WiresOther
<1>4. CASE WiresEnd
  <2>1. Phone!Text("end") \in Phone!Msgs
      BY DEF Phone!Text, Phone!Msgs
  <2> QED
      BY <1>s, <1>2, <1>4, <2>1 DEF WiresEnd
<1>5. CASE wire = <<>> /\ wire' = <<Phone!Text("start")>>
    BY <1>5 DEF EndAt, Phone!Text
<1> QED
    BY <1>1, <1>3, <1>4, <1>5, WireStep

-----------------------------------------------------------------------------
(* The invariant, part by part.                                             *)

(* What is under way, the clocks, and the beginning of the call.             *)
Basic ==
    /\ rd \in Nat /\ cut \in Nat /\ rd <= Len(wire) /\ cut <= Len(wire)
    /\ age \in Ages /\ drainRan \in 0..Drain /\ graceRan \in Nat
    /\ stopping = "no"
    /\ conn = "none" <=> At = "new"
    /\ conn = "none" => reader \in {"none", "created", "absent"} /\ graceRan = 0
    /\ graceRan # 0 => main \in {"grace", "closing", "done"}

LEMMA BasicStep ==
    ASSUME Basic, Dialing!IInv, Serving!IInv, [Next]_vars
    PROVE  Basic'
<1> USE DEF Basic
<1>s. /\ main \in Phone!MainPC /\ reader \in Phone!ReaderPC
      /\ conn \in {"none", "open", "closed"} /\ ws \in BOOLEAN
      /\ ws => conn # "none"
      /\ main = "dial" => conn = "none" /\ reader = "none"
      /\ main = "closing" => conn # "none"
    BY PhoneShape DEF Dialing!IInv, Dialing!Links
<1>w. Len(wire) \in Nat /\ Len(wire') \in Nat /\ Len(wire) <= Len(wire')
    BY WireGrows
<1>o. \A n \in Nat : OneLess(n) \in Nat
    BY DEF OneLess
<1>t. Drain \in Nat /\ Grace \in Nat /\ Drain + 2 < Grace
    BY TimersAssumption
<1>1. CASE Connects
  <2>1. /\ conn' = "open" /\ At' = "recv" /\ main = "dial" /\ main' = "start"
        /\ stopping' = stopping
        /\ UNCHANGED <<links, clock>>
      BY <1>1, ServerShape DEF Connects, Phone!Connected, Server!Accept, At
  <2> QED
      BY <1>s, <1>w, <2>1 DEF links, clock
<1>2. CASE PhoneLearns
    BY <1>2, <1>s, <1>w DEF PhoneLearns, Phone!PeerCloses, Phone!back, srvrs, links, clock, At
<1>3. CASE LinkLost
    BY <1>3, <1>s, <1>w DEF LinkLost, pvars, srvrs, clock, At
<1>4. CASE ServerLearns
  <2>1. /\ At' = At /\ stopping' = stopping
        /\ UNCHANGED <<pvars, links, clock>>
      BY <1>4 DEF ServerLearns, Server!SocketCloses, At
  <2> QED
      BY <2>1 DEF pvars, links, clock
<1>5. CASE PhoneOwn \/ CallerSpeaks
  <2>1. UNCHANGED <<srvrs, links, clock>>
      BY <1>5 DEF PhoneOwn, CallerSpeaks
  <2>2. /\ rd' = rd /\ cut' = cut /\ age' = age /\ drainRan' = drainRan
        /\ graceRan' = graceRan /\ stopping' = stopping /\ At' = At
      BY <2>1 DEF srvrs, links, clock, At
  <2>3. /\ conn' = "none" <=> conn = "none"
        /\ conn' = "none" => reader' \in {"none", "created", "absent"}
        /\ main' = main \/ main' \in {"grace", "closing", "done"} \/ graceRan = 0
      BY <1>5, <1>s, PhoneActs DEF Writes, EntersLoop, HangsUp, EndsAnnounce, LeavesLater, Leaves,
         Closes, Reading
  <2> QED
      BY <1>w, <2>2, <2>3
<1>6. CASE GraceTimeout
  <2>1. /\ UNCHANGED <<srvrs, links, clock, conn>> /\ graceRan = Grace
        /\ main = "grace" /\ main' \in {"closing", "done"}
      BY <1>6 DEF GraceTimeout, Phone!GraceTimeout, Phone!Close
  <2>2. conn # "none"
      BY <1>t, <2>1
  <2> QED
      BY <1>w, <2>1, <2>2 DEF srvrs, links, clock, At
<1>7. CASE HearsSpeech \/ HearsText \/ ReaderEnds
  <2>1. /\ reader = "recv" /\ conn' = conn /\ main' = main
        /\ UNCHANGED <<srvrs, rd, lost, cut, drainRan, graceRan>>
        /\ age' = age \/ age' = [age EXCEPT !.down = OneLess(@)]
      BY <1>7 DEF HearsSpeech, HearsText, ReaderEnds, Takes, Phone!SpeechArrives,
         Phone!TranscriptArrives, Phone!ReaderEnds, pvars, links, clock
  <2>2. age' \in Ages
      BY <1>o, <2>1 DEF Ages
  <2> QED
      BY <1>w, <2>1, <2>2 DEF srvrs, At
<1>8. CASE Reads
  <2>1. /\ HandlerReads /\ stopping' = stopping
        /\ UNCHANGED <<pvars, down, heard, lost, cut, drainRan, graceRan>>
      BY <1>8, ReadsActs DEF Reads
  <2>2. At' # "new" /\ At # "new"
      BY <2>1 DEF HandlerReads
  <2>3. age' \in Ages
      BY <1>o, <2>1 DEF Ages, HandlerReads
  <2>4. rd' \in Nat /\ rd' <= Len(wire)
      BY <1>w, <2>1 DEF HandlerReads, Arrived
  <2> QED
      BY <2>1, <2>2, <2>3, <2>4 DEF pvars
<1>9. CASE ServerOwn \/ DrainTimeout \/ RunsCallback
  <2>1. /\ HandlerMoves
        /\ UNCHANGED <<pvars, rd, cut, clock>>
      BY <1>9, ServerActs DEF ServerOwn, DrainTimeout, RunsCallback, links
  <2>2. At' = "new" <=> At = "new"
      BY <2>1 DEF HandlerMoves
  <2> QED
      BY <2>1, <2>2 DEF HandlerMoves, pvars, clock
<1>10. CASE Tick
  <2>1. /\ UNCHANGED <<pvars, srvrs, links>>
        /\ age' = [up |-> Len(wire) - rd, down |-> Len(down),
                   close |-> ~lost /\ {Open, conn} = {"open", "closed"}]
        /\ graceRan' = IF main = "grace" THEN graceRan + 1 ELSE graceRan
        /\ drainRan' = IF At = "wait" THEN drainRan + 1 ELSE drainRan
      BY <1>10 DEF Tick
  <2>2. /\ At = "wait" => drainRan < Drain
        /\ main = "grace" => reader \in {"recv", "playing"}
      BY <1>10 DEF Tick, ServerIdle, PhoneIdle
  <2>3. drainRan' \in 0..Drain /\ graceRan' \in Nat
      BY <1>t, <2>1, <2>2
  <2>4. age' \in Ages
      BY <1>w, <2>1 DEF Ages
  <2> QED
      BY <2>1, <2>2, <2>3, <2>4 DEF pvars, srvrs, links, At
<1>11. CASE UNCHANGED vars
    BY <1>11 DEF vars, pvars, srvrs, links, clock, At
<1> QED
    BY <1>1, <1>2, <1>3, <1>4, <1>5, <1>6, <1>7, <1>8, <1>9, <1>10, <1>11 DEF Next, Finished
-----------------------------------------------------------------------------
(* What a step is for handle_call.                                           *)
LEMMA CallMoves ==
    ASSUME Dialing!IInv, [Next]_vars
    PROVE  \/ /\ main = "dial" /\ main' = "start" /\ ws' = TRUE /\ conn' = "open"
              /\ wire = <<>> /\ wire' = <<Phone!Text("start")>>
           \/ conn' = "closed" /\ UNCHANGED <<main, ws, wire, snd>>
           \/ Writes \/ EntersLoop \/ HangsUp \/ EndsAnnounce \/ Leaves \/ Closes
           \/ UNCHANGED <<main, ws, conn, wire>> /\ Ours' = Ours
<1>1. CASE Connects
    BY <1>1 DEF Connects, Phone!Connected, Dialing!IInv, Dialing!Links
<1>2. CASE PhoneOwn \/ CallerSpeaks
    BY <1>2, PhoneActs DEF LeavesLater, Reading
<1>3. CASE PhoneLearns
    BY <1>3 DEF PhoneLearns, Phone!PeerCloses
<1>4. CASE GraceTimeout
  <2>1. ws \in BOOLEAN
      BY PhoneShape
  <2> QED
      BY <1>4, <2>1 DEF GraceTimeout, Phone!GraceTimeout, Phone!Close, Leaves
<1>5. CASE UNCHANGED <<main, ws, conn, wire, snd>>
    BY <1>5 DEF Ours
<1>6. \/ Connects \/ PhoneOwn \/ CallerSpeaks \/ PhoneLearns \/ GraceTimeout
      \/ UNCHANGED <<main, ws, conn, wire, snd>>
    BY DEF Next, LinkLost, ServerLearns, HearsSpeech, HearsText, Takes, Phone!SpeechArrives,
       Phone!TranscriptArrives, Phone!ReaderEnds, ReaderEnds, Reads, RunsCallback, ServerOwn,
       DrainTimeout, Tick, Finished, vars, pvars
<1> QED
    BY <1>1, <1>2, <1>3, <1>4, <1>5, <1>6

(* call_end: written once, and on its way before the grace begins.           *)
Announced ==
    /\ main = "announce" /\ Ours = "written" => EndOut
    /\ main = "announce" /\ Ours = "queued" => ~EndOut
    /\ main = "grace" /\ conn = "open" => EndOut
    /\ conn = "open" /\ ~Over => ws
    /\ \A i, j \in DOMAIN wire : EndAt(i) /\ EndAt(j) => i = j

LEMMA AnnouncedStep ==
    ASSUME Announced, Dialing!IInv, [Next]_vars
    PROVE  Announced'
<1> USE DEF Announced
<1>s. /\ main \in Phone!MainPC /\ ws \in BOOLEAN
      /\ main \notin {"start", "announce"} => Ours = "no"
    BY PhoneShape
<1>e. /\ EndOut => EndOut'
      /\ EndOut' => EndOut \/ WiresEnd
      /\ WiresEnd => EndOut'
  <2>1. WiresEnd => /\ Len(wire) + 1 \in DOMAIN wire'
                    /\ wire'[Len(wire) + 1].kind = "end"
    <3>1. wire \in Seq(Phone!Msgs) /\ Phone!Text("end") \in Phone!Msgs
        BY WireStep DEF Phone!Text, Phone!Msgs
    <3> QED
        BY <3>1 DEF WiresEnd, Phone!Text
  <2> QED
      BY <2>1, WireGrows DEF EndOut, EndAt
<1>b. EndOut => main \in {"announce", "grace", "closing", "done"}
  <2>1. EndOut => Dialing!EndWritten
    <3>1. wire \in Seq(Phone!Msgs)
        BY WireStep
    <3> QED
        BY <3>1 DEF EndOut, EndAt, Dialing!EndWritten
  <2> QED
      BY <2>1 DEF Dialing!IInv, Dialing!Framed, Dialing!Gone
<1>o. WiresOther \/ wire' = wire => ~WiresEnd
  <2>1. wire \in Seq(Phone!Msgs) /\ Phone!Text("end") \in Phone!Msgs
        /\ Phone!Text("end").kind = "end"
      BY WireStep DEF Phone!Text, Phone!Msgs
  <2>2. ASSUME NEW m \in Phone!Msgs, m.kind # "end", NEW e \in Phone!Msgs, e.kind = "end"
        PROVE  Append(wire, m) # Append(wire, e) /\ wire # Append(wire, e)
    <3>1. /\ Append(wire, m)[Len(wire) + 1] = m /\ Append(wire, e)[Len(wire) + 1] = e
          /\ Len(Append(wire, e)) = Len(wire) + 1 /\ Len(wire) \in Nat
        BY <2>1
    <3> QED
        BY <2>2, <3>1
  <2>3. wire # Append(wire, Phone!Text("end"))
    <3>1. Len(Append(wire, Phone!Text("end"))) = Len(wire) + 1 /\ Len(wire) \in Nat
        BY <2>1
    <3> QED
        BY <3>1
  <2> QED
      BY <2>1, <2>2, <2>3 DEF WiresOther, WiresEnd
<1>u. (WiresEnd => ~EndOut) => \A i, j \in DOMAIN wire' : EndAt(i)' /\ EndAt(j)' => i = j
  <2>1. SUFFICES ASSUME WiresEnd => ~EndOut,
                        NEW i \in DOMAIN wire', NEW j \in DOMAIN wire', EndAt(i)', EndAt(j)'
                 PROVE  i = j
      OBVIOUS
  <2>2. /\ EndAt(i) \/ (WiresEnd /\ i = Len(wire) + 1)
        /\ EndAt(j) \/ (WiresEnd /\ j = Len(wire) + 1)
      BY <2>1, WireGrows
  <2>3. /\ EndAt(i) => i \in DOMAIN wire /\ EndOut
        /\ EndAt(j) => j \in DOMAIN wire /\ EndOut
      BY DEF EndAt, EndOut
  <2> QED
      BY <2>1, <2>2, <2>3
<1>1. CASE /\ main = "dial" /\ main' = "start" /\ ws' = TRUE /\ conn' = "open"
           /\ wire = <<>> /\ wire' = <<Phone!Text("start")>>
  <2>1. \A i : ~EndAt(i)'
      BY <1>1 DEF EndAt, Phone!Text
  <2> QED
      BY <1>1, <2>1
<1>2. CASE conn' = "closed" /\ UNCHANGED <<main, ws, wire, snd>>
    BY <1>2, <1>e, <1>o, <1>u DEF Ours
<1>3. CASE Writes
    BY <1>3, <1>s, <1>e, <1>o, <1>u DEF Writes, KeepsLink, Over
<1>4. CASE EntersLoop
    BY <1>4, <1>e, <1>o, <1>u DEF EntersLoop, KeepsLink, Over
<1>5. CASE HangsUp
    BY <1>5, <1>s, <1>b, <1>e, <1>o, <1>u DEF HangsUp, Over
<1>6. CASE EndsAnnounce
    BY <1>6, <1>s, <1>e, <1>o, <1>u DEF EndsAnnounce, KeepsLink, Over
<1>7. CASE Leaves
    BY <1>7, <1>e, <1>o, <1>u DEF Leaves, Over
<1>8. CASE Closes
    BY <1>8, <1>e, <1>o, <1>u DEF Closes, Over
<1>9. CASE UNCHANGED <<main, ws, conn, wire>> /\ Ours' = Ours
    BY <1>9, <1>e, <1>o, <1>u DEF Over
<1> QED
    BY <1>1, <1>2, <1>3, <1>4, <1>5, <1>6, <1>7, <1>8, <1>9, CallMoves
-----------------------------------------------------------------------------
(* The server's part: what it owes its call when the handler is about to     *)
(* return.                                                                  *)
Served ==
    /\ call[Conn] = NoCall => made = 0
    /\ Meter => made = 0 /\ ~open[Conn]
    /\ At \in {"drop", "closed"} => CallId \in gaveUp \/ Serving!Owed(CallId) = {}

LEMMA HandlerEnds ==
    ASSUME Serving!IInv, [Server!Next]_srvrs
    PROVE  /\ gaveUp \subseteq gaveUp'
           /\ At' \in {"drop", "closed"} =>
                \/ At \in {"drop", "closed", "leave"}
                \/ At = "check" /\ (Meter \/ pending[CallId] = 0)
                \/ At = "recv" /\ call[Conn] = NoCall
           /\ Meter /\ ~open[Conn] => ~open'[Conn] /\ made' = made
<1> USE DEF At
<1>s. /\ hpc \in [{Conn} -> Server!HandlerPC]
      /\ open \in [{Conn} -> BOOLEAN]
      /\ call \in [{Conn} -> {CallId, NoCall}]
      /\ hpc[Conn] \in {"check", "putlast", "put"} => call[Conn] = CallId
    BY ServerShape DEF Serving!IInv, Serving!Handlers, Serving!Ending
<1>1. CASE \/ Server!Accept(Conn) \/ Server!CallStart(Conn) \/ Server!AudioAdopted(Conn)
           \/ Server!AudioOpens(Conn) \/ Server!QueueSpeech(Conn)
    BY <1>s, <1>1 DEF Server!Accept, Server!CallStart, Server!AudioAdopted, Server!AudioOpens,
       Server!QueueSpeech, Server!svars, Server!cvars, Server!MayOpen
<1>2. CASE Server!AudioCloses(Conn) \/ Server!WatchIdle(Conn)
    BY <1>s, <1>2 DEF Server!AudioCloses, Server!WatchIdle, Server!Count
<1>3. CASE Server!CallEnd(Conn) \/ Server!EndOfStream(Conn)
    BY <1>s, <1>3 DEF Server!CallEnd, Server!EndOfStream, Server!Resumes, Server!EndCall,
       Server!Count, Server!svars, Server!cvars
<1>4. CASE Server!Put(Conn) \/ Server!Leave(Conn) \/ Server!Drop(Conn)
           \/ Server!DrainTimeout(Conn) \/ Server!SocketCloses(Conn)
    BY <1>s, <1>4 DEF Server!Put, Server!Leave, Server!Drop, Server!DrainTimeout,
       Server!SocketCloses, Server!svars, Server!cvars
<1>5. CASE Server!Check(Conn)
    BY <1>s, <1>5 DEF Server!Check, Server!cvars
<1>6. CASE Server!RunCallback
  <2>1. /\ \/ hpc' = hpc
           \/ hpc' = [k \in {Conn} |-> IF hpc[k] = "wait" /\ call[k] = Head(ready).call
                                           THEN "leave" ELSE hpc[k]]
        /\ UNCHANGED <<open, made, gaveUp>>
      BY <1>6 DEF Server!RunCallback, Server!svars
  <2> QED
      BY <1>s, <2>1
<1>7. CASE Server!WorkerStep \/ Server!Crash
    BY <1>7 DEF Server!WorkerStep, Server!Get, Server!Emit, Server!ChunkDone, Server!Notify,
       Server!Speak, Server!Crash, Server!hvars, Server!svars, Server!cvars
<1>8. CASE Server!BeginStop \/ Server!FinishStop \/ Server!Finished \/ UNCHANGED srvrs
    BY <1>8 DEF Server!BeginStop, Server!FinishStop, Server!Finished, Server!vars, srvrs,
       Server!hvars, Server!svars, Server!cvars
<1> QED
    BY <1>1, <1>2, <1>3, <1>4, <1>5, <1>6, <1>7, <1>8
    DEF Server!Next, Server!Handler, Server!MidCall

LEMMA NothingOwed ==
    ASSUME Serving!IInv
    PROVE  /\ made = 0 => Serving!Owed(CallId) = {}
           /\ Serving!Owed(CallId) = {} =>
                 \A x \in Serving!Chunks : fate[x] \notin Serving!Unfinished
<1>1. Serving!Chunks \subseteq Nat \ {0}
    BY ServerAssumption DEF Serving!Chunks
<1>2. \A x \in Serving!Chunks : /\ owner[x] \in {CallId, NoCall}
                                /\ fate[x] = "none" <=> x > made
                                /\ owner[x] = NoCall <=> x > made
    BY DEF Serving!IInv, Serving!TypeOK, Serving!Made
<1>3. ASSUME made = 0
      PROVE  Serving!Owed(CallId) = {}
  <2>1. \A x \in Serving!Chunks : x > made
      BY <1>1, <1>3
  <2> QED
      BY <1>2, <2>1, ServerAssumption DEF Serving!Owed
<1>4. ASSUME Serving!Owed(CallId) = {}, NEW x \in Serving!Chunks
      PROVE  fate[x] \notin Serving!Unfinished
  <2>1. CASE owner[x] = CallId
      BY <1>4, <2>1 DEF Serving!Owed, Serving!InHand
  <2>2. CASE owner[x] = NoCall
      BY <1>2, <2>2 DEF Serving!Unfinished
  <2> QED
      BY <1>2, <2>1, <2>2
<1> QED
    BY <1>3, <1>4

LEMMA ServedStep ==
    ASSUME Served, Serving!IInv, [Next]_vars
    PROVE  Served'
<1> USE DEF Served
<1>n. [Server!Next]_srvrs /\ [Serving!Next]_(Serving!vars)
    BY SameServer, ServerSteps DEF Serving!vars, srvrs
<1>s. Serving!Shape
    BY DEF Serving!IInv, Serving!Shape
<1>c. \/ \E k \in {Conn} : \E pc \in {"put", "putlast"} : Serving!Cuts(k, pc)
      \/ UNCHANGED <<owner, made, final>>
    BY <1>n, <1>s, ServerAssumption, Serving!FinalSteps
<1>1. call'[Conn] = NoCall => made' = 0
  <2>1. call'[Conn] = NoCall => call[Conn] = NoCall
      BY <1>n, <1>s, ServerAssumption, Serving!CallSteps
  <2>2. call[Conn] = NoCall => made' = made
      BY <1>c, ServerAssumption DEF Serving!Cuts
  <2> QED
      BY <2>1, <2>2
<1>2. Meter => made' = 0 /\ ~open'[Conn]
    BY <1>n, HandlerEnds
<1>3. ASSUME At' \in {"drop", "closed"}
      PROVE  CallId \in gaveUp' \/ Serving!Owed(CallId)' = {}
  <2>1. /\ gaveUp \subseteq gaveUp'
        /\ \/ At \in {"drop", "closed", "leave"}
           \/ At = "check" /\ (Meter \/ pending[CallId] = 0)
           \/ At = "recv" /\ call[Conn] = NoCall
      BY <1>n, <1>3, HandlerEnds
  <2>2. CallId \in gaveUp \/ Serving!Owed(CallId) = {}
    <3>1. CASE At \in {"drop", "closed"}
        BY <3>1
    <3>2. CASE At = "leave"
      <4>1. call[Conn] = CallId /\ call[Conn] \in gaveUp \cup fired
          BY <3>2, ServerShape DEF At, Serving!IInv, Serving!Handlers, Serving!Ending,
             Serving!Waiting
      <4> QED
          BY <4>1 DEF Serving!IInv, Serving!Counting
    <3>3. CASE made = 0
        BY <3>3, NothingOwed
    <3>4. CASE pending[CallId] = 0
      <4>1. CallId \in gaveUp \/ Serving!Cardinality(Serving!Owed(CallId)) = 0
          BY <3>4 DEF Serving!IInv, Serving!Counting
      <4>2. Serving!IsFiniteSet(Serving!Owed(CallId))
          BY ServerAssumption, Serving!OwedFinite
      <4>3. Serving!Cardinality(Serving!Owed(CallId)) = 0 => Serving!Owed(CallId) = {}
          BY <4>2, ServerAssumption, Serving!FS_EmptySet
      <4> QED
          BY <4>1, <4>3
    <3> QED
        BY <2>1, <3>1, <3>2, <3>3, <3>4
  <2>3. At = "recv" => call[Conn] = NoCall
      BY <2>1
  <2>4. Serving!Owed(CallId)' \subseteq Serving!Owed(CallId)
    <3>1. \A k \in {Conn} : \A pc \in {"put", "putlast"} : ~Serving!Cuts(k, pc)
        BY <2>3, ServerAssumption DEF Serving!Cuts, At
    <3> QED
        BY <1>n, <1>s, <3>1, ServerAssumption, Serving!OwedSteps
  <2> QED
      BY <2>1, <2>2, <2>4
<1> QED
    BY <1>1, <1>2, <1>3
-----------------------------------------------------------------------------
(* The rest holds while nothing has failed, and nothing is mended.            *)
Calm == ~lost /\ reader # "raised"

LEMMA CalmBefore ==
    ASSUME Dialing!IInv, [Next]_vars, Calm'
    PROVE  Calm
<1> USE DEF Calm
<1>s. main \in {"dial", "start"} => reader = "none"
    BY DEF Dialing!IInv, Dialing!Links
<1>1. CASE PhoneOwn \/ CallerSpeaks
  <2>1. lost' = lost
      BY <1>1 DEF PhoneOwn, CallerSpeaks, links
  <2>2. reader = "raised" => reader' = "raised"
      BY <1>1, <1>s, PhoneActs DEF Writes, EntersLoop, HangsUp, EndsAnnounce, LeavesLater, Closes,
         Reading
  <2> QED
      BY <2>1, <2>2
<1>2. CASE HearsSpeech \/ HearsText \/ ReaderEnds
    BY <1>2 DEF HearsSpeech, HearsText, ReaderEnds, Takes, Phone!ReaderEnds, links
<1>3. CASE GraceTimeout \/ Connects \/ PhoneLearns \/ ServerLearns
    BY <1>3 DEF GraceTimeout, Phone!GraceTimeout, Phone!ReaderOver, Connects, Phone!Connected,
       Phone!back, PhoneLearns, Phone!PeerCloses, ServerLearns, links, pvars
<1>4. CASE UNCHANGED <<lost, reader>> \/ LinkLost
    BY <1>4 DEF LinkLost, pvars
<1>5. \/ PhoneOwn \/ CallerSpeaks \/ HearsSpeech \/ HearsText \/ ReaderEnds \/ GraceTimeout
      \/ Connects \/ PhoneLearns \/ ServerLearns \/ LinkLost \/ UNCHANGED <<lost, reader>>
    BY DEF Next, Reads, RunsCallback, ServerOwn, DrainTimeout, Tick, Finished, vars, pvars, links
<1> QED
    BY <1>1, <1>2, <1>3, <1>4, <1>5

(* call_end has been read as soon as the handler takes it, not before.       *)
LEMMA EndReads ==
    ASSUME Basic, Dialing!IInv, [Next]_vars
    PROVE  /\ rd' = rd => (EndRead' <=> EndRead)
           /\ HandlerReads => (EndRead' <=> EndRead \/ Message.kind = "end")
           /\ HandlerReads => rd + 1 \in DOMAIN wire
<1>1. /\ rd \in Nat /\ rd <= Len(wire) /\ cut \in Nat /\ cut <= Len(wire)
      /\ Len(wire) \in Nat /\ DOMAIN wire = 1..Len(wire)
    BY WireGrows DEF Basic
<1>2. \A i \in 1..Len(wire) : EndAt(i)' <=> EndAt(i)
  <2>1. ASSUME NEW i \in 1..Len(wire)
        PROVE  /\ i \in DOMAIN wire' /\ wire'[i] = wire[i] /\ i \in DOMAIN wire
      BY <1>1, <2>1, WireGrows
  <2> QED
      BY <2>1 DEF EndAt
<1>3. HandlerReads => /\ rd' = rd + 1 /\ rd + 1 \in 1..Len(wire)
                      /\ EndAt(rd + 1) <=> Message.kind = "end"
    BY <1>1 DEF HandlerReads, Arrived, EndAt, Message
<1>4. rd' = rd => (EndRead' <=> EndRead)
    BY <1>1, <1>2 DEF EndRead
<1>5. HandlerReads => (EndRead' <=> EndRead \/ Message.kind = "end")
  <2>1. 1..(rd + 1) = 1..rd \cup {rd + 1}
      BY <1>1
  <2>2. \A i \in 1..rd : i \in 1..Len(wire)
      BY <1>1
  <2> QED
      BY <1>2, <1>3, <2>1, <2>2 DEF EndRead
<1> QED
    BY <1>1, <1>3, <1>4, <1>5

(* Who closes, and what the two sides have come to know.                     *)
Quiet == Calm =>
    /\ conn = "closed" => Open = "closed"
    /\ Open = "closed" => At = "closed"
    /\ At \in {"new", "recv", "put"} <=> ~EndRead
    /\ main = "closing" => conn = "closed"
    /\ reader # "cancelled"
    /\ reader = "created" => conn \in {"none", "open"}
    /\ reader = "absent" => conn = "none"
    /\ reader = "closed" => down = <<>>

(* How far the server is when the grace has run for so long.                 *)
Timed == Calm /\ main = "grace" =>
    /\ At \in {"recv", "put"} =>
          graceRan <= 1 /\ (graceRan = 1 => EndAhead(age.up))
    /\ At \in {"putlast", "check"} => graceRan <= 1
    /\ At = "wait" => graceRan <= drainRan + 1
    /\ At \in {"leave", "drop"} => graceRan <= Drain + 1
    /\ At = "closed" => \/ graceRan <= Drain + 1
                        \/ /\ graceRan = Drain + 2 /\ age.down = Len(down)
                           /\ conn = "open" => age.close

(* The grace does not run out.                                               *)
LEMMA GraceSuffices ==
    ASSUME Basic, Quiet, Timed, Calm, Serving!IInv, Dialing!IInv
    PROVE  ~GraceTimeout
<1>1. SUFFICES ASSUME GraceTimeout PROVE FALSE
    OBVIOUS
<1>2. graceRan = Grace /\ main = "grace"
    BY <1>1 DEF GraceTimeout, Phone!GraceTimeout
<1>3. /\ Drain \in Nat /\ Grace \in Nat /\ Drain + 2 < Grace /\ drainRan \in 0..Drain
    BY TimersAssumption DEF Basic
<1>4. At # "new"
    BY <1>2, <1>3 DEF Basic
<1>5. At \in {"recv", "put", "putlast", "check", "wait", "leave", "drop", "closed"}
    BY <1>4, ServerShape DEF Server!HandlerPC, Server!MidStep
<1> QED
    BY <1>2, <1>3, <1>5 DEF Timed

LEMMA QuietStep ==
    ASSUME Basic, Announced, Quiet, Timed, Left, Serving!IInv, Dialing!IInv, Serving!Sockets,
           [Next]_vars
    PROVE  Quiet'
<1> SUFFICES ASSUME Calm'
             PROVE  /\ conn' = "closed" => Open' = "closed"
                    /\ Open' = "closed" => At' = "closed"
                    /\ At' \in {"new", "recv", "put"} <=> ~EndRead'
                    /\ main' = "closing" => conn' = "closed"
                    /\ reader' # "cancelled"
                    /\ reader' = "created" => conn' \in {"none", "open"}
                    /\ reader' = "absent" => conn' = "none"
                    /\ reader' = "closed" => down' = <<>>
    BY DEF Quiet
<1>c. Calm /\ ~lost /\ reader # "raised" /\ ~lost' /\ reader' # "raised"
    BY CalmBefore DEF Calm
<1>q. /\ conn = "closed" => Open = "closed"
      /\ Open = "closed" => At = "closed"
      /\ At \in {"new", "recv", "put"} <=> ~EndRead
      /\ main = "closing" => conn = "closed"
      /\ reader # "cancelled"
      /\ reader = "created" => conn \in {"none", "open"}
      /\ reader = "absent" => conn = "none"
      /\ reader = "closed" => down = <<>>
    BY <1>c DEF Quiet
<1>s. /\ conn \in {"none", "open", "closed"} /\ ws \in BOOLEAN
      /\ main = "dial" => conn = "none" /\ reader = "none"
      /\ reader = "closed" => conn = "closed"
      /\ reader = "absent" => ~ws
      /\ ws => conn # "none"
    BY PhoneShape DEF Dialing!IInv, Dialing!Links
<1>e. rd' = rd => (EndRead' <=> EndRead)
    BY EndReads
<1>1. CASE Connects
  <2>1. /\ conn' = "open" /\ At' = "recv" /\ Open' = "open" /\ main = "dial" /\ main' = "start"
        /\ reader' = reader /\ rd' = rd /\ At = "new"
      BY <1>1, ServerShape DEF Connects, Phone!Connected, Phone!back, Server!Accept, At, Open, links
  <2> QED
      BY <1>q, <1>s, <1>e, <2>1
<1>2. CASE PhoneLearns
  <2>1. /\ conn = "open" /\ conn' = "closed" /\ reader # "created" /\ Open = "closed"
        /\ main' = main /\ reader' = reader /\ rd' = rd /\ At' = At /\ Open' = Open
        /\ down' = down
      BY <1>2, <1>c DEF PhoneLearns, Phone!PeerCloses, Phone!back, srvrs, links, At, Open
  <2> QED
      BY <1>q, <1>s, <1>e, <2>1
<1>3. CASE LinkLost
    BY <1>3, <1>c DEF LinkLost
<1>4. CASE ServerLearns
  <2>1. Open = "open" /\ (conn = "closed" \/ stopping = "closing")
      BY <1>4, <1>c DEF ServerLearns, Server!SocketCloses, Open
  <2> QED
      BY <1>q, <2>1 DEF Basic
<1>5. CASE PhoneOwn \/ CallerSpeaks
  <2>1. /\ rd' = rd /\ At' = At /\ Open' = Open /\ down' = down
      BY <1>5 DEF PhoneOwn, CallerSpeaks, srvrs, links, At, Open
  <2>2. CASE Writes \/ HangsUp \/ EndsAnnounce
      BY <1>q, <1>s, <1>e, <2>1, <2>2 DEF Writes, HangsUp, EndsAnnounce
  <2>3. CASE EntersLoop
    <3>1. conn # "closed"
      <4>1. CASE conn = "closed"
        <5>1. EndRead
            BY <1>q, <4>1
        <5>2. Dialing!EndWritten
          <6>1. wire \in Seq(Phone!Msgs)
              BY PhoneShape
          <6>2. PICK i \in 1..rd : EndAt(i)
              BY <5>1 DEF EndRead
          <6>3. i \in 1..Len(wire) /\ wire[i].kind = "end"
              BY <6>1, <6>2 DEF EndAt
          <6> QED
              BY <6>3 DEF Dialing!EndWritten
        <5> QED
            BY <2>3, <5>2 DEF EntersLoop, Dialing!IInv, Dialing!Framed, Dialing!Gone
      <4> QED
          BY <4>1
    <3> QED
        BY <1>q, <1>s, <1>e, <2>1, <2>3, <3>1 DEF EntersLoop
  <2>4. CASE LeavesLater
      BY <1>c, <1>q, <1>s, <1>e, <2>1, <2>4 DEF LeavesLater, Leaves, Phone!ReaderOver
  <2>5. CASE Closes
      BY <1>q, <1>s, <1>e, <2>1, <2>5 DEF Closes
  <2>6. CASE Reading
    <3>1. reader = "created" => ~Over
        BY DEF Left, Phone!ReaderOver
    <3>2. reader = "created" /\ ~ws => conn = "none"
        BY <1>q, <1>s, <3>1 DEF Announced
    <3> QED
        BY <1>q, <1>s, <1>e, <2>1, <2>6, <3>2 DEF Reading
  <2> QED
      BY <1>5, <2>2, <2>3, <2>4, <2>5, <2>6, PhoneActs
<1>6. CASE GraceTimeout
    BY <1>6, <1>c, GraceSuffices
<1>7. CASE HearsSpeech \/ HearsText \/ ReaderEnds
  <2>1. /\ reader = "recv" /\ conn' = conn /\ main' = main
        /\ rd' = rd /\ At' = At /\ Open' = Open
        /\ reader' \in {"recv", "playing", "raised"} \/ (reader' = "closed" /\ down' = <<>>)
      BY <1>7 DEF HearsSpeech, HearsText, ReaderEnds, Takes, Phone!SpeechArrives,
         Phone!TranscriptArrives, Phone!ReaderEnds, pvars, srvrs, links, At, Open
  <2> QED
      BY <1>q, <1>s, <1>e, <2>1
<1>8. CASE Reads
  <2>1. HandlerReads /\ UNCHANGED <<pvars, down>>
      BY <1>8, ReadsActs DEF Reads
  <2>2. EndRead' <=> EndRead \/ Message.kind = "end"
      BY <2>1, EndReads
  <2> QED
      BY <1>q, <1>s, <2>1, <2>2 DEF HandlerReads, pvars
<1>9. CASE ServerOwn \/ DrainTimeout \/ RunsCallback
  <2>1. /\ HandlerMoves /\ UNCHANGED <<pvars, rd>>
        /\ down' = down \/ Open = "open"
      BY <1>9, ServerActs DEF ServerOwn, DrainTimeout, RunsCallback, links
  <2> QED
      BY <1>q, <1>s, <1>e, <2>1 DEF HandlerMoves, pvars
<1>10. CASE UNCHANGED <<pvars, srvrs, links>>
    BY <1>10, <1>q, <1>e DEF pvars, srvrs, links, At, Open
<1>11. \/ Connects \/ PhoneLearns \/ LinkLost \/ ServerLearns \/ PhoneOwn \/ CallerSpeaks
       \/ GraceTimeout \/ HearsSpeech \/ HearsText \/ ReaderEnds \/ Reads \/ ServerOwn
       \/ DrainTimeout \/ RunsCallback \/ UNCHANGED <<pvars, srvrs, links>>
    BY DEF Next, Tick, Finished, vars
<1> QED
    BY <1>1, <1>2, <1>3, <1>4, <1>5, <1>6, <1>7, <1>8, <1>9, <1>10, <1>11

(* What was ahead of the handler is, and it gets nearer to call_end.         *)
LEMMA AheadStep ==
    ASSUME Basic, Dialing!IInv, [Next]_vars, EndAhead(age.up)
    PROVE  /\ age.up # 0
           /\ rd' = rd /\ age' = age => EndAhead(age.up)'
           /\ rd' = rd /\ age' = [age EXCEPT !.down = OneLess(@)] => EndAhead(age.up)'
           /\ HandlerReads /\ Message.kind # "end" => EndAhead(age.up)'
<1>1. PICK i \in DOMAIN wire : rd < i /\ i - rd <= age.up /\ EndAt(i)
    BY DEF EndAhead
<1>2. /\ rd \in Nat /\ i \in Nat /\ age.up \in Nat /\ age \in Ages
      /\ i \in DOMAIN wire' /\ wire'[i] = wire[i]
    BY <1>1, WireGrows DEF Basic, Ages
<1>3. EndAt(i)' /\ i \in DOMAIN wire'
    BY <1>1, <1>2 DEF EndAt
<1>4. age.up # 0
    BY <1>1, <1>2
<1>5. ASSUME rd' = rd, age'.up = age.up
      PROVE  EndAhead(age.up)'
    BY <1>1, <1>2, <1>3, <1>5 DEF EndAhead
<1>6. age' = [age EXCEPT !.down = OneLess(@)] => age'.up = age.up
    BY <1>2 DEF Ages
<1>7. ASSUME HandlerReads, Message.kind # "end"
      PROVE  EndAhead(age.up)'
  <2>1. rd' = rd + 1 /\ age'.up = age.up - 1
      BY <1>2, <1>4, <1>7 DEF HandlerReads, Ages, OneLess
  <2>2. i # rd + 1
      BY <1>1, <1>7 DEF EndAt, Message
  <2>3. rd' < i /\ i - rd' <= age'.up
      BY <1>1, <1>2, <2>1, <2>2
  <2> QED
      BY <1>3, <2>3 DEF EndAhead
<1> QED
    BY <1>4, <1>5, <1>6, <1>7

LEMMA TimedStep ==
    ASSUME BInv, Basic, Basic', Announced, Quiet, Timed, Serving!IInv, Dialing!IInv,
           Serving!Sockets, [Next]_vars
    PROVE  Timed'
<1> DEFINE Goal ==
       /\ At' \in {"recv", "put"} =>
             graceRan' <= 1 /\ (graceRan' = 1 => EndAhead(age.up)')
       /\ At' \in {"putlast", "check"} => graceRan' <= 1
       /\ At' = "wait" => graceRan' <= drainRan' + 1
       /\ At' \in {"leave", "drop"} => graceRan' <= Drain + 1
       /\ At' = "closed" => \/ graceRan' <= Drain + 1
                            \/ /\ graceRan' = Drain + 2 /\ age'.down = Len(down')
                               /\ conn' = "open" => age'.close
<1> SUFFICES ASSUME Calm', main' = "grace"
             PROVE  Goal
    BY DEF Timed
<1>c. Calm /\ ~lost /\ reader # "raised" /\ ~lost'
    BY CalmBefore DEF Calm
<1>n. /\ graceRan \in Nat /\ drainRan \in 0..Drain /\ age \in Ages /\ Drain \in Nat
      /\ stopping = "no"
    BY TimersAssumption DEF Basic
<1>q. /\ conn = "closed" => Open = "closed"
      /\ Open = "closed" => At = "closed"
      /\ At \in {"new", "recv", "put"} <=> ~EndRead
      /\ At = "closed" => Open = "closed"
    BY <1>c DEF Quiet, Serving!Sockets, At, Open
<1>z. CASE graceRan' = 0
  <2>1. \A n \in Nat : 0 <= n + 1
      OBVIOUS
  <2>2. drainRan' \in Nat
      BY DEF Basic
  <2>3. graceRan' <= drainRan' + 1 /\ graceRan' <= Drain + 1
      BY <1>n, <1>z, <2>1, <2>2
  <2>4. graceRan' <= 1 /\ graceRan' # 1
      BY <1>z
  <2> QED
      BY <2>3, <2>4, Zenon
<1>g. CASE graceRan' = graceRan /\ graceRan' # 0
  <2>1. main = "grace"
    <3>1. main \in {"grace", "closing", "done"}
        BY <1>g DEF Basic
    <3> QED
        BY <3>1, CallMoves DEF Writes, EntersLoop, HangsUp, EndsAnnounce, Leaves, Closes
  <2>t. /\ At \in {"recv", "put"} => graceRan = 1 /\ EndAhead(age.up)
        /\ At \in {"putlast", "check"} => graceRan <= 1
        /\ At = "wait" => graceRan <= drainRan + 1
        /\ At \in {"leave", "drop"} => graceRan <= Drain + 1
        /\ At = "closed" => \/ graceRan <= Drain + 1
                            \/ /\ graceRan = Drain + 2 /\ age.down = Len(down)
                               /\ conn = "open" => age.close
      BY <1>c, <1>g, <1>n, <2>1 DEF Timed
  <2>2. CASE /\ UNCHANGED <<hpc, rd, down, age, drainRan>>
             /\ conn' = conn \/ conn' = "closed"
      BY <1>g, <2>2, <2>t, AheadStep DEF At
  <2>3. CASE PhoneLearns \/ ServerLearns \/ PhoneOwn \/ CallerSpeaks
    <3>1. conn' = conn \/ conn' = "closed"
        BY <2>1, CallMoves DEF Writes, EntersLoop, HangsUp, EndsAnnounce, Leaves, Closes
    <3>2. UNCHANGED <<hpc, rd, down, age, drainRan>>
        BY <2>3 DEF PhoneLearns, ServerLearns, Server!SocketCloses, PhoneOwn, CallerSpeaks, srvrs,
           links, clock
    <3> QED
        BY <2>2, <3>1, <3>2
  <2>4. CASE GraceTimeout \/ Connects \/ LinkLost
      BY <1>c, <2>1, <2>4, GraceSuffices DEF Connects, Phone!Connected, LinkLost
  <2>5. CASE HearsSpeech \/ HearsText
    <3>1. /\ down # <<>> /\ down' = Tail(down) /\ age' = [age EXCEPT !.down = OneLess(@)]
          /\ UNCHANGED <<hpc, rd, drainRan, conn>>
        BY <2>5 DEF HearsSpeech, HearsText, Takes, srvrs, pvars, Phone!SpeechArrives,
           Phone!TranscriptArrives, Phone!ReaderEnds
    <3>2. age.down = Len(down) => age'.down = Len(down')
      <4>1. age'.down = OneLess(age.down)
          BY <1>n, <3>1 DEF Ages
      <4>2. Len(down') = Len(down) - 1 /\ Len(down) \in Nat \ {0}
          BY <3>1 DEF BInv, Relays
      <4> QED
          BY <4>1, <4>2 DEF OneLess
    <3>3. age'.close = age.close
        BY <1>n, <3>1 DEF Ages
    <3> QED
        BY <1>g, <2>t, <3>1, <3>2, <3>3, AheadStep DEF At
  <2>6. CASE ReaderEnds
    <3>1. UNCHANGED <<hpc, rd, down, age, drainRan, conn>>
        BY <2>6 DEF ReaderEnds, Phone!ReaderEnds, srvrs, links, clock
    <3> QED
        BY <2>2, <3>1
  <2>7. CASE Reads
    <3>1. /\ HandlerReads /\ UNCHANGED drainRan
        BY <2>7, ReadsActs DEF Reads
    <3>2. At = "recv" /\ graceRan = 1 /\ EndAhead(age.up)
        BY <2>t, <3>1 DEF HandlerReads
    <3> QED
        BY <1>g, <1>n, <3>1, <3>2, AheadStep DEF HandlerReads
  <2>8. CASE ServerOwn \/ DrainTimeout \/ RunsCallback
    <3>1. /\ HandlerMoves /\ UNCHANGED <<conn, rd, age, drainRan>>
          /\ down' = down \/ Open = "open"
        BY <2>8, ServerActs DEF ServerOwn, DrainTimeout, RunsCallback, links, clock, pvars
    <3>2. At = "closed" => At' = "closed" /\ down' = down
        BY <1>q, <3>1 DEF HandlerMoves
    <3>3. At' \in {"recv", "put"} => At \in {"recv", "put"}
        BY <3>1 DEF HandlerMoves
    <3>4. EndAhead(age.up) => EndAhead(age.up)'
        BY <3>1, AheadStep
    <3> QED
        BY <1>g, <1>n, <1>q, <2>t, <3>1, <3>2, <3>3, <3>4 DEF HandlerMoves
  <2>9. CASE Tick \/ UNCHANGED vars
    <3>1. UNCHANGED <<pvars, srvrs, links, graceRan>> /\ main = "grace"
        BY <1>g, <2>1, <2>9 DEF Tick, vars, clock
    <3>2. CASE UNCHANGED vars
        BY <2>2, <3>2 DEF vars, pvars, srvrs, links, clock
    <3>3. CASE Tick
        BY <1>g, <1>n, <2>1, <3>3 DEF Tick
    <3> QED
        BY <2>9, <3>2, <3>3
  <2> QED
      BY <2>3, <2>4, <2>5, <2>6, <2>7, <2>8, <2>9 DEF Next, Finished
<1>t. CASE graceRan' # graceRan
  <2>1. Tick
      BY <1>t DEF Next, LinkLost, Connects, PhoneLearns, ServerLearns, PhoneOwn, CallerSpeaks,
         HearsSpeech, HearsText, Takes, ReaderEnds, GraceTimeout, Reads, RunsCallback, ServerOwn,
         DrainTimeout, Finished, vars, clock
  <2>2. /\ UNCHANGED <<pvars, srvrs, links>> /\ main = "grace" /\ graceRan' = graceRan + 1
        /\ age' = [up |-> Len(wire) - rd, down |-> Len(down),
                   close |-> ~lost /\ {Open, conn} = {"open", "closed"}]
        /\ drainRan' = IF At = "wait" THEN drainRan + 1 ELSE drainRan
      BY <1>t, <2>1 DEF Tick, pvars
  <2>u. At' = At /\ down' = down /\ conn' = conn /\ wire' = wire /\ rd' = rd
      BY <2>2 DEF pvars, srvrs, links, At
  <2>3. /\ reader = "recv" /\ age.down = 0 /\ (conn = "closed" => down # <<>>)
        /\ conn = "open" => ~age.close
      BY <2>1, <2>2 DEF Tick, PhoneIdle
  <2>4. At \in {"recv", "wait", "closed"} /\ (At = "recv" => age.up = 0 /\ Open = "open")
      BY <1>c, <2>1, <2>3 DEF Tick, ServerIdle, Basic
  <2>5. conn \in {"open", "closed"}
      BY <2>3, PhoneShape DEF Basic
  <2>6. CASE At = "recv"
    <3>1. graceRan = 0
        BY <1>c, <1>n, <2>2, <2>4, <2>6, AheadStep DEF Timed
    <3>2. EndOut /\ ~EndRead
        BY <1>q, <2>2, <2>4, <2>5, <2>6 DEF Announced
    <3>3. EndAhead(age.up)'
      <4>1. PICK i \in DOMAIN wire : EndAt(i)
          BY <3>2 DEF EndOut
      <4>2. /\ i \in Nat \ {0} /\ i <= Len(wire) /\ Len(wire) \in Nat /\ rd \in Nat
          BY WireGrows DEF Basic
      <4>3. ~(i \in 1..rd)
          BY <3>2, <4>1 DEF EndRead
      <4>4. rd < i /\ i - rd <= Len(wire) - rd
          BY <4>2, <4>3
      <4>5. age'.up = Len(wire) - rd
          BY <2>2
      <4>6. EndAt(i)' /\ i \in DOMAIN wire'
          BY <2>u, <4>1 DEF EndAt
      <4>7. rd' < i /\ i - rd' <= age'.up
          BY <2>u, <4>4, <4>5
      <4> QED
          BY <4>6, <4>7 DEF EndAhead
    <3> QED
        BY <2>2, <2>6, <2>u, <3>1, <3>3
  <2>7. CASE At = "wait"
      BY <1>c, <1>n, <2>2, <2>7, <2>u DEF Timed
  <2>8. CASE At = "closed"
    <3>1. \/ graceRan <= Drain + 1
          \/ /\ graceRan = Drain + 2 /\ age.down = Len(down)
             /\ conn = "open" => age.close
        BY <1>c, <2>2, <2>8 DEF Timed
    <3>2. graceRan <= Drain + 1
      <4>1. down \in Seq(Nat)
          BY DEF BInv, Relays
      <4>2. Len(down) = 0 => down = <<>>
          BY <4>1
      <4> QED
          BY <2>3, <2>5, <3>1, <4>2
    <3>3. conn = "open" => age'.close
        BY <1>c, <1>q, <2>2, <2>8
    <3>4. age'.down = Len(down')
        BY <2>2, <2>u
    <3>5. graceRan' <= Drain + 1 \/ graceRan' = Drain + 2
        BY <1>n, <2>2, <3>2
    <3> QED
        BY <2>8, <2>u, <3>3, <3>4, <3>5
  <2> QED
      BY <2>4, <2>6, <2>7, <2>8
<1> QED
    BY <1>z, <1>g, <1>t

-----------------------------------------------------------------------------
(* What was sent is heard, or on its way.                                    *)
Delivered == Calm =>
    \A x \in Serving!Chunks : fate[x] = "sent" => x \in Range(heard) \cup Range(down)

(* A transcript is sent only by the loop, on the open connection.            *)
LEMMA SentNow ==
    ASSUME Serving!IInv, Serving!SentAhead, [Next]_vars,
           NEW x \in Serving!Chunks, fate'[x] = "sent", fate[x] # "sent"
    PROVE  RunsCallback /\ Head(ready).kind = "send" /\ Head(ready).n = x /\ Open = "open"
<1> DEFINE Past == {"counted", "queued", "work", "nothing", "lost", "scheduled"}
           Moved == fate' = fate \/ \E y, f : f \in Past /\ fate' = [fate EXCEPT ![y] = f]
<1>1. ASSUME Moved
      PROVE  FALSE
    BY <1>1, ServerShape
<1>c. ASSUME NEW pc, Server!Count(Conn, pc)
      PROVE  Moved
    BY <1>c DEF Server!Count
<1>e. ASSUME Server!EndCall(Conn)
      PROVE  Moved
    BY <1>e, <1>c DEF Server!EndCall, Server!cvars
<1>2. ASSUME Reads
      PROVE  Moved
    BY <1>2, <1>c, <1>e DEF Reads, Server!CallStart, Server!AudioOpens, Server!AudioCloses,
       Server!QueueSpeech, Server!CallEnd, Server!cvars, srvrs
<1>3. ASSUME ServerOwn
      PROVE  Moved
  <2>1. CASE Server!WatchIdle(Conn) \/ Server!EndOfStream(Conn)
      BY <2>1, <1>c, <1>e DEF Server!WatchIdle, Server!EndOfStream
  <2>2. CASE Server!MidCall(Conn)
      BY <2>2 DEF Server!MidCall, Server!Put, Server!Check, Server!Leave, Server!Drop, Server!cvars
  <2>3. CASE Server!Get \/ Server!Emit
      BY <2>3 DEF Server!Get, Server!Emit
  <2>4. CASE Server!ChunkDone \/ Server!Notify \/ Server!Speak
      BY <2>4 DEF Server!ChunkDone, Server!Notify, Server!Speak, Server!cvars
  <2> QED
      BY <1>3, <2>1, <2>2, <2>3, <2>4 DEF ServerOwn, Server!WorkerStep
<1>4. RunsCallback \/ Moved
    BY <1>2, <1>3 DEF Next, LinkLost, Connects, Server!Accept, Server!cvars, PhoneLearns,
       ServerLearns, Server!SocketCloses, PhoneOwn, CallerSpeaks, HearsSpeech, HearsText, Takes,
       ReaderEnds, GraceTimeout, DrainTimeout, Server!DrainTimeout, Tick, Finished, vars, srvrs
<1>5. RunsCallback /\ Serving!RunCallback /\ Serving!Shape
    BY <1>1, <1>4, SameServer DEF RunsCallback, Serving!IInv, Serving!Shape
<1>6. /\ Head(ready) = ready[1] /\ 1 \in DOMAIN ready /\ ready[1] \in Serving!Callbacks
      /\ ready[1].kind = "send" /\ ready[1].n = x /\ sock[ready[1].conn] = "open"
    BY <1>5, ServerAssumption, Serving!CallbackSteps
<1>7. ready[1].conn = Conn
  <2>1. x # 0
      BY ServerAssumption DEF Serving!Chunks
  <2>2. ready[1].conn \in {Conn, NoConn}
      BY <1>6 DEF Serving!Callbacks
  <2> QED
      BY <1>6, <2>1, <2>2 DEF Serving!SentAhead, Serving!AheadIn, Serving!Sends
<1> QED
    BY <1>5, <1>6, <1>7 DEF Open

LEMMA DeliveredStep ==
    ASSUME BInv, Basic, Delivered, Serving!IInv, Dialing!IInv, Serving!SentAhead, [Next]_vars
    PROVE  Delivered'
<1> SUFFICES ASSUME Calm', NEW x \in Serving!Chunks, fate'[x] = "sent"
             PROVE  x \in Range(heard') \cup Range(down')
    BY DEF Delivered, Serving!Chunks
<1>c. Calm /\ ~lost /\ ~lost'
    BY CalmBefore DEF Calm
<1>d. down \in Seq(Nat) /\ heard \in Seq(Nat) /\ x # 0
    BY ServerAssumption DEF BInv, Relays, Serving!Chunks
<1>1. CASE fate[x] # "sent"
  <2>1. RunsCallback /\ Head(ready).kind = "send" /\ Head(ready).n = x /\ Open = "open"
      BY <1>1, SentNow
  <2>2. down' = Append(down, x)
      BY <1>c, <2>1 DEF RunsCallback
  <2>3. x \in Nat
      BY ServerAssumption DEF Serving!Chunks
  <2>4. Len(down) + 1 \in DOMAIN down' /\ down'[Len(down) + 1] = x
      BY <1>d, <2>2, <2>3
  <2> QED
      BY <2>4 DEF Range
<1>2. CASE fate[x] = "sent"
  <2>0. x \in Range(heard) \cup Range(down)
      BY <1>c, <1>2 DEF Delivered
  <2>1. CASE heard' = heard /\ (down' = down \/ \E e \in Nat : down' = Append(down, e))
    <3>1. ASSUME NEW e \in Nat, down' = Append(down, e)
          PROVE  Range(down) \subseteq Range(down')
      <4>1. \A i \in DOMAIN down : i \in DOMAIN down' /\ down'[i] = down[i]
          BY <1>d, <3>1
      <4> QED
          BY <4>1 DEF Range
    <3> QED
        BY <2>0, <2>1, <3>1
  <2>2. CASE HearsSpeech \/ HearsText
    <3>1. /\ down # <<>> /\ down' = Tail(down)
          /\ \/ heard' = heard /\ Head(down) = 0
             \/ heard' = Append(heard, Head(down))
        BY <2>2 DEF HearsSpeech, HearsText, Takes, Speech
    <3>2. \A i \in DOMAIN down : i = 1 \/ (i - 1 \in DOMAIN down' /\ down'[i - 1] = down[i])
        BY <1>d, <3>1
    <3>3. Range(down) \subseteq {Head(down)} \cup Range(down')
      <4>1. ASSUME NEW i \in DOMAIN down
            PROVE  down[i] \in {Head(down)} \cup Range(down')
        <5>1. Head(down) = down[1]
            BY <1>d, <3>1
        <5> QED
            BY <3>2, <4>1, <5>1 DEF Range
      <4> QED
          BY <4>1 DEF Range
    <3>4. Range(heard) \subseteq Range(heard') /\ (Head(down) # 0 => Head(down) \in Range(heard'))
      <4>1. CASE heard' = heard /\ Head(down) = 0
          BY <4>1
      <4>2. CASE heard' = Append(heard, Head(down))
        <5>1. Head(down) \in Nat
            BY <1>d, <3>1
        <5>2. /\ \A i \in DOMAIN heard : i \in DOMAIN heard' /\ heard'[i] = heard[i]
              /\ Len(heard) + 1 \in DOMAIN heard' /\ heard'[Len(heard) + 1] = Head(down)
            BY <1>d, <4>2, <5>1
        <5> QED
            BY <5>2 DEF Range
      <4> QED
          BY <3>1, <4>1, <4>2
    <3> QED
        BY <1>d, <2>0, <3>3, <3>4
  <2>3. CASE RunsCallback
    <3>1. \/ down' = down
          \/ Head(ready).kind = "send" /\ Open = "open" /\ down' = Append(down, Head(ready).n)
        BY <2>3 DEF RunsCallback
    <3>2. Head(ready).kind = "send" /\ Open = "open" => Head(ready).n \in Nat
        BY <2>3, SendRuns DEF RunsCallback
    <3>3. heard' = heard
        BY <2>3 DEF RunsCallback
    <3> QED
        BY <2>1, <3>1, <3>2, <3>3
  <2>4. \/ HearsSpeech \/ HearsText \/ RunsCallback \/ UNCHANGED <<heard, down>>
      BY <1>c DEF Next, LinkLost, Connects, PhoneLearns, ServerLearns, PhoneOwn, CallerSpeaks,
         ReaderEnds, GraceTimeout, Reads, ServerOwn, DrainTimeout, Tick, Finished, vars, links
  <2> QED
      BY <2>1, <2>2, <2>3, <2>4
<1> QED
    BY <1>1, <1>2

-----------------------------------------------------------------------------
EInv == Basic /\ Announced /\ Served /\ Quiet /\ Timed /\ Delivered

LEMMA EndInitially == Init => BInv /\ EInv
<1> SUFFICES ASSUME Init PROVE BInv /\ EInv
    OBVIOUS
<1>1. /\ main = "dial" /\ ws = FALSE /\ conn = "none" /\ wire = <<>> /\ reader = "none"
      /\ At = "new" /\ Open = "new" /\ call[Conn] = NoCall /\ open[Conn] = FALSE
      /\ made = 0 /\ stopping = "no" /\ rd = 0 /\ down = <<>> /\ heard = <<>> /\ cut = 0
      /\ age = [up |-> 0, down |-> 0, close |-> FALSE] /\ drainRan = 0 /\ graceRan = 0
      /\ \A x \in Serving!Chunks : fate[x] = "none"
    BY DEF Init, Phone!Init, Server!Init, At, Open, Server!Chunks, Serving!Chunks
<1>2. BInv
    BY <1>1 DEF BInv, Relays, Left, Over, Seen!Latest
<1>3. Basic
  <2>1. age \in Ages
      BY <1>1 DEF Ages
  <2> QED
      BY <1>1, <2>1, TimersAssumption DEF Basic
<1>4. Announced
    BY <1>1 DEF Announced, EndOut
<1>5. Served
    BY <1>1 DEF Served
<1>6. Quiet /\ Timed /\ Delivered
    BY <1>1 DEF Quiet, Timed, Delivered, EndRead, EndAt
<1> QED
    BY <1>2, <1>3, <1>4, <1>5, <1>6 DEF EInv

LEMMA EndStep ==
    ASSUME BInv, EInv, Serving!IInv, Serving!OInv, Serving!SentAhead, Dialing!IInv,
           [Next]_vars
    PROVE  BInv' /\ EInv'
<1>1. Basic /\ Announced /\ Served /\ Quiet /\ Timed /\ Delivered /\ Left /\ Serving!Sockets
    BY DEF EInv, BInv, Serving!OInv
<1>2. BInv'
    BY BInvStep
<1>3. Basic' /\ Announced' /\ Served'
    BY <1>1, BasicStep, AnnouncedStep, ServedStep
<1>4. Quiet'
    BY <1>1, QuietStep
<1>5. Timed'
    BY <1>1, <1>3, TimedStep
<1>6. Delivered'
    BY <1>1, DeliveredStep
<1> QED
    BY <1>2, <1>3, <1>4, <1>5, <1>6 DEF EInv

(* Both machines, the wires between them and the clocks, all the way to the   *)
(* end of the call.                                                         *)
THEOREM EndInvariance ==
    Spec => [](BInv /\ EInv /\ Serving!IInv /\ Serving!OInv /\ Dialing!IInv)
<1>1. Init => BInv /\ EInv
    BY EndInitially
<1>2. /\ BInv /\ EInv /\ Serving!IInv /\ Serving!OInv /\ Serving!SentAhead /\ Dialing!IInv
      /\ [Next]_vars
      => BInv' /\ EInv'
    BY EndStep
<1> QED
    BY <1>1, <1>2, ServerFacts, PhoneFacts, PTL DEF Spec

(* server.py:102-104: while the network and the sink hold, the server closes  *)
(* the connection before the phone's grace runs out, whatever the timers are *)
(* set to, as long as the grace is longer than the drain by more than a tick *)
(* for each way.                                                            *)
THEOREM ServerClosesFirstHolds == Spec => []ServerClosesFirst
<1>1. EInv => ServerClosesFirst
    BY DEF EInv, Quiet, Calm, ServerClosesFirst
<1> QED
    BY <1>1, EndInvariance, PTL

LEMMA LastWords ==
    ASSUME BInv, EInv, Serving!IInv, Serving!OInv, Dialing!IInv
    PROVE  LastWordsHeard
<1> SUFFICES ASSUME Over, Calm
             PROVE  /\ \A i \in rd + 1 .. Len(wire) : wire[i].kind = "speak"
                    /\ \A x \in 1..made :
                          /\ fate[x] = "sent" => x \in Range(heard)
                          /\ fate[x] \in Server!Unfinished => CallId \in gaveUp
    BY DEF LastWordsHeard, Calm
<1> USE DEF EInv
<1>1. /\ conn = "closed" => Open = "closed"
      /\ Open = "closed" => At = "closed"
      /\ At \in {"new", "recv", "put"} <=> ~EndRead
      /\ reader # "cancelled" /\ reader # "raised"
      /\ reader = "absent" => conn = "none"
      /\ reader = "closed" => down = <<>> /\ conn = "closed"
    BY DEF Quiet, Calm, Dialing!IInv, Dialing!Links
<1>2. reader \in {"absent", "closed"}
    BY <1>1 DEF BInv, Left, Phone!ReaderOver
<1>3. rd \in Nat /\ rd <= Len(wire) /\ Len(wire) \in Nat /\ wire \in Seq(Phone!Msgs)
    BY PhoneShape DEF Basic
<1>4. 1..made \subseteq Serving!Chunks /\ made \in Nat
    BY ServerShape, ServerAssumption
<1>5. CASE conn = "none"
  <2>1. wire = <<>> /\ At = "new"
      BY <1>5 DEF Basic, Dialing!IInv, Dialing!Links
  <2>2. made = 0
    <3>1. call[Conn] = NoCall
        BY <2>1 DEF At, Serving!OInv, Serving!Sockets
    <3> QED
        BY <3>1 DEF Served
  <2> QED
      BY <1>3, <2>1, <2>2
<1>6. CASE conn = "closed" /\ down = <<>>
  <2>1. At = "closed" /\ EndRead
      BY <1>1, <1>6
  <2>2. ASSUME NEW i \in rd + 1 .. Len(wire)
        PROVE  wire[i].kind = "speak"
    <3>1. PICK e \in 1..rd : EndAt(e)
        BY <2>1 DEF EndRead
    <3>2. /\ e \in 1..Len(wire) /\ wire[e].kind = "end" /\ i \in e + 1 .. Len(wire)
          /\ i \in DOMAIN wire /\ e \in DOMAIN wire /\ i # e /\ i # 1 /\ i \in 1..Len(wire)
        BY <1>3, <2>2, <3>1 DEF EndAt
    <3>3. wire[i].kind # "audio" /\ wire[i].kind # "start"
        BY <3>2 DEF Dialing!IInv, Dialing!Framed, Dialing!CallFramed
    <3>4. wire[i].kind # "end"
        BY <3>1, <3>2 DEF Announced, EndAt
    <3>5. wire[i] \in Phone!Msgs
        BY <1>3, <3>2
    <3> QED
        BY <3>3, <3>4, <3>5 DEF Phone!Msgs
  <2>3. ASSUME NEW x \in 1..made
        PROVE  /\ fate[x] = "sent" => x \in Range(heard)
               /\ fate[x] \in Server!Unfinished => CallId \in gaveUp
    <3>1. x \in Serving!Chunks
        BY <1>4, <2>3
    <3>2. Range(down) = {}
        BY <1>6 DEF Range
    <3>3. fate[x] = "sent" => x \in Range(heard)
        BY <3>1, <3>2 DEF Delivered
    <3>4. CallId \in gaveUp \/ fate[x] \notin Serving!Unfinished
        BY <2>1, <3>1, NothingOwed DEF Served
    <3> QED
        BY <3>3, <3>4 DEF Server!Unfinished, Serving!Unfinished
  <2> QED
      BY <2>2, <2>3
<1> QED
    BY <1>1, <1>2, <1>5, <1>6

(* session.py:40-44, server.py:98-104: then the phone leaves a call having    *)
(* heard every transcript that was sent, the server has read all there was   *)
(* to read, and what is unfinished was given up by the drain timeout.        *)
THEOREM LastWordsHeardHolds == Spec => []LastWordsHeard
<1>1. BInv /\ EInv /\ Serving!IInv /\ Serving!OInv /\ Dialing!IInv => LastWordsHeard
    BY LastWords
<1> QED
    BY <1>1, EndInvariance, PTL
=============================================================================
