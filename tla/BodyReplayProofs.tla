--------------------------- MODULE BodyReplayProofs ---------------------------
(***************************************************************************)
(* Proofs about the replay of a request body (BodyReplay): where early     *)
(* answers and abandoned HTTP/2 attempts only meet bodies with a reader    *)
(* per attempt, no peer ever receives anything but the body, for bodies of *)
(* any length and any number of attempts.                                  *)
(***************************************************************************)
EXTENDS BodyReplay, TLAPS

own == {"GetBody", "memory"}   \* the kinds with a reader per attempt

active(n) == writer[n] \in {"reading", "writing"}

-------------------------------------------------------------------------------
(* The inductive invariant. *)

\* The shared reader never meets an early answer or an abandoned attempt, is closed
\* only at the end, and has one user: the attempt RoundTrip is waiting for.
Sharing ==
    /\ early \/ http2 => mode \in own
    /\ loop = "waiting" => attempt \in Attempts
    /\ loop # "returned" => open
    /\ \A n \in Attempts : mode \notin own /\ active(n) => n = attempt /\ loop = "waiting"

\* An attempt that sends nothing yet finds its reader at the start.
Rewound ==
    /\ loop = "waiting" /\ writer[attempt] = "off" => offset[reader(attempt)] = 0
    /\ loop = "next" /\ mode = "stream" => offset[0] = 0
    /\ \A n \in Attempts : n > attempt => writer[n] = "off"
    /\ \A n \in Attempts : writer[n] = "off" => received[n] = <<>>

\* What a peer received is a beginning of the body, and the reader stands right
\* behind it, or one read further while that read is being written.
Progress(n) ==
    /\ \A i \in 1 .. Len(received[n]) : received[n][i] = i
    /\ writer[n] = "reading" => offset[reader(n)] = Len(received[n])
    /\ writer[n] = "writing" => /\ chunk[n] = Len(received[n]) + 1
                                /\ offset[reader(n)] = chunk[n]
    /\ writer[n] = "complete" => Len(received[n]) = BodyLength
    /\ writer[n] # "cut"

Inv == TypeOK /\ Sharing /\ Rewound /\ \A n \in Attempts : Progress(n)

\* The invariant holds initially, if early answers and abandoned attempts meet only bodies
\* with readers of their own.
LEMMA InitInv == ASSUME EarlyModes \cup HTTP2Modes \subseteq own, Init PROVE Inv
  <1> USE BodyAssumption DEF Init, Attempts, own
  <1>1. TypeOK  BY DEF TypeOK
  <1>2. Sharing  BY DEF Sharing, active
  <1>3. Rewound  BY DEF Rewound, reader
  <1>4. ASSUME NEW n \in Attempts PROVE Progress(n)  BY DEF Progress
  <1> QED  BY <1>1, <1>2, <1>3, <1>4 DEF Inv

\* Where the reader of an attempt is found.
LEMMA Reader ==
    ASSUME NEW n \in Attempts
    PROVE  /\ reader(n) \in 0 .. MaxAttempts
           /\ mode \in own => reader(n) = n
           /\ mode \notin own => reader(n) = 0
  BY BodyAssumption DEF reader, own, Attempts

\* The previous attempt has ended, or has a reader of its own.
LEMMA StartInv == ASSUME Inv, StartAttempt PROVE Inv'
  <1> DEFINE a == attempt + 1
  <1> USE BodyAssumption DEF Attempts
  <1>1. a \in Attempts /\ attempt' = a /\ a # attempt /\ loop' = "waiting" /\ loop = "next"
    BY DEF Inv, TypeOK, StartAttempt
  <1>2. UNCHANGED <<mode, early, http2, open, writer, chunk, received>>  BY DEF StartAttempt
  <1>3. \A n \in Attempts : reader(n)' = reader(n)  BY <1>2 DEF reader
  <1>4. offset' = IF mode = "stream" THEN offset ELSE [offset EXCEPT ![reader(a)] = 0]
    BY DEF StartAttempt, rewind
  <1>5. offset' \in [0 .. MaxAttempts -> 0 .. BodyLength] /\ offset'[reader(a)] = 0
    <2>1. offset \in [0 .. MaxAttempts -> 0 .. BodyLength] /\ reader(a) \in 0 .. MaxAttempts
      BY <1>1, Reader DEF Inv, TypeOK
    <2>2. CASE mode = "stream"  BY <1>1, <1>4, <2>1, <2>2, Reader DEF Inv, Rewound, own
    <2>3. CASE mode # "stream"  BY <1>4, <2>1, <2>3
    <2> QED  BY <2>2, <2>3
  <1>6. writer[a] = "off"  BY <1>1 DEF Inv, TypeOK, Rewound
  <1>7. \A n \in Attempts : active(n) => offset'[reader(n)] = offset[reader(n)]
    <2> SUFFICES ASSUME NEW n \in Attempts, active(n) PROVE offset'[reader(n)] = offset[reader(n)]
      OBVIOUS
    <2>1. mode \in own /\ n # a  BY <1>1, <1>6 DEF Inv, Sharing, active
    <2>2. reader(n) # reader(a)  BY <1>1, <2>1, Reader
    <2> QED  BY <1>1, <1>4, <2>2, Reader DEF Inv, TypeOK
  <1>8. TypeOK'
    <2>1. conn' \in [Attempts -> BOOLEAN]  BY DEF StartAttempt
    <2> QED  BY <1>1, <1>2, <1>5, <2>1 DEF Inv, TypeOK
  <1>9. Sharing'
    <2>1. ASSUME NEW n \in Attempts, mode \notin own PROVE ~active(n)'
      BY <1>1, <1>2, <2>1 DEF Inv, Sharing, active
    <2> QED  BY <1>1, <1>2, <2>1 DEF Inv, Sharing
  <1>10. Rewound'
    <2>1. \A n \in Attempts : n > a => n > attempt  BY DEF Inv, TypeOK
    <2>2. reader(attempt)' = reader(a)  BY <1>1, <1>2 DEF reader
    <2> QED  BY <1>1, <1>2, <1>5, <2>1, <2>2 DEF Inv, Rewound
  <1>11. ASSUME NEW n \in Attempts PROVE Progress(n)'
    BY <1>2, <1>3, <1>7 DEF Inv, Progress, active
  <1> QED  BY <1>8, <1>9, <1>10, <1>11 DEF Inv

\* RoundTrip goes on or returns, and the attempt it waited for sends no more
\* unless it has a reader of its own.
LEMMA LeaveInv ==
    ASSUME Inv, loop # "returned",
           UNCHANGED <<mode, early, http2, attempt, offset, writer, chunk, received>>,
           conn' \in [Attempts -> BOOLEAN],
           \/ loop' = "returned" /\ open' = FALSE
           \/ /\ loop' = "next" /\ open' = open /\ loop = "waiting"
              /\ mode = "stream" => writer[attempt] = "off",
           loop = "waiting" /\ mode \notin own => ~active(attempt)
    PROVE  Inv'
  <1> USE BodyAssumption
  <1>1. \A n \in Attempts : reader(n)' = reader(n)  BY DEF reader
  <1>2. TypeOK'  BY DEF Inv, TypeOK
  <1>3. Sharing'  BY DEF Inv, Sharing, active
  <1>4. Rewound'
    <2>1. mode = "stream" /\ loop' = "next" => offset[0] = 0
      BY Reader DEF Inv, Sharing, Rewound, own
    <2> QED  BY <2>1 DEF Inv, Rewound
  <1>5. ASSUME NEW n \in Attempts PROVE Progress(n)'  BY <1>1 DEF Inv, Progress
  <1> QED  BY <1>2, <1>3, <1>4, <1>5 DEF Inv

\* A step of the goroutine of attempt n, of its connection or of both: it moves
\* its own reader only, and nobody else who is sending uses that reader.
LEMMA SenderInv ==
    ASSUME Inv, NEW n \in Attempts,
           UNCHANGED <<mode, early, http2, loop, attempt, open>>,
           TypeOK',
           active(n) \/ (loop = "waiting" /\ n = attempt /\ writer'[n] = "reading"),
           \A m \in Attempts \ {n} : writer'[m] = writer[m] /\ chunk'[m] = chunk[m] /\ received'[m] = received[m],
           \A r \in 0 .. MaxAttempts : r # reader(n) => offset'[r] = offset[r],
           writer'[n] # "off", Progress(n)'
    PROVE  Inv'
  <1> USE BodyAssumption
  <1>1. \A m \in Attempts : reader(m)' = reader(m)  BY DEF reader
  <1>2. Sharing'
    <2>1. ASSUME NEW m \in Attempts, mode \notin own, active(m)' PROVE m = attempt /\ loop = "waiting"
      <3>1. CASE m = n  BY <2>1, <3>1 DEF Inv, Sharing
      <3>2. CASE m # n  BY <2>1, <3>2 DEF Inv, Sharing, active
      <3> QED  BY <3>1, <3>2
    <2> QED  BY <2>1 DEF Inv, Sharing
  <1>3. n <= attempt
    <2>1. n \in Int /\ attempt \in Int  BY DEF Inv, TypeOK, Attempts
    <2>2. n = attempt \/ ~(n > attempt)  BY DEF Inv, Rewound, active
    <2> QED  BY <2>1, <2>2
  <1>4. mode \notin own => n = attempt /\ loop = "waiting"  BY DEF Inv, Sharing
  <1>5. Rewound'
    <2>1. ASSUME loop = "waiting", writer'[attempt] = "off" PROVE offset'[reader(attempt)] = 0
      <3>1. attempt \in Attempts /\ attempt # n  BY <2>1 DEF Inv, Sharing
      <3>2. writer[attempt] = "off" /\ mode \in own  BY <2>1, <3>1, <1>4
      <3>3. reader(attempt) # reader(n)  BY <3>1, <3>2, Reader
      <3> QED  BY <2>1, <3>1, <3>2, <3>3, Reader DEF Inv, Rewound
    <2>2. ~(loop = "next" /\ mode = "stream")  BY <1>4 DEF own
    <2>3. \A m \in Attempts : m > attempt => writer'[m] = "off"
      BY <1>3 DEF Inv, TypeOK, Rewound, Attempts
    <2>4. \A m \in Attempts : writer'[m] = "off" => received'[m] = <<>>  BY DEF Inv, Rewound
    <2>5. reader(attempt)' = reader(attempt)  BY DEF reader
    <2> QED  BY <2>1, <2>2, <2>3, <2>4, <2>5 DEF Rewound
  <1>6. ASSUME NEW m \in Attempts, m # n PROVE Progress(m)'
    <2>1. active(m) => offset'[reader(m)] = offset[reader(m)]
      <3> SUFFICES ASSUME active(m) PROVE offset'[reader(m)] = offset[reader(m)]  OBVIOUS
      <3>1. mode \in own  BY <1>4, <1>6 DEF Inv, Sharing
      <3> QED  BY <1>6, <3>1, Reader
    <2> QED  BY <1>1, <1>6, <2>1 DEF Inv, Progress, active
  <1> QED  BY <1>2, <1>5, <1>6 DEF Inv

\* A connection that is made keeps the invariant.
LEMMA ConnectedInv == ASSUME Inv, NEW n \in Attempts, Connected(n) PROVE Inv'
  <1> USE BodyAssumption
  <1>1. /\ writer' = [writer EXCEPT ![n] = "reading"] /\ writer[n] = "off"
        /\ UNCHANGED <<mode, early, http2, loop, attempt, offset, open, chunk, conn, received>>
        /\ loop = "waiting" /\ n = attempt
    BY DEF Connected
  <1>2. TypeOK'  BY <1>1 DEF Inv, TypeOK
  <1>3. writer'[n] = "reading" /\ \A m \in Attempts \ {n} : writer'[m] = writer[m]
    BY <1>1 DEF Inv, TypeOK
  <1>4. offset[reader(n)] = 0 /\ received[n] = <<>>  BY <1>1 DEF Inv, Rewound
  <1>5. Progress(n)'  BY <1>1, <1>3, <1>4 DEF Progress, reader
  <1> QED  BY <1>1, <1>2, <1>3, <1>5, SenderInv

\* So does one that breaks.
LEMMA BreaksInv == ASSUME Inv, NEW n \in Attempts, ConnectionBreaks(n) PROVE Inv'
  <1>1. UNCHANGED <<mode, early, http2, loop, attempt, offset, open, writer, chunk, received>>
    BY DEF ConnectionBreaks
  <1>2. TypeOK'  BY <1>1 DEF Inv, TypeOK, ConnectionBreaks
  <1>3. Sharing' /\ Rewound'  BY <1>1 DEF Inv, Sharing, Rewound, reader, active
  <1>4. ASSUME NEW m \in Attempts PROVE Progress(m)'  BY <1>1 DEF Inv, Progress, reader
  <1> QED  BY <1>2, <1>3, <1>4 DEF Inv

\* Whoever reads the shared reader finds it open.
LEMMA ReadInv == ASSUME Inv, NEW n \in Attempts, Read(n) PROVE Inv'
  <1> DEFINE r == reader(n)
  <1> USE BodyAssumption
  <1>1. r \in 0 .. MaxAttempts  BY Reader
  <1>2. writer[n] = "reading" /\ UNCHANGED <<mode, early, http2, loop, attempt, open, received>>
    BY DEF Read
  <1>3. reader(n)' = r  BY <1>2 DEF reader
  <1>4. r = 0 => open  BY <1>2, Reader DEF Inv, Sharing, active, own, Attempts
  <1>5. offset[r] = Len(received[n])  BY <1>2 DEF Inv, Progress
  <1>6. Len(received[n]) \in Nat  BY DEF Inv, TypeOK
  <1>7. CASE offset[r] = BodyLength
    <2>1. writer' = [writer EXCEPT ![n] = "complete"] /\ UNCHANGED <<offset, chunk, conn>>
      BY <1>4, <1>7 DEF Read, atEnd
    <2>2. TypeOK'  BY <1>2, <2>1 DEF Inv, TypeOK
    <2>3. writer'[n] = "complete" /\ \A m \in Attempts \ {n} : writer'[m] = writer[m]
      BY <2>1 DEF Inv, TypeOK
    <2>4. Progress(n)'  BY <1>2, <1>5, <1>7, <2>3 DEF Inv, Progress
    <2> QED  BY <1>2, <2>1, <2>2, <2>3, <2>4, SenderInv DEF active
  <1>8. CASE offset[r] # BodyLength
    <2>1. /\ offset' = [offset EXCEPT ![r] = @ + 1]
          /\ chunk' = [chunk EXCEPT ![n] = offset[r] + 1]
          /\ writer' = [writer EXCEPT ![n] = "writing"]
          /\ UNCHANGED conn
      BY <1>4, <1>8 DEF Read, atEnd
    <2>2. offset[r] \in 0 .. BodyLength /\ offset[r] + 1 \in 0 .. BodyLength
      BY <1>1, <1>8 DEF Inv, TypeOK
    <2>3. TypeOK'  BY <1>1, <1>2, <2>1, <2>2 DEF Inv, TypeOK
    <2>4. /\ writer'[n] = "writing" /\ chunk'[n] = offset[r] + 1 /\ offset'[r] = offset[r] + 1
          /\ \A m \in Attempts \ {n} : writer'[m] = writer[m] /\ chunk'[m] = chunk[m]
          /\ \A s \in 0 .. MaxAttempts : s # r => offset'[s] = offset[s]
      BY <1>1, <2>1 DEF Inv, TypeOK
    <2>5. Progress(n)'  BY <1>2, <1>3, <1>5, <2>4 DEF Inv, Progress
    <2> QED  BY <1>2, <2>3, <2>4, <2>5, SenderInv DEF active
  <1> QED  BY <1>7, <1>8

\* So does a write of the sending goroutine.
LEMMA WriteInv == ASSUME Inv, NEW n \in Attempts, Write(n) PROVE Inv'
  <1> DEFINE s == received[n]
  <1> USE BodyAssumption
  <1>1. /\ writer[n] = "writing" /\ chunk' = [chunk EXCEPT ![n] = 0]
        /\ UNCHANGED <<mode, early, http2, loop, attempt, offset, open, conn>>
    BY DEF Write
  <1>2. reader(n)' = reader(n)  BY <1>1 DEF reader
  <1>3. s \in Seq(1 .. BodyLength) /\ chunk[n] = Len(s) + 1 /\ offset[reader(n)] = Len(s) + 1
        /\ chunk[n] \in 1 .. BodyLength
    BY <1>1 DEF Inv, TypeOK, Progress
  <1>4. CASE conn[n]
    <2>1. received' = [received EXCEPT ![n] = Append(s, chunk[n])]
          /\ writer' = [writer EXCEPT ![n] = "reading"]
      BY <1>4 DEF Write
    <2>2. TypeOK'  BY <1>1, <1>3, <2>1 DEF Inv, TypeOK
    <2>3. /\ writer'[n] = "reading" /\ received'[n] = Append(s, chunk[n])
          /\ \A m \in Attempts \ {n} : /\ writer'[m] = writer[m] /\ chunk'[m] = chunk[m]
                                       /\ received'[m] = received[m]
      BY <1>1, <2>1 DEF Inv, TypeOK
    <2>4. /\ Len(received'[n]) = Len(s) + 1
          /\ \A i \in 1 .. Len(s) : received'[n][i] = s[i]
          /\ received'[n][Len(s) + 1] = Len(s) + 1
      BY <1>3, <2>3
    <2>5. \A i \in 1 .. Len(received'[n]) : received'[n][i] = i
      <3>1. \A i \in 1 .. Len(s) : s[i] = i  BY DEF Inv, Progress
      <3>2. Len(s) \in Nat  BY <1>3
      <3> HIDE DEF s
      <3> QED  BY <2>4, <3>1, <3>2
    <2>6. Progress(n)'  BY <1>1, <1>2, <1>3, <2>3, <2>4, <2>5 DEF Progress
    <2> QED  BY <1>1, <2>2, <2>3, <2>6, SenderInv DEF active
  <1>5. CASE ~conn[n]
    <2>1. received' = received /\ writer' = [writer EXCEPT ![n] = "broken"]
      BY <1>5 DEF Write
    <2>2. TypeOK'  BY <1>1, <2>1 DEF Inv, TypeOK
    <2>3. /\ writer'[n] = "broken"
          /\ \A m \in Attempts \ {n} : writer'[m] = writer[m] /\ chunk'[m] = chunk[m]
      BY <1>1, <2>1 DEF Inv, TypeOK
    <2>4. Progress(n)'  BY <2>1, <2>3 DEF Inv, Progress
    <2> QED  BY <1>1, <2>1, <2>2, <2>3, <2>4, SenderInv DEF active
  <1> QED  BY <1>4, <1>5

\* Every step keeps the invariant.
LEMMA NextInv == ASSUME Inv, [Next]_vars PROVE Inv'
  <1>1. conn \in [Attempts -> BOOLEAN]  BY DEF Inv, TypeOK
  <1>2. CASE StartAttempt  BY <1>2, StartInv
  <1>3. CASE Exhausted  BY <1>1, <1>3, LeaveInv DEF Exhausted, return
  <1>4. CASE DialFails
    <2>1. ~active(attempt)  BY <1>4 DEF DialFails, active
    <2> QED  BY <1>1, <1>4, <2>1, LeaveInv DEF DialFails, goOn, return
  <1>5. CASE ErrorReturned
    <2>1. ~active(attempt)  BY <1>5 DEF ErrorReturned, active
    <2> QED  BY <1>1, <1>5, <2>1, LeaveInv DEF ErrorReturned, goOn, return
  <1>6. CASE ResponseReturned
    <2>1. mode \notin own => ~active(attempt)
      BY <1>6 DEF ResponseReturned, active, Inv, Sharing
    <2> QED  BY <1>1, <1>6, <2>1, LeaveInv DEF ResponseReturned, goOn, return
  <1>7. CASE Abandoned
    <2>1. mode \in own /\ mode # "stream"  BY <1>7 DEF Abandoned, Inv, Sharing, own
    <2>2. conn' \in [Attempts -> BOOLEAN]  BY <1>1, <1>7 DEF Abandoned
    <2> QED  BY <1>7, <2>1, <2>2, LeaveInv DEF Abandoned, goOn, return
  <1>8. ASSUME NEW n \in Attempts, Connected(n) \/ ConnectionBreaks(n) \/ Read(n) \/ Write(n)
        PROVE  Inv'
    BY <1>8, ConnectedInv, BreaksInv, ReadInv, WriteInv
  <1>9. CASE UNCHANGED vars
    <2>1. TypeOK'  BY <1>9 DEF vars, Inv, TypeOK
    <2>2. Sharing' /\ Rewound'  BY <1>9 DEF vars, Inv, Sharing, Rewound, reader, active
    <2>3. ASSUME NEW n \in Attempts PROVE Progress(n)'  BY <1>9 DEF vars, Inv, Progress, reader
    <2> QED  BY <2>1, <2>2, <2>3 DEF Inv
  <1> QED  BY <1>2, <1>3, <1>4, <1>5, <1>6, <1>8, <1>9, <1>7 DEF Next, Over

\* Spec keeps Inv, for bodies of any length and any number of attempts.
THEOREM ReplayInvariance == ASSUME EarlyModes \cup HTTP2Modes \subseteq own PROVE Spec => []Inv
  <1>1. Init => Inv  BY InitInv
  <1>2. Inv /\ [Next]_vars => Inv'  BY NextInv
  <1> QED  BY <1>1, <1>2, PTL DEF Spec

\* No peer receives anything but a beginning of the body, and all of it when it
\* was sent to the end (prepareBody, the loop of RoundTrip), if only
\* bodies whose attempts have readers of their own meet servers that answer early or
\* HTTP/2 attempts that end with their context.  Errors over HTTP/1, dial failures
\* and answers after the body are open to every kind of body.
THEOREM BodiesIntact == ASSUME EarlyModes \cup HTTP2Modes \subseteq own PROVE Spec => []AttemptBodyIntact
  <1>1. Inv => AttemptBodyIntact
    <2> SUFFICES ASSUME Inv, NEW n \in Attempts
                 PROVE  /\ \A i \in DOMAIN received[n] : received[n][i] = i
                        /\ writer[n] = "complete" => Len(received[n]) = BodyLength
      BY DEF AttemptBodyIntact
    <2>1. DOMAIN received[n] = 1 .. Len(received[n])  BY DEF Inv, TypeOK
    <2> QED  BY <2>1 DEF Inv, Progress
  <1> QED  BY <1>1, ReplayInvariance, PTL

\* Under the same hypothesis RoundTrip never closes a body that is being sent
\* over a working connection (the cleanup of prepareBody).
THEOREM UploadsFinish == ASSUME EarlyModes \cup HTTP2Modes \subseteq own PROVE Spec => []UploadNotCutShort
  <1>1. Inv => UploadNotCutShort  BY DEF Inv, Progress, UploadNotCutShort
  <1> QED  BY <1>1, ReplayInvariance, PTL

===============================================================================
