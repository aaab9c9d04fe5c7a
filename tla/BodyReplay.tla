------------------------------ MODULE BodyReplay ------------------------------
(***************************************************************************)
(* The request body of one call of RoundTrip, between the retry loop and   *)
(* the goroutines of the underlying *http.Transport that send it           *)
(* (prepareBody, prepareSpilledBody and the loop of RoundTrip,             *)
(* transport.go).                                                          *)
(*                                                                         *)
(* An *http.Transport sends the body from a goroutine of its own, which    *)
(* may outlive the attempt in two ways.  A server may answer before it has *)
(* read the whole body.  And over HTTP/2 (ForceAttemptHTTP2) an attempt    *)
(* whose context is done, as after WithTimeout, only waits for Close of    *)
(* the body, which io.NopCloser makes immediate, and not for the Read that *)
(* may be about to happen.  Over HTTP/1, and for every other error, it     *)
(* waits for the goroutine before it returns.                              *)
(***************************************************************************)
EXTENDS Integers, Sequences

CONSTANTS
    Modes,        \* kinds of body sent
    EarlyModes,   \* those sent to servers that may answer before they have read it
    HTTP2Modes,   \* those whose attempts may end with their context over HTTP/2
    BodyLength,   \* number of reads it takes to send the body
    MaxAttempts   \* bound: number of peers

\* "GetBody": the caller's factory makes a new body; "memory": a new bytes.Reader
\* over the buffered bytes; "seek" and "file": one seekable reader, rewound for
\* every attempt; "stream": the caller's body, passed through.
AllModes == {"GetBody", "memory", "seek", "file", "stream"}

ASSUME BodyAssumption ==
    /\ Modes \subseteq AllModes
    /\ EarlyModes \subseteq Modes /\ HTTP2Modes \subseteq Modes
    /\ BodyLength \in Nat
    /\ MaxAttempts \in Nat

Attempts == 1 .. MaxAttempts

VARIABLES
    mode,     \* the kind of this body; never changes
    early,    \* servers may answer before they have read it; never changes
    http2,    \* attempts may be abandoned by their context; never changes
    loop,     \* RoundTrip: "next" attempt, "waiting" for it, "returned"
    attempt,  \* the current attempt, 0 before the first one
    offset,   \* position of each reader; reader 0 is the shared one
    open,     \* the shared reader is not closed
    writer,   \* the goroutine that sends the body of an attempt
    chunk,    \* what it has read and not yet written
    conn,     \* the connection of an attempt is usable
    received  \* what the peer of an attempt received

vars == <<mode, early, http2, loop, attempt, offset, open, writer, chunk, conn, received>>

TypeOK ==
    /\ mode \in Modes
    /\ early \in BOOLEAN /\ (early => mode \in EarlyModes)
    /\ http2 \in BOOLEAN /\ (http2 => mode \in HTTP2Modes)
    /\ loop \in {"next", "waiting", "returned"}
    /\ attempt \in 0 .. MaxAttempts
    /\ offset \in [0 .. MaxAttempts -> 0 .. BodyLength]
    /\ open \in BOOLEAN
    /\ writer \in [Attempts -> {"off", "reading", "writing", "complete", "broken", "cut"}]
    /\ chunk \in [Attempts -> 0 .. BodyLength]
    /\ conn \in [Attempts -> BOOLEAN]
    /\ received \in [Attempts -> Seq(1 .. BodyLength)]

Init ==
    /\ mode \in Modes
    /\ early \in BOOLEAN /\ (early => mode \in EarlyModes)
    /\ http2 \in BOOLEAN /\ (http2 => mode \in HTTP2Modes)
    /\ loop = "next"
    /\ attempt = 0
    /\ offset = [r \in 0 .. MaxAttempts |-> 0]
    /\ open = TRUE
    /\ writer = [n \in Attempts |-> "off"]
    /\ chunk = [n \in Attempts |-> 0]
    /\ conn = [n \in Attempts |-> FALSE]
    /\ received = [n \in Attempts |-> <<>>]

\* Mutant of reader: every attempt gets the same reader.
sharedReader(n) == 0

\* The reader attempt n sends from.
reader(n) == IF mode \in {"GetBody", "memory"} THEN n ELSE 0

-------------------------------------------------------------------------------
(* RoundTrip. *)

\* Mutant of rewind: the reader is used where it stands.
noRewind(n) == UNCHANGED offset

\* What the getBody function does to the reader of attempt n.  A stream has no
\* getBody; it is handed on as it is.
rewind(n) ==
    offset' = IF mode = "stream" THEN offset ELSE [offset EXCEPT ![reader(n)] = 0]

\* The previous response is closed, which ends its connection unless the whole
\* body was sent, and the body is made available to the next attempt.
StartAttempt ==
    /\ loop = "next" /\ attempt < MaxAttempts
    /\ attempt' = attempt + 1
    /\ conn' = [n \in Attempts |-> n = attempt + 1]
    /\ rewind(attempt + 1)
    /\ loop' = "waiting"
    /\ UNCHANGED <<mode, early, http2, open, writer, chunk, received>>

\* cleanup closes the caller's body or the temporary file.
return ==
    /\ loop' = "returned"
    /\ open' = FALSE

Exhausted ==
    /\ loop = "next" /\ attempt = MaxAttempts
    /\ return
    /\ UNCHANGED <<mode, early, http2, attempt, offset, writer, chunk, conn, received>>

\* The attempt came to an end: RoundTrip goes on or returns.  A stream is only
\* taken to another peer when nothing of the request is known to be sent.
goOn(sent) ==
    \/ (mode = "stream" => ~sent) /\ loop' = "next" /\ UNCHANGED open
    \/ return

\* The connection could not be established.
DialFails ==
    /\ loop = "waiting" /\ writer[attempt] = "off"
    /\ goOn(writer[attempt] # "off")
    /\ UNCHANGED <<mode, early, http2, attempt, offset, writer, chunk, conn, received>>

\* External: the connection failed; the error is returned once the goroutine has
\* ended.
ErrorReturned ==
    /\ loop = "waiting" /\ ~conn[attempt]
    /\ writer[attempt] \in {"complete", "broken", "cut"}
    /\ goOn(writer[attempt] # "off")
    /\ UNCHANGED <<mode, early, http2, attempt, offset, writer, chunk, conn, received>>

\* External: the context of the attempt is done (its timeout, transport.go:842)
\* and the HTTP/2 stream is given up, whatever the goroutine is doing.  The trace may
\* not have told yet that the request is being sent.
Abandoned ==
    /\ http2 /\ loop = "waiting" /\ writer[attempt] # "off"
    /\ conn' = [conn EXCEPT ![attempt] = FALSE]
    /\ \E sent \in BOOLEAN : (~sent => offset[reader(attempt)] = 0) /\ goOn(sent)
    /\ UNCHANGED <<mode, early, http2, attempt, offset, writer, chunk, received>>

\* External: the peer answers.
ResponseReturned ==
    /\ loop = "waiting" /\ conn[attempt]
    /\ IF early THEN writer[attempt] # "off" ELSE writer[attempt] = "complete"
    /\ goOn(writer[attempt] # "off")
    /\ UNCHANGED <<mode, early, http2, attempt, offset, writer, chunk, conn, received>>

-------------------------------------------------------------------------------
(* External: the connection of attempt n and the goroutine that sends its body. *)

Connected(n) ==
    /\ loop = "waiting" /\ n = attempt /\ writer[n] = "off"
    /\ writer' = [writer EXCEPT ![n] = "reading"]
    /\ UNCHANGED <<mode, early, http2, loop, attempt, offset, open, chunk, conn, received>>

ConnectionBreaks(n) ==
    /\ conn[n] /\ writer[n] # "off"
    /\ conn' = [conn EXCEPT ![n] = FALSE]
    /\ UNCHANGED <<mode, early, http2, loop, attempt, offset, open, writer, chunk, received>>

atEnd(r) == offset[r] = BodyLength

\* One Read of the body: an error when it was closed, the end of the body, or
\* some of it.
Read(n) ==
    LET r == reader(n) IN
    /\ writer[n] = "reading"
    /\ IF r = 0 /\ ~open
       THEN /\ writer' = [writer EXCEPT ![n] = IF conn[n] THEN "cut" ELSE "broken"]
            /\ conn' = [conn EXCEPT ![n] = FALSE]
            /\ UNCHANGED <<offset, chunk>>
       ELSE IF atEnd(r)
       THEN /\ writer' = [writer EXCEPT ![n] = "complete"]
            /\ UNCHANGED <<offset, chunk, conn>>
       ELSE /\ offset' = [offset EXCEPT ![r] = @ + 1]
            /\ chunk' = [chunk EXCEPT ![n] = offset[r] + 1]
            /\ writer' = [writer EXCEPT ![n] = "writing"]
            /\ UNCHANGED conn
    /\ UNCHANGED <<mode, early, http2, loop, attempt, open, received>>

\* One Write to the connection.
Write(n) ==
    /\ writer[n] = "writing"
    /\ \/ /\ conn[n]
          /\ received' = [received EXCEPT ![n] = Append(@, chunk[n])]
          /\ writer' = [writer EXCEPT ![n] = "reading"]
       \/ /\ ~conn[n]
          /\ writer' = [writer EXCEPT ![n] = "broken"]
          /\ UNCHANGED received
    /\ chunk' = [chunk EXCEPT ![n] = 0]
    /\ UNCHANGED <<mode, early, http2, loop, attempt, offset, open, conn>>

\* The call has returned and no goroutine is left.
Over ==
    /\ loop = "returned"
    /\ \A n \in Attempts : writer[n] \notin {"reading", "writing"}
    /\ UNCHANGED vars

Next ==
    \/ StartAttempt \/ Exhausted \/ DialFails \/ ErrorReturned \/ Abandoned
    \/ ResponseReturned
    \/ \E n \in Attempts : Connected(n) \/ ConnectionBreaks(n) \/ Read(n) \/ Write(n)
    \/ Over

Spec == Init /\ [][Next]_vars

-------------------------------------------------------------------------------
(* Properties. *)

\* A peer only ever receives the body from its start and without a gap, and what
\* was sent to the end is the whole body, also for the second and later attempts
\* ("prepareBody makes the request body available to each permitted attempt").
AttemptBodyIntact ==
    \A n \in Attempts :
        /\ \A i \in DOMAIN received[n] : received[n][i] = i
        /\ writer[n] = "complete" /\ conn[n] => Len(received[n]) = BodyLength

\* The body is not closed under an attempt that is still sending it over a
\* working connection.
UploadNotCutShort == \A n \in Attempts : writer[n] # "cut"

===============================================================================
