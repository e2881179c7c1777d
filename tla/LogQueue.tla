------------------------------ MODULE LogQueue ------------------------------
(* The queue of the controller's structured log (internal/host/json_log.go).
   Any goroutine calls Write, one writer owns the file, and Close may arrive at any
   moment.  A caller that finds the queue full waits for queueSpace, a channel of
   one token the writer refills without blocking, so a token may stand for several
   free places and several callers may wait for one token.

   A call of Write is a model value; its result channel has room for the one
   answer, so the writer never waits for a caller that gave up.  What the writer
   does with the file is not modelled: a write succeeds, fails or never returns. *)
EXTENDS Naturals, Sequences

CONSTANTS Calls,     \* calls of Write, each made once
          Capacity,  \* structuredLogQueueCapacity
          NoAnswer

ASSUME CapacityAssumption == Capacity \in Nat \ {0}
ASSUME NoAnswerAssumption == NoAnswer \notin Calls \cup {"written", "failed"}

VARIABLES pc,       \* where each call of Write stands
          answer,   \* what the writer put into the call's result channel
          requests, \* the channel of accepted calls
          token,    \* queueSpace holds its token
          closed,   \* the sink is closed, and with it the channel of requests
          writer,   \* where run() stands
          current,  \* the request run() took out last
          closing   \* where the call of Close stands

logVars == <<pc, answer, requests, token, closed, writer, current, closing>>

(* The caller holds the lifecycle lock for reading. *)
Holding(c) == pc[c] = "send"

(* Results of Write. *)
Returned == {"closed", "queue timeout", "write timeout", "written", "failed"}
Places   == {"out", "check", "send", "wait", "accepted"} \cup Returned
-----------------------------------------------------------------------------
QueueInit ==
    /\ pc = [c \in Calls |-> "out"]
    /\ answer = [c \in Calls |-> NoAnswer]
    /\ requests = <<>> /\ token = FALSE /\ closed = FALSE
    /\ writer = "range" /\ current = NoAnswer /\ closing = "out"

Go(c, place) == pc' = [pc EXCEPT ![c] = place]

Write(c) ==
    /\ pc[c] = "out" /\ Go(c, "check")
    /\ UNCHANGED <<answer, requests, token, closed, writer, current, closing>>

(* Under the lifecycle lock: a closed sink refuses, an open one is held open for
   the nonblocking send that follows. *)
Check(c) ==
    /\ pc[c] = "check" /\ Go(c, IF closed THEN "closed" ELSE "send")
    /\ UNCHANGED <<answer, requests, token, closed, writer, current, closing>>

HasPlace == Len(requests) < Capacity

Send(c) ==
    /\ pc[c] = "send"
    /\ \/ HasPlace /\ requests' = Append(requests, c) /\ Go(c, "accepted")
       \/ ~HasPlace /\ Go(c, "wait") /\ UNCHANGED requests
    /\ UNCHANGED <<answer, token, closed, writer, current, closing>>

TakeToken(c) ==
    /\ pc[c] = "wait" /\ token
    /\ token' = FALSE /\ Go(c, "check")
    /\ UNCHANGED <<answer, requests, closed, writer, current, closing>>

ExpiresAsRefused(c) ==
    /\ pc[c] \in {"wait", "accepted"} /\ Go(c, "queue timeout")
    /\ UNCHANGED <<answer, requests, token, closed, writer, current, closing>>

(* The deadline of the call passes while it waits for a place or for its answer. *)
Expire(c) ==
    /\ \/ pc[c] = "wait" /\ Go(c, "queue timeout")
       \/ pc[c] = "accepted" /\ Go(c, "write timeout")
    /\ UNCHANGED <<answer, requests, token, closed, writer, current, closing>>

Receive(c) ==
    /\ pc[c] = "accepted" /\ answer[c] # NoAnswer /\ Go(c, answer[c])
    /\ UNCHANGED <<answer, requests, token, closed, writer, current, closing>>
-----------------------------------------------------------------------------
(* run(): a request is taken out, then the token is offered without blocking. *)
TakeFirst == /\ current' = Head(requests) /\ requests' = Tail(requests)

ReturnsWhenClosed ==
    IF closed THEN writer' = "closing file" /\ UNCHANGED <<current, requests>>
              ELSE requests # <<>> /\ TakeFirst /\ writer' = "offer"

Dequeue ==
    IF requests # <<>> THEN TakeFirst /\ writer' = "offer"
    ELSE closed /\ writer' = "closing file" /\ UNCHANGED <<current, requests>>

NextRequest == /\ writer = "range" /\ Dequeue
         /\ UNCHANGED <<pc, answer, token, closed, closing>>

OffersNothing == UNCHANGED token

OfferToken == token' = TRUE

Offer == /\ writer = "offer" /\ OfferToken /\ writer' = "write"
         /\ UNCHANGED <<pc, answer, requests, closed, current, closing>>

Answered(result) ==
    /\ writer = "write" /\ writer' = "range" /\ current' = NoAnswer
    /\ answer' = [answer EXCEPT ![current] = result]
    /\ UNCHANGED <<pc, requests, token, closed, closing>>

(* A file operation of the platform never returns. *)
Hang == /\ writer \in {"write", "closing file"} /\ writer' = "hung"
        /\ UNCHANGED <<pc, answer, requests, token, closed, current, closing>>

CloseFile == /\ writer = "closing file" /\ writer' = "done"
             /\ UNCHANGED <<pc, answer, requests, token, closed, current, closing>>
-----------------------------------------------------------------------------
(* Close takes the lifecycle lock for writing, then waits for the writer. *)
ClosesUnlocked == closed' = TRUE

CloseRequests == (\A c \in Calls : ~Holding(c)) /\ closed' = TRUE

CloseSink == /\ closing = "out" /\ CloseRequests /\ closing' = "waiting"
             /\ UNCHANGED <<pc, answer, requests, token, writer, current>>

CloseReturns ==
    /\ closing = "waiting"
    /\ \/ writer = "done" /\ closing' = "drained"
       \/ writer # "done" /\ closing' = "timeout"
    /\ UNCHANGED <<pc, answer, requests, token, closed, writer, current>>

Caller(c) == Write(c) \/ Check(c) \/ Send(c) \/ TakeToken(c) \/ Expire(c) \/ Receive(c)

Worker == \/ NextRequest \/ Offer \/ Hang \/ CloseFile
          \/ \E result \in {"written", "failed"} : Answered(result)

QueueNext == (\E c \in Calls : Caller(c)) \/ Worker \/ CloseSink \/ CloseReturns

QueueSpec == QueueInit /\ [][QueueNext]_logVars
-----------------------------------------------------------------------------
(* Every variable has its kind, and the queue never holds more than its capacity. *)
QueueTypeOK ==
    /\ pc \in [Calls -> Places]
    /\ answer \in [Calls -> {NoAnswer, "written", "failed"}]
    /\ requests \in Seq(Calls) /\ Len(requests) <= Capacity
    /\ token \in BOOLEAN /\ closed \in BOOLEAN
    /\ writer \in {"range", "offer", "write", "hung", "closing file", "done"}
    /\ current \in Calls \cup {NoAnswer}
    /\ closing \in {"out", "waiting", "drained", "timeout"}

Queued(c) == \E i \in 1..Len(requests) : requests[i] = c

(* A caller about to send holds the sink open: Write never sends on the channel
   that Close has closed, which would panic the controller. *)
NoSendOnClosed == \A c \in Calls : Holding(c) => ~closed

(* While the sink is open no caller of Write waits for a place in vain: a request
   is still in the queue, the writer is about to offer the token, the token is
   there, or the caller that took it has yet to send.  One token for many waiting
   callers is enough. *)
NoLostWakeup ==
    (\E c \in Calls : pc[c] = "wait") /\ ~closed =>
        \/ requests # <<>> \/ writer = "offer" \/ token
        \/ \E c \in Calls : pc[c] \in {"check", "send"}

(* Close that returns without a timeout has drained the queue: every call that was
   accepted has its answer, and nothing is written any more. *)
ClosedIsDrained ==
    closing = "drained" =>
        /\ requests = <<>> /\ writer = "done"
        /\ \A c \in Calls : pc[c] \in {"accepted", "write timeout"} => answer[c] # NoAnswer

(* A call that was refused, by a closed sink or at its deadline in front of a full
   queue, is never written: it is neither queued nor with the writer, and no late
   answer exists for it. *)
RefusedIsUnwritten ==
    \A c \in Calls : pc[c] \in {"closed", "queue timeout"} =>
        answer[c] = NoAnswer /\ current # c /\ ~Queued(c)

(* What Write and Close report is true: a refused event is never written, and a
   Close without a timeout has drained the queue. *)
ReportsAreTrue == ClosedIsDrained /\ RefusedIsUnwritten
=============================================================================
