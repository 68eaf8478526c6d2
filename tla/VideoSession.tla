---------------------------- MODULE VideoSession ----------------------------
(***************************************************************************)
(* One WebSocket session of the video realtime API.                        *)
(*                                                                         *)
(* Four tasks share the session object: the receiver reads the socket into *)
(* a bounded queue, the worker handles queued messages in order and pays   *)
(* one credit for each input event, the response task turns the chunks of  *)
(* the persistent request into protocol events and gives credits back, and *)
(* run() ends with the teardown.  Each action runs from one await to the   *)
(* next.  The stage that serves the request is external.                   *)
(*                                                                         *)
(* An event that passes _validate_event_order carries next_seq_no, so a    *)
(* message is its kind and "the order is wrong" is a choice.  A credit is  *)
(* an entry of outstanding_seq_nos together with its accepted event, which *)
(* are added and removed together.                                         *)
(***************************************************************************)
EXTENDS Integers, FiniteSets, Sequences

CONSTANTS
    MaxMessages,        \* messages the client sends (bound)
    MaxCapacity,        \* MAX_INPUT_QUEUE_CAPACITY
    DefaultCapacity     \* input_queue_capacity before session.configure

ASSUME SizesAssumption ==
    /\ MaxMessages \in Nat
    /\ MaxCapacity \in Nat \ {0}
    /\ DefaultCapacity \in 1 .. MaxCapacity

VARIABLES
    main,               \* run(), _finish_run and _teardown
    receiver,           \* _receive_inputs
    worker,             \* _process_inputs and the handler it runs
    response,           \* stream_response
    chunk,              \* the chunk stream_response holds
    inputs,             \* the queue between receiver and worker
    received,           \* messages read from the socket (bound MaxMessages)
    capacity,           \* input_queue_capacity
    configured, ready, final_received, request_finished, abort_sent, closed,
    pending_frame,      \* metadata whose binary payload is still to come
    next_seq_no,
    credit,             \* outstanding_seq_nos and accepted_by_seq
    names,              \* frame_store._names_by_request of this request
    segments,           \* shared-memory objects that exist
    stage,              \* the request at its stage
    inbox,              \* events submitted to the stage, oldest first
    taken,              \* how many of them the stage has taken
    chunks,             \* chunks on their way to stream_response
    ws,                 \* the connection: open, closed here or gone
    wire                \* protocol events the client was sent

tasks == <<main, receiver, worker, response, chunk>>
queue == <<inputs, received>>
flags == <<capacity, configured, ready, final_received, request_finished,
           abort_sent, closed>>
input == <<pending_frame, next_seq_no, credit>>
frames == <<names, segments>>
request == <<stage, inbox, taken, chunks>>
vars == <<tasks, queue, flags, input, frames, request, ws, wire>>

SeqNo == 0 .. MaxMessages
Kind == {"configure", "frame", "bytes", "prompt"}
Chunk == [kind : {"ready", "interrupted", "processed", "end", "error"},
          seq_no : SeqNo]
Event == [type : {"accepted", "interrupted", "processed", "done"}, seq_no : SeqNo]
NoChunk == [kind |-> "ready", seq_no |-> 0]

TypeOK ==
    /\ main \in {"running", "teardown", "aborting", "releasing", "done_send",
                 "closing", "over"}
    /\ receiver \in {"receive", "error", "fatal", "done"}
    /\ worker \in {"get", "configuring", "reserve_frame", "reserve_prompt",
                   "frame_ready", "submitting", "refused", "accepting", "error",
                   "fatal", "done"}
    /\ response \in {"none", "streaming", "held", "sending", "finishing",
                     "failing", "closing", "done"}
    /\ chunk \in Chunk
    /\ inputs \in Seq(Kind) /\ Len(inputs) <= 2 * MaxCapacity + 2
    /\ received \in 0 .. MaxMessages
    /\ capacity \in 1 .. MaxCapacity
    /\ {configured, ready, final_received, request_finished, abort_sent, closed,
        pending_frame} \subseteq BOOLEAN
    /\ next_seq_no \in SeqNo
    /\ credit \in [SeqNo -> {"free", "taken", "accepted"}]
    /\ names \subseteq SeqNo /\ segments \subseteq SeqNo
    /\ stage \in {"none", "prefill", "running", "ended"}
    /\ inbox \in Seq(SeqNo) /\ taken \in 0 .. Len(inbox)
    /\ chunks \in Seq(Chunk)
    /\ ws \in {"open", "closed", "gone"}
    /\ wire \in Seq(Event)

Init ==
    /\ main = "running" /\ receiver = "receive" /\ worker = "get"
    /\ response = "none" /\ chunk = NoChunk
    /\ inputs = << >> /\ received = 0
    /\ capacity = DefaultCapacity
    /\ configured = FALSE /\ ready = FALSE /\ final_received = FALSE
    /\ request_finished = FALSE /\ abort_sent = FALSE /\ closed = FALSE
    /\ pending_frame = FALSE /\ next_seq_no = 0
    /\ credit = [n \in SeqNo |-> "free"]
    /\ names = {} /\ segments = {}
    /\ stage = "none" /\ inbox = << >> /\ taken = 0 /\ chunks = << >>
    /\ ws = "open" /\ wire = << >>

-----------------------------------------------------------------------------
(* Sends, credits, frames.                                                 *)

\* A send to an open connection arrives; on another one it is lost or raises.
Sent(type, n) ==
    wire' = IF ws = "open" THEN Append(wire, [type |-> type, seq_no |-> n])
            ELSE wire

Outstanding == {n \in SeqNo : credit[n] # "free"}

\* _release_input.
ReleaseInput(n) == credit' = [credit EXCEPT ![n] = "free"]

\* _close_input_queue: every credit goes back and every waiter wakes.
CloseInputQueue == credit' = [n \in SeqNo |-> "free"]

\* frame_store.cleanup: unlink what no consumer has unlinked.
Cleanup ==
    /\ segments' = segments \ names
    /\ names' = {}

\* frame_store.discard.
Discard(n) ==
    /\ segments' = segments \ {n}
    /\ names' = names \ {n}

-----------------------------------------------------------------------------
(* The receiver.                                                           *)

\* `while not self.closed` after a message was handled.
NextReceive == IF closed THEN "done" ELSE "receive"

\* A message that is queued for the worker.
Receive(kind) ==
    /\ receiver = "receive" /\ ws = "open"
    /\ received < MaxMessages
    /\ Len(inputs) < 2 * capacity + 2
    /\ inputs' = Append(inputs, kind)
    /\ received' = received + 1
    /\ receiver' = NextReceive
    /\ UNCHANGED <<main, worker, response, chunk, flags, input, frames, request, ws,
                   wire>>

\* Not JSON, not an object, empty: an error event, and the next message.
ReceiveInvalid ==
    /\ receiver = "receive" /\ ws = "open"
    /\ received < MaxMessages
    /\ received' = received + 1
    /\ receiver' = "error"
    /\ UNCHANGED <<main, worker, response, chunk, inputs, flags, input, frames,
                   request, ws, wire>>

\* The receiver closes the session and ends, after an error event or at once.
EndReceiving(place) ==
    /\ receiver = "receive"
    /\ closed' = TRUE
    /\ receiver' = place
    /\ UNCHANGED <<main, worker, response, chunk, queue, capacity, configured, ready,
                   final_received, request_finished, abort_sent, input, frames,
                   request, ws, wire>>

\* input_queue_full.
QueueFull == ws = "open" /\ Len(inputs) >= 2 * capacity + 2 /\ EndReceiving("fatal")

\* frame_too_large.
FrameTooLarge == ws = "open" /\ EndReceiving("fatal")

\* The deadline passes; with configured set the receiver goes on instead.
ConfigureTimeout == ~configured /\ EndReceiving("fatal")

\* session.abort never waits for the worker.
AbortMessage == ws = "open" /\ EndReceiving("done")

Disconnect == ws # "open" /\ EndReceiving("done")

\* send_error_safely returns.
ReceiverErrorSent ==
    /\ receiver \in {"error", "fatal"}
    /\ receiver' = IF receiver = "fatal" THEN "done" ELSE NextReceive
    /\ UNCHANGED <<main, worker, response, chunk, queue, flags, input, frames,
                   request, ws, wire>>

ClientGone ==
    /\ ws = "open"
    /\ ws' = "gone"
    /\ UNCHANGED <<tasks, queue, flags, input, frames, request, wire>>

-----------------------------------------------------------------------------
(* The worker.                                                             *)

\* The loop condition after a message was handled.
NextGet == IF closed THEN "done" ELSE "get"

Handle(kind) ==
    /\ worker = "get" /\ inputs # << >>
    /\ Head(inputs) = kind
    /\ inputs' = Tail(inputs)

\* What the worker's own steps never touch.
WorkerFrame == UNCHANGED <<main, receiver, response, chunk, received, ready,
                           request_finished, abort_sent, ws>>

\* The session was closed while the worker waited for a message.
GetClosed ==
    /\ worker = "get" /\ inputs # << >> /\ closed
    /\ inputs' = Tail(inputs)
    /\ worker' = "done"
    /\ WorkerFrame
    /\ UNCHANGED <<capacity, configured, final_received, closed, input, frames,
                   request, wire>>

\* A message its handler refuses before it changes anything: not configured or
\* not ready, configured twice, after the final event, out of order, metadata
\* without payload or payload without metadata.
Refuse(kind) ==
    /\ Handle(kind) /\ ~closed
    /\ kind = "bytes" => ~pending_frame
    /\ worker' = "error"
    /\ WorkerFrame
    /\ UNCHANGED <<capacity, configured, final_received, closed, input, frames,
                   request, wire>>

\* Mutant of Configure: a capacity of zero is let through.
ConfigureUnvalidated ==
    /\ Handle("configure") /\ ~closed /\ ~configured
    /\ configured' = TRUE
    /\ capacity' \in 0 .. MaxCapacity
    /\ worker' = "configuring"
    /\ WorkerFrame
    /\ UNCHANGED <<final_received, closed, input, frames, request, wire>>

\* configure: the flags, then session.configured.
Configure ==
    /\ Handle("configure") /\ ~closed /\ ~configured
    /\ configured' = TRUE
    /\ capacity' \in 1 .. MaxCapacity
    /\ worker' = "configuring"
    /\ WorkerFrame
    /\ UNCHANGED <<final_received, closed, input, frames, request, wire>>

\* session.configured was sent: the response task submits the request.
Configured ==
    /\ worker = "configuring"
    /\ response' = "streaming"
    /\ stage' = "prefill"
    /\ worker' = NextGet
    /\ UNCHANGED <<main, receiver, chunk, queue, flags, input, frames, inbox, taken,
                   chunks, ws, wire>>

Open == configured /\ ready /\ ~final_received /\ ~pending_frame

\* prepare_frame and handle_prompt up to the wait for a credit.
PrepareInput(kind) ==
    /\ kind \in {"frame", "prompt"}
    /\ Handle(kind) /\ ~closed /\ Open
    /\ worker' = IF kind = "frame" THEN "reserve_frame" ELSE "reserve_prompt"
    /\ WorkerFrame
    /\ UNCHANGED <<capacity, configured, final_received, closed, input, frames,
                   request, wire>>

HasCredit == Cardinality(Outstanding) < capacity

\* _reserve_input for a frame: its metadata waits for the payload.
ReserveFrame ==
    /\ worker = "reserve_frame" /\ ~closed /\ HasCredit
    /\ credit' = [credit EXCEPT ![next_seq_no] = "taken"]
    /\ pending_frame' = TRUE
    /\ worker' = "frame_ready"
    /\ WorkerFrame
    /\ UNCHANGED <<inputs, capacity, configured, final_received, closed, next_seq_no,
                   frames, request, wire>>

FrameReadySent ==
    /\ worker = "frame_ready"
    /\ worker' = NextGet
    /\ WorkerFrame
    /\ UNCHANGED <<inputs, capacity, configured, final_received, closed, input,
                   frames, request, wire>>

\* client.update_request begins: the event leaves for the stage, or the request
\* is not there any more, or the send fails; then the call will raise.
Update ==
    \/ /\ stage # "ended"
       /\ inbox' = Append(inbox, next_seq_no)
       /\ worker' = "submitting"
    \/ /\ worker' = "refused"
       /\ UNCHANGED inbox

\* _reserve_input for a prompt, which is submitted at once.
ReservePrompt ==
    /\ worker = "reserve_prompt" /\ ~closed /\ HasCredit
    /\ credit' = [credit EXCEPT ![next_seq_no] = "taken"]
    /\ Update
    /\ WorkerFrame
    /\ UNCHANGED <<inputs, capacity, configured, final_received, closed,
                   pending_frame, next_seq_no, frames, stage, taken, chunks, wire>>

\* The event cannot be built: the credit just taken goes back.
PromptInvalid ==
    /\ worker = "reserve_prompt" /\ ~closed /\ HasCredit
    /\ worker' = "error"
    /\ WorkerFrame
    /\ UNCHANGED <<inputs, capacity, configured, final_received, closed, input,
                   frames, request, wire>>

\* The session is closed while the worker waits for a credit.
ReserveClosed ==
    /\ worker \in {"reserve_frame", "reserve_prompt"} /\ closed
    /\ worker' = "error"
    /\ WorkerFrame
    /\ UNCHANGED <<inputs, capacity, configured, final_received, closed, input,
                   frames, request, wire>>

\* handle_frame_bytes: the payload is stored and the event submitted.
StoreFrame ==
    /\ Handle("bytes") /\ ~closed /\ pending_frame
    /\ pending_frame' = FALSE
    /\ names' = names \cup {next_seq_no}
    /\ segments' = segments \cup {next_seq_no}
    /\ Update
    /\ WorkerFrame
    /\ UNCHANGED <<capacity, configured, final_received, closed, next_seq_no, credit,
                   stage, taken, chunks, wire>>

\* Mutant of StoreFails: the credit stays with an event that is given up.
StoreFailsKeepsCredit ==
    /\ Handle("bytes") /\ ~closed /\ pending_frame
    /\ pending_frame' = FALSE
    /\ worker' \in {"error", "fatal"}
    /\ WorkerFrame
    /\ UNCHANGED <<capacity, configured, final_received, closed, next_seq_no, credit,
                   frames, request, wire>>

\* The store refuses the payload (ValueError) or fails, or the event is invalid
\* and its frame is discarded again.
StoreFails ==
    /\ Handle("bytes") /\ ~closed /\ pending_frame
    /\ pending_frame' = FALSE
    /\ ReleaseInput(next_seq_no)
    /\ worker' \in {"error", "fatal"}
    /\ WorkerFrame
    /\ UNCHANGED <<capacity, configured, final_received, closed, next_seq_no, frames,
                   request, wire>>

\* update_request returns: the sequence moves on and the event is acknowledged.
Submitted ==
    /\ worker = "submitting"
    /\ next_seq_no' = next_seq_no + 1
    /\ final_received' \in BOOLEAN
    /\ worker' = "accepting"
    /\ WorkerFrame
    /\ UNCHANGED <<inputs, capacity, configured, closed, pending_frame, credit,
                   frames, request, wire>>

\* update_request raises: VideoRealtimeSubmissionError.
SubmitFails ==
    /\ worker = "refused"
    /\ ReleaseInput(next_seq_no)
    /\ Discard(next_seq_no)
    /\ worker' = "fatal"
    /\ WorkerFrame
    /\ UNCHANGED <<inputs, capacity, configured, final_received, closed,
                   pending_frame, next_seq_no, request, wire>>

\* Mutant of AcceptedSent: nobody is told.
AcceptedSentUnsignalled ==
    /\ worker = "accepting"
    /\ Sent("accepted", next_seq_no - 1)
    /\ worker' = NextGet
    /\ WorkerFrame
    /\ UNCHANGED <<inputs, capacity, configured, final_received, closed, input,
                   frames, request>>

\* _send_accepted: the event on the wire first, then whoever waits for it.
AcceptedSent ==
    LET n == next_seq_no - 1
    IN /\ worker = "accepting"
       /\ Sent("accepted", n)
       /\ credit' = [credit EXCEPT ![n] = IF @ = "taken" THEN "accepted" ELSE @]
       /\ worker' = NextGet
       /\ WorkerFrame
       /\ UNCHANGED <<inputs, capacity, configured, final_received, closed,
                      pending_frame, next_seq_no, frames, request>>

\* A send of a handler raises: RuntimeError is reported as an error of the
\* message, any other error ends the worker.
WorkerSendFails ==
    /\ worker \in {"configuring", "frame_ready", "accepting"}
    /\ ws # "open"
    /\ worker' \in {"error", "done"}
    /\ WorkerFrame
    /\ UNCHANGED <<inputs, capacity, configured, final_received, closed, input,
                   frames, request, wire>>

\* send_error_safely returns; a submission error then closes the session.
WorkerErrorSent ==
    /\ worker \in {"error", "fatal"}
    /\ closed' = (closed \/ worker = "fatal")
    /\ worker' = IF closed' THEN "done" ELSE "get"
    /\ WorkerFrame
    /\ UNCHANGED <<inputs, capacity, configured, final_received, input, frames,
                   request, wire>>

-----------------------------------------------------------------------------
(* The response task.                                                      *)

ResponseFrame == UNCHANGED <<main, receiver, worker, queue, capacity, configured,
                             final_received, abort_sent, pending_frame, next_seq_no,
                             stage, inbox, taken>>

\* An exception: teardown owns the end of a session it has aborted.
Raised == IF abort_sent THEN "done" ELSE "failing"

NextChunk(kind) ==
    /\ response = "streaming" /\ chunks # << >>
    /\ Head(chunks).kind = kind
    /\ chunks' = Tail(chunks)

ReadyChunk ==
    /\ NextChunk("ready")
    /\ ready' = TRUE
    /\ chunk' = NoChunk
    /\ response' = "sending"
    /\ ResponseFrame
    /\ UNCHANGED <<request_finished, closed, credit, frames, ws, wire>>

\* interrupted and processed wait until the event they answer was accepted.
InputChunk(kind) ==
    /\ kind \in {"interrupted", "processed"}
    /\ NextChunk(kind)
    /\ chunk' = Head(chunks)
    /\ response' = "held"
    /\ ResponseFrame
    /\ UNCHANGED <<ready, request_finished, closed, credit, frames, ws, wire>>

\* Mutant of AcceptedWait: the acknowledgement is not waited for.
AcceptedWaitSkipped == TRUE

\* accepted.wait(), or no entry to wait for.
AcceptedWait == credit[chunk.seq_no] # "taken"

Interrupted ==
    /\ response = "held" /\ chunk.kind = "interrupted"
    /\ AcceptedWait
    /\ response' = "sending"
    /\ ResponseFrame
    /\ UNCHANGED <<chunk, chunks, ready, request_finished, closed, credit, frames, ws,
                   wire>>

\* The frame was unlinked by its consumer and the credit goes back.
Processed ==
    /\ response = "held" /\ chunk.kind = "processed"
    /\ AcceptedWait
    /\ names' = names \ {chunk.seq_no}
    /\ ReleaseInput(chunk.seq_no)
    /\ response' = "sending"
    /\ ResponseFrame
    /\ UNCHANGED <<chunk, chunks, ready, request_finished, closed, segments, ws, wire>>

ChunkSent ==
    /\ response = "sending"
    /\ IF chunk.kind = "ready" THEN UNCHANGED wire ELSE Sent(chunk.kind, chunk.seq_no)
    /\ response' = "streaming"
    /\ chunk' = NoChunk
    /\ ResponseFrame
    /\ UNCHANGED <<chunks, ready, request_finished, closed, credit, frames, ws>>

\* The stream of chunks ends: the request is finished before session.done goes.
EndChunk ==
    /\ NextChunk("end")
    /\ request_finished' = TRUE
    /\ Cleanup
    /\ response' = "finishing"
    /\ ResponseFrame
    /\ UNCHANGED <<chunk, ready, closed, credit, ws, wire>>

\* Mutant of DoneSent: the socket and the waiters are left to the client.
DoneSentQuietly ==
    /\ response = "finishing"
    /\ Sent("done", 0)
    /\ closed' = TRUE
    /\ response' = "done"
    /\ ResponseFrame
    /\ UNCHANGED <<chunk, chunks, ready, request_finished, credit, frames, ws>>

\* session.done was sent.
DoneSent ==
    /\ response = "finishing"
    /\ Sent("done", 0)
    /\ closed' = TRUE
    /\ CloseInputQueue
    /\ response' = "closing"
    /\ ResponseFrame
    /\ UNCHANGED <<chunk, chunks, ready, request_finished, frames, ws>>

\* The stream of chunks ends with an error.
ErrorChunk ==
    /\ NextChunk("error")
    /\ response' = Raised
    /\ ResponseFrame
    /\ UNCHANGED <<chunk, ready, request_finished, closed, credit, frames, ws, wire>>

ResponseSendFails ==
    /\ response \in {"sending", "finishing"}
    /\ ws # "open"
    /\ response' = Raised
    /\ chunk' = NoChunk
    /\ ResponseFrame
    /\ UNCHANGED <<chunks, ready, request_finished, closed, credit, frames, ws, wire>>

\* send_error_safely returns.
ResponseErrorSent ==
    /\ response = "failing"
    /\ closed' = TRUE
    /\ CloseInputQueue
    /\ response' = "closing"
    /\ ResponseFrame
    /\ UNCHANGED <<chunk, chunks, ready, request_finished, frames, ws, wire>>

\* close_websocket; the receiver will see the connection end.
ResponseCloses ==
    /\ response = "closing"
    /\ ws' = IF ws = "open" THEN "closed" ELSE ws
    /\ response' = "done"
    /\ ResponseFrame
    /\ UNCHANGED <<chunk, chunks, ready, request_finished, closed, credit, frames,
                   wire>>

-----------------------------------------------------------------------------
(* The end of run() and the teardown.                                      *)

TeardownFrame == UNCHANGED <<received, capacity, configured, ready, final_received,
                             request_finished, next_seq_no, request>>

\* A task ended or the endpoint is cancelled: _finish_run cancels both tasks,
\* which do nothing more, and run()'s queue is dropped with its messages.
RunEnds ==
    /\ main = "running"
    /\ closed' = TRUE
    /\ receiver' = "done" /\ worker' = "done" /\ inputs' = << >>
    /\ main' = "teardown"
    /\ TeardownFrame
    /\ UNCHANGED <<response, chunk, abort_sent, pending_frame, credit, frames, ws,
                   wire>>

TaskEnded == RunEnds /\ (receiver = "done" \/ worker = "done")

\* A request that is not finished is aborted.
AbortRequest ==
    LET abort == ~request_finished /\ configured
    IN /\ main = "teardown"
       /\ abort_sent' = abort
       /\ main' = IF abort THEN "aborting" ELSE "releasing"
       /\ TeardownFrame
       /\ UNCHANGED <<receiver, worker, inputs, response, chunk, closed, pending_frame,
                      credit, frames, ws, wire>>

\* client.abort returns, raises or times out.
AbortReturns ==
    /\ main = "aborting"
    /\ main' = "releasing"
    /\ TeardownFrame
    /\ UNCHANGED <<receiver, worker, inputs, response, chunk, abort_sent, closed,
                   pending_frame, credit, frames, ws, wire>>

\* Mutant of ReleaseLocalResources: a finished request has cleaned up already.
ReleaseLocalResourcesOnce ==
    /\ main = "releasing"
    /\ response' = IF response = "none" THEN "none" ELSE "done"
    /\ chunk' = NoChunk
    /\ IF request_finished THEN UNCHANGED frames ELSE Cleanup
    /\ pending_frame' = FALSE
    /\ CloseInputQueue
    /\ main' = IF request_finished THEN "closing" ELSE "done_send"
    /\ TeardownFrame
    /\ UNCHANGED <<receiver, worker, inputs, abort_sent, closed, ws, wire>>

\* _release_local_resources, after which the terminal event is decided on.
ReleaseLocalResources ==
    /\ main = "releasing"
    /\ response' = IF response = "none" THEN "none" ELSE "done"
    /\ chunk' = NoChunk
    /\ Cleanup
    /\ pending_frame' = FALSE
    /\ CloseInputQueue
    /\ main' = IF request_finished THEN "closing" ELSE "done_send"
    /\ TeardownFrame
    /\ UNCHANGED <<receiver, worker, inputs, abort_sent, closed, ws, wire>>

\* session.done with aborted set arrives, or the send fails or times out.
AbortedDoneSent ==
    /\ main = "done_send"
    /\ Sent("done", 0) \/ UNCHANGED wire
    /\ main' = "closing"
    /\ TeardownFrame
    /\ UNCHANGED <<receiver, worker, inputs, response, chunk, abort_sent, closed,
                   pending_frame, credit, frames, ws>>

CloseWebsocket ==
    /\ main = "closing"
    /\ ws' = IF ws = "open" THEN "closed" ELSE ws
    /\ main' = "over"
    /\ TeardownFrame
    /\ UNCHANGED <<receiver, worker, inputs, response, chunk, abort_sent, closed,
                   pending_frame, credit, frames, wire>>

-----------------------------------------------------------------------------
(* The persistent request at its stage (external).                         *)

StageFrame == UNCHANGED <<tasks, queue, flags, input, names, inbox, ws, wire>>

Emit(sequence) == chunks' = chunks \o sequence

\* The initial prefill is done.
StageReady ==
    /\ stage = "prefill"
    /\ stage' = "running"
    /\ Emit(<<NoChunk>>)
    /\ StageFrame
    /\ UNCHANGED <<segments, taken>>

\* The next event: its frame is read and unlinked, a prompt interrupts a turn.
StageTake(interrupts) ==
    LET n == inbox[taken + 1]
        processed == <<[kind |-> "processed", seq_no |-> n]>>
    IN /\ stage = "running" /\ taken < Len(inbox)
       /\ taken' = taken + 1
       /\ segments' = segments \ {n}
       /\ Emit(IF interrupts
               THEN <<[kind |-> "interrupted", seq_no |-> n]>> \o processed
               ELSE processed)
       /\ StageFrame
       /\ UNCHANGED stage

\* The request ends: finished, failed, or aborted by the teardown.
StageEnds(kind) ==
    /\ \/ stage = "running"
       \/ stage = "prefill" /\ kind = "error"
    /\ stage' = "ended"
    /\ Emit(<<[kind |-> kind, seq_no |-> 0]>>)
    /\ StageFrame
    /\ UNCHANGED <<segments, taken>>

-----------------------------------------------------------------------------
Receiver ==
    \/ \E kind \in Kind : Receive(kind)
    \/ ReceiveInvalid
    \/ QueueFull
    \/ FrameTooLarge
    \/ ConfigureTimeout
    \/ AbortMessage
    \/ Disconnect
    \/ ReceiverErrorSent

Worker ==
    \/ GetClosed
    \/ \E kind \in Kind : Refuse(kind) \/ PrepareInput(kind)
    \/ Configure
    \/ Configured
    \/ ReserveFrame
    \/ FrameReadySent
    \/ ReservePrompt
    \/ PromptInvalid
    \/ ReserveClosed
    \/ StoreFrame
    \/ StoreFails
    \/ Submitted
    \/ SubmitFails
    \/ AcceptedSent
    \/ WorkerSendFails
    \/ WorkerErrorSent

Response ==
    \/ ReadyChunk
    \/ \E kind \in {"interrupted", "processed"} : InputChunk(kind)
    \/ Interrupted
    \/ Processed
    \/ ChunkSent
    \/ EndChunk
    \/ DoneSent
    \/ ErrorChunk
    \/ ResponseSendFails
    \/ ResponseErrorSent
    \/ ResponseCloses

Teardown ==
    \/ AbortRequest
    \/ AbortReturns
    \/ ReleaseLocalResources
    \/ AbortedDoneSent
    \/ CloseWebsocket

Stage ==
    \/ StageReady
    \/ \E interrupts \in BOOLEAN : StageTake(interrupts)
    \/ \E kind \in {"end", "error"} : StageEnds(kind)

\* The session is over and the client has gone.
Finished == main = "over" /\ UNCHANGED vars

Next ==
    \/ Receiver
    \/ ClientGone
    \/ Worker
    \/ Response
    \/ RunEnds
    \/ Teardown
    \/ Stage
    \/ Finished

\* The event loop resumes every task that can go on, sends return or raise, a
\* connection that ended is reported to the receiver, and the stage handles the
\* events it is given.  Nothing makes a client send, leave or abort.
Fairness ==
    /\ WF_vars(ReceiverErrorSent)
    /\ WF_vars(Disconnect)
    /\ WF_vars(Worker)
    /\ WF_vars(Response)
    /\ WF_vars(TaskEnded)
    /\ WF_vars(Teardown)
    /\ WF_vars(StageReady)
    /\ WF_vars(\E interrupts \in BOOLEAN : StageTake(interrupts))

Spec == Init /\ [][Next]_vars /\ Fairness

-----------------------------------------------------------------------------
(* Properties.                                                             *)

\* The client learns that an event was accepted before it learns anything the
\* stage did with it, although the stage may be done with the event before
\* update_request returns (accepted_by_seq).
AcceptedFirst ==
    \A k \in 1 .. Len(wire) : wire[k].type \in {"interrupted", "processed"} =>
        \E j \in 1 .. k - 1 :
            wire[j] = [type |-> "accepted", seq_no |-> wire[k].seq_no]

\* The stage or the response task still holds an answer that returns n's credit.
Owed(n) ==
    \/ \E k \in taken + 1 .. Len(inbox) : inbox[k] = n
    \/ \E k \in 1 .. Len(chunks) : chunks[k] = [kind |-> "processed", seq_no |-> n]
    \/ response = "held" /\ chunk = [kind |-> "processed", seq_no |-> n]

\* No credit is lost on an error path and none is given twice: while the session
\* is open the outstanding events are within the capacity, and each waits for
\* its payload, for its submission or for an answer that is under way.
CreditsAccounted ==
    ~closed =>
        /\ Cardinality(Outstanding) <= capacity
        /\ \A n \in Outstanding :
            \/ n = next_seq_no /\ (pending_frame \/ worker \in {"submitting", "refused"})
            \/ Owed(n)

\* A frame that nobody has read is known to the store, and after the session
\* nothing of it is left, also when the worker stores a frame after the end of
\* the request has cleaned up.
FramesReclaimed ==
    /\ segments \subseteq names
    /\ main = "over" => names = {}

\* A client is told once that its session is done, by the response task or by
\* the teardown, whichever gets there.
DoneOnce == Cardinality({k \in 1 .. Len(wire) : wire[k].type = "done"}) <= 1

\* What the client reads keeps the order of the protocol, whichever of the
\* three coroutines sends it.
WireOrdered == AcceptedFirst /\ DoneOnce

\* A session that was closed from any side ends: the worker is freed from its
\* wait, the receiver from the socket, and the teardown from a request that
\* does not answer its abort.
SessionEnds == closed ~> (main = "over")

\* An event that waits for a credit gets one or the session ends: the worker
\* that waits for the response task never keeps it waiting.
InputProgress ==
    (worker \in {"reserve_frame", "reserve_prompt"})
        ~> (worker \notin {"reserve_frame", "reserve_prompt"})
=============================================================================
