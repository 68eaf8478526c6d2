------------------------- MODULE VideoSessionProofs -------------------------
(***************************************************************************)
(* Credits, frames and the order of protocol events in a video session, for*)
(* every capacity and any number of messages; and the slots of the manager *)
(* of all sessions, for every number of connections, replicas and slots.   *)
(***************************************************************************)
EXTENDS VideoSession, SessionManager, SequenceTheorems, SumTheorems, TLAPS

-----------------------------------------------------------------------------
(* The inductive invariant.                                                *)

\* An event is being made and will get next_seq_no.
Busy == \/ pending_frame
        \/ worker \in {"reserve_frame", "reserve_prompt", "frame_ready", "submitting",
                       "refused"}

\* No more sequence numbers are used than messages were received.
Numbered ==
    /\ next_seq_no + Len(inputs) + (IF Busy THEN 1 ELSE 0) <= received
    /\ worker = "accepting" => next_seq_no > 0
    /\ pending_frame => worker \notin {"reserve_frame", "reserve_prompt", "submitting",
                                       "refused"}

\* Nothing is submitted before the stage is ready, and the request is there
\* once.
Ordered ==
    /\ response = "none" => stage = "none" /\ chunks = << >> /\ ~ready
    /\ worker = "configuring" => configured
    /\ ~configured \/ worker = "configuring" => response = "none"
    /\ ~ready => /\ inbox = << >> /\ credit = [n \in SeqNo |-> "free"] /\ ~Busy
                 /\ worker # "accepting"

\* The teardown comes after the worker, and its release after the response.
Ending ==
    /\ main # "running" => worker = "done" /\ closed
    /\ main \in {"done_send", "closing", "over"}
       => response \in {"none", "done"} /\ names = {}
    /\ main = "done_send" => ~request_finished
    /\ response = "finishing" => request_finished

OnWire(e) == \E k \in DOMAIN wire : wire[k] = e

\* session.done, if it was sent, was sent by the one who had to.
DoneSentBy ==
    (\E k \in DOMAIN wire : wire[k].type = "done")
    => \/ request_finished /\ response \in {"closing", "done"}
       \/ ~request_finished /\ main \in {"closing", "over"}

OneDone ==
    \A j, k \in DOMAIN wire : wire[j].type = "done" /\ wire[k].type = "done" => j = k

\* The client was told of n, unless it is gone.
Told(n) == ws # "open" \/ OnWire([type |-> "accepted", seq_no |-> n])

\* Whoever waits for the acceptance of an event is woken by its message.
Answered ==
    /\ \A n \in SeqNo : credit[n] = "accepted" => Told(n)
    /\ response = "sending" /\ chunk.kind # "ready" => Told(chunk.seq_no)

\* The response task answers, and credits are returned one by one.
Answering == response \in {"streaming", "held", "sending"}

\* n is the number of an event that was submitted.
Submittable(n) ==
    n < next_seq_no \/ (n = next_seq_no /\ worker \in {"submitting", "done"})

IsAnswer(c) == c.kind \in {"interrupted", "processed"}

\* An answer under way is one to an event that still has its credit, whose
\* frame was read, and that the stage has taken before those it has not.
Sound(c) ==
    IsAnswer(c) =>
        /\ Submittable(c.seq_no)
        /\ Answering => credit[c.seq_no] # "free"
        /\ c.seq_no \notin segments
        /\ \A j \in taken + 1 .. Len(inbox) : c.seq_no < inbox[j]

\* The event an answer comes for has no answer after its last one.
Precedes(c, d) ==
    IsAnswer(c) /\ IsAnswer(d) =>
        c.seq_no <= d.seq_no /\ (c.kind = "processed" => c.seq_no < d.seq_no)

Holding ==
    /\ chunk = NoChunk \/ IsAnswer(chunk)
    /\ response = "held" => IsAnswer(chunk)

InInbox ==
    \A j \in taken + 1 .. Len(inbox) :
        /\ Submittable(inbox[j])
        /\ Answering => credit[inbox[j]] # "free"
        /\ \A i \in taken + 1 .. j - 1 : inbox[i] < inbox[j]

InChunks ==
    \A k \in DOMAIN chunks :
        /\ Sound(chunks[k])
        /\ \A m \in DOMAIN chunks : k < m => Precedes(chunks[k], chunks[m])

InHand ==
    response = "held" =>
        Sound(chunk) /\ \A k \in DOMAIN chunks : Precedes(chunk, chunks[k])

Underway == Holding /\ InInbox /\ InChunks /\ InHand

\* The credits: within the capacity, and each with a reason.
WithinCapacity == Cardinality(Outstanding) <= capacity

Waits(n) == n = next_seq_no /\ (pending_frame \/ worker = "refused")

Accounted ==
    /\ ~closed => \A n \in Outstanding : Waits(n) \/ Owed(n)
    /\ Answering /\ pending_frame /\ worker # "done" => credit[next_seq_no] # "free"

Stored == segments \subseteq names

IInv ==
    /\ TypeOK /\ Numbered /\ Ordered /\ Ending
    /\ DoneSentBy /\ OneDone /\ Answered /\ AcceptedFirst
    /\ Underway /\ WithinCapacity /\ Accounted /\ Stored

-----------------------------------------------------------------------------
(* Types.                                                                  *)

\* The flags are Boolean.
LEMMA Booleans ==
    TypeOK => /\ configured \in BOOLEAN /\ ready \in BOOLEAN /\ final_received \in BOOLEAN
              /\ request_finished \in BOOLEAN /\ abort_sent \in BOOLEAN
              /\ closed \in BOOLEAN /\ pending_frame \in BOOLEAN
  BY Zenon DEF TypeOK

\* The tasks and the flags.
ControlOK ==
    /\ main \in {"running", "teardown", "aborting", "releasing", "done_send",
                 "closing", "over"}
    /\ receiver \in {"receive", "error", "fatal", "done"}
    /\ worker \in {"get", "configuring", "reserve_frame", "reserve_prompt",
                   "frame_ready", "submitting", "refused", "accepting", "error",
                   "fatal", "done"}
    /\ response \in {"none", "streaming", "held", "sending", "finishing",
                     "failing", "closing", "done"}
    /\ stage \in {"none", "prefill", "running", "ended"}
    /\ ws \in {"open", "closed", "gone"}

FlagsOK ==
    {configured, ready, final_received, request_finished, abort_sent, closed,
     pending_frame} \subseteq BOOLEAN

\* The data.
DataOK ==
    /\ chunk \in Chunk
    /\ inputs \in Seq(Kind) /\ Len(inputs) <= 2 * MaxCapacity + 2
    /\ received \in 0 .. MaxMessages
    /\ capacity \in 1 .. MaxCapacity
    /\ next_seq_no \in SeqNo
    /\ credit \in [SeqNo -> {"free", "taken", "accepted"}]
    /\ names \subseteq SeqNo /\ segments \subseteq SeqNo
    /\ inbox \in Seq(SeqNo) /\ taken \in 0 .. Len(inbox)
    /\ chunks \in Seq(Chunk)
    /\ wire \in Seq(Event)

\* The type invariant in three parts.
LEMMA TypeParts == TypeOK <=> ControlOK /\ FlagsOK /\ DataOK
  BY DEF TypeOK, ControlOK, FlagsOK, DataOK

\* What each task leaves alone.
LEMMA ReceiverEffect ==
    ASSUME Receiver
    PROVE  /\ UNCHANGED <<main, worker, response, chunk, capacity, configured, ready,
                          final_received, request_finished, abort_sent, pending_frame,
                          next_seq_no, credit, names, segments, stage, inbox, taken,
                          chunks, ws, wire>>
           /\ receiver' \in {"receive", "error", "fatal", "done"}
           /\ closed' \in {closed, TRUE}
  <1>1. ASSUME NEW place \in {"fatal", "done"}, EndReceiving(place)
        PROVE  /\ UNCHANGED <<main, worker, response, chunk, capacity, configured, ready,
                              final_received, request_finished, abort_sent, pending_frame,
                              next_seq_no, credit, names, segments, stage, inbox, taken,
                              chunks, ws, wire>>
               /\ receiver' \in {"receive", "error", "fatal", "done"}
               /\ closed' \in {closed, TRUE}
    BY <1>1 DEF EndReceiving, input, frames, request
  <1>2. ASSUME (\E kind \in Kind : Receive(kind)) \/ ReceiveInvalid \/ ReceiverErrorSent
        PROVE  /\ UNCHANGED <<main, worker, response, chunk, flags, input, frames, request,
                              ws, wire>>
               /\ receiver' \in {"receive", "error", "fatal", "done"}
    BY <1>2 DEF Receive, ReceiveInvalid, ReceiverErrorSent, NextReceive
  <1>3. \/ \E place \in {"fatal", "done"} : EndReceiving(place)
        \/ (\E kind \in Kind : Receive(kind)) \/ ReceiveInvalid \/ ReceiverErrorSent
    BY DEF Receiver, QueueFull, FrameTooLarge, ConfigureTimeout, AbortMessage, Disconnect
  <1> QED
    BY <1>1, <1>2, <1>3 DEF flags, input, frames, request

\* What a step of the worker leaves alone.
LEMMA WorkerEffect ==
    ASSUME Worker
    PROVE  /\ UNCHANGED <<main, receiver, chunk, received, ready, request_finished,
                          abort_sent, taken, chunks, ws>>
           /\ worker # "done"
           /\ \/ UNCHANGED <<response, stage>>
              \/ Configured
  <1>1. CASE Configured
    BY <1>1 DEF Configured, queue, flags
  <1>2. CASE ~Configured
    <2>1. WorkerFrame
      BY <1>2 DEF Worker, GetClosed, Refuse, PrepareInput, Configure, ReserveFrame,
                  FrameReadySent, ReservePrompt, PromptInvalid, ReserveClosed, StoreFrame,
                  StoreFails, Submitted, SubmitFails, AcceptedSent, WorkerSendFails,
                  WorkerErrorSent
    <2>2. UNCHANGED <<stage, taken, chunks>>
      BY <1>2 DEF Worker, GetClosed, Refuse, PrepareInput, Configure, ReserveFrame,
                  FrameReadySent, ReservePrompt, PromptInvalid, ReserveClosed, StoreFrame,
                  StoreFails, Submitted, SubmitFails, AcceptedSent, WorkerSendFails,
                  WorkerErrorSent, request
    <2>3. worker # "done"
      BY <1>2 DEF Worker, GetClosed, Refuse, PrepareInput, Configure, ReserveFrame,
                  FrameReadySent, ReservePrompt, PromptInvalid, ReserveClosed, StoreFrame,
                  StoreFails, Submitted, SubmitFails, AcceptedSent, WorkerSendFails,
                  WorkerErrorSent, Handle
    <2> QED
      BY <2>1, <2>2, <2>3 DEF WorkerFrame
  <1> QED
    BY <1>1, <1>2

\* What a step of the response task leaves alone.
LEMMA ResponseEffect ==
    ASSUME Response
    PROVE  /\ UNCHANGED <<main, receiver, worker, inputs, received, capacity, configured,
                          final_received, abort_sent, pending_frame, next_seq_no, stage,
                          inbox, taken>>
           /\ response \in {"streaming", "held", "sending", "finishing", "failing", "closing"}
           /\ response' \in {"streaming", "held", "sending", "finishing", "failing", "closing",
                             "done"}
  <1>1. ResponseFrame
    BY DEF Response, ReadyChunk, InputChunk, Interrupted, Processed, ChunkSent, EndChunk,
           DoneSent, ErrorChunk, ResponseSendFails, ResponseErrorSent, ResponseCloses
  <1>2. response \in {"streaming", "held", "sending", "finishing", "failing", "closing"}
    BY DEF Response, ReadyChunk, InputChunk, Interrupted, Processed, ChunkSent, EndChunk,
           DoneSent, ErrorChunk, ResponseSendFails, ResponseErrorSent, ResponseCloses,
           NextChunk
  <1>3. response' \in {"streaming", "held", "sending", "finishing", "failing", "closing",
                       "done"}
    BY DEF Response, ReadyChunk, InputChunk, Interrupted, Processed, ChunkSent, EndChunk,
           DoneSent, ErrorChunk, ResponseSendFails, ResponseErrorSent, ResponseCloses,
           Raised
  <1> QED
    BY <1>1, <1>2, <1>3 DEF ResponseFrame, queue

\* What a step of the teardown leaves alone.
LEMMA TeardownEffect ==
    ASSUME Teardown
    PROVE  /\ UNCHANGED <<received, capacity, configured, ready, final_received,
                          request_finished, next_seq_no, stage, inbox, taken, chunks,
                          receiver, worker, inputs, closed>>
           /\ main # "running"
  BY DEF Teardown, AbortRequest, AbortReturns, ReleaseLocalResources, AbortedDoneSent,
         CloseWebsocket, TeardownFrame, request

\* What a step of the stage leaves alone.
LEMMA StageEffect ==
    ASSUME Stage
    PROVE  /\ UNCHANGED <<main, receiver, worker, response, chunk, inputs, received, capacity,
                          configured, ready, final_received, request_finished, abort_sent,
                          closed, pending_frame, next_seq_no, credit, names, inbox, ws, wire>>
           /\ stage \in {"prefill", "running"}
  <1>1. StageFrame
    BY DEF Stage, StageReady, StageTake, StageEnds
  <1>2. stage \in {"prefill", "running"}
    BY DEF Stage, StageReady, StageTake, StageEnds
  <1> QED
    BY <1>1, <1>2 DEF StageFrame, tasks, queue, flags, input

\* The tasks and the flags stay well typed.
LEMMA ControlStep == ASSUME TypeOK, [Next]_vars PROVE ControlOK'
  <1>0. ControlOK
    BY TypeParts
  <1>1. CASE Receiver
    BY <1>0, <1>1, ReceiverEffect DEF ControlOK
  <1>2. CASE ClientGone
    BY <1>0, <1>2 DEF ClientGone, ControlOK, tasks, request
  <1>3. CASE Worker
    <2>1. worker' \in {"get", "configuring", "reserve_frame", "reserve_prompt",
                       "frame_ready", "submitting", "refused", "accepting", "error",
                       "fatal", "done"}
      BY <1>3 DEF Worker, GetClosed, Refuse, PrepareInput, Configure, Configured,
                  ReserveFrame, FrameReadySent, ReservePrompt, Update, PromptInvalid,
                  ReserveClosed, StoreFrame, StoreFails, Submitted, SubmitFails,
                  AcceptedSent, WorkerSendFails, WorkerErrorSent, NextGet
    <2>2. UNCHANGED <<response, stage>> \/ (response' = "streaming" /\ stage' = "prefill")
      BY <1>3, WorkerEffect DEF Configured
    <2> QED
      BY <1>0, <1>3, <2>1, <2>2, WorkerEffect DEF ControlOK
  <1>4. CASE Response
    <2>1. ws' \in {ws, "closed"}
      BY <1>4 DEF Response, ReadyChunk, InputChunk, Interrupted, Processed, ChunkSent,
                  EndChunk, DoneSent, ErrorChunk, ResponseSendFails, ResponseErrorSent,
                  ResponseCloses
    <2> QED
      BY <1>0, <1>4, <2>1, ResponseEffect DEF ControlOK
  <1>5. CASE RunEnds
    BY <1>0, <1>5 DEF RunEnds, TeardownFrame, ControlOK, request
  <1>6. CASE Teardown
    BY <1>0, <1>6 DEF Teardown, AbortRequest, AbortReturns, ReleaseLocalResources,
                      AbortedDoneSent, CloseWebsocket, TeardownFrame, ControlOK, request
  <1>7. CASE Stage
    <2>1. stage' \in {"prefill", "running", "ended"}
      BY <1>7, StageEffect DEF Stage, StageReady, StageTake, StageEnds
    <2> QED
      BY <1>0, <1>7, <2>1, StageEffect DEF ControlOK
  <1>8. CASE Finished \/ UNCHANGED vars
    BY <1>0, <1>8 DEF Finished, vars, tasks, request, ControlOK
  <1> QED
    BY <1>1, <1>2, <1>3, <1>4, <1>5, <1>6, <1>7, <1>8 DEF Next

\* Flags are set and reset, never anything else.
LEMMA FlagsStep == ASSUME TypeOK, [Next]_vars PROVE FlagsOK'
  <1>0. /\ configured \in BOOLEAN /\ ready \in BOOLEAN /\ final_received \in BOOLEAN
        /\ request_finished \in BOOLEAN /\ abort_sent \in BOOLEAN
        /\ closed \in BOOLEAN /\ pending_frame \in BOOLEAN
    BY Booleans
  <1>a. SUFFICES /\ configured' \in BOOLEAN /\ ready' \in BOOLEAN /\ final_received' \in BOOLEAN
                 /\ request_finished' \in BOOLEAN /\ abort_sent' \in BOOLEAN
                 /\ closed' \in BOOLEAN /\ pending_frame' \in BOOLEAN
    BY Zenon DEF FlagsOK
  <1>1. CASE Receiver
    <2>1. closed' \in {closed, TRUE}
      BY <1>1, ReceiverEffect
    <2>2. closed' \in BOOLEAN
      BY <1>0, <2>1, Zenon
    <2>3. UNCHANGED <<configured, ready, final_received, request_finished, abort_sent,
                      pending_frame>>
      BY <1>1, ReceiverEffect
    <2> QED
      BY <1>0, <2>2, <2>3, Zenon
  <1>2. CASE ClientGone \/ Stage \/ Finished \/ UNCHANGED vars
    <2>1. UNCHANGED <<configured, ready, final_received, request_finished, abort_sent,
                      closed, pending_frame>>
      BY <1>2, StageEffect DEF ClientGone, Finished, vars, flags, input
    <2> QED
      BY <1>0, <2>1, Zenon
  <1>3. CASE Worker
    <2>1. UNCHANGED <<ready, request_finished, abort_sent>>
      BY <1>3, WorkerEffect
    <2>2. configured' \in {configured, TRUE}
      BY <1>3 DEF Worker, GetClosed, Refuse, PrepareInput, Configure, Configured,
                  ReserveFrame, FrameReadySent, ReservePrompt, PromptInvalid, ReserveClosed,
                  StoreFrame, StoreFails, Submitted, SubmitFails, AcceptedSent,
                  WorkerSendFails, WorkerErrorSent, flags
    <2>3. pending_frame' \in {pending_frame, TRUE, FALSE}
      BY <1>3 DEF Worker, GetClosed, Refuse, PrepareInput, Configure, Configured,
                  ReserveFrame, FrameReadySent, ReservePrompt, PromptInvalid, ReserveClosed,
                  StoreFrame, StoreFails, Submitted, SubmitFails, AcceptedSent,
                  WorkerSendFails, WorkerErrorSent, input
    <2>4. final_received' = final_received \/ final_received' \in BOOLEAN
      BY <1>3, Zenon DEF Worker, GetClosed, Refuse, PrepareInput, Configure, Configured,
                  ReserveFrame, FrameReadySent, ReservePrompt, PromptInvalid, ReserveClosed,
                  StoreFrame, StoreFails, Submitted, SubmitFails, AcceptedSent,
                  WorkerSendFails, WorkerErrorSent, flags
    <2>5. closed' = closed \/ closed' = (closed \/ worker = "fatal")
      BY <1>3 DEF Worker, GetClosed, Refuse, PrepareInput, Configure, Configured,
                  ReserveFrame, FrameReadySent, ReservePrompt, PromptInvalid, ReserveClosed,
                  StoreFrame, StoreFails, Submitted, SubmitFails, AcceptedSent,
                  WorkerSendFails, WorkerErrorSent, flags
    <2>6. closed' \in BOOLEAN
      BY <1>0, <2>5, Zenon
    <2> QED
      BY <1>0, <2>1, <2>2, <2>3, <2>4, <2>6, Zenon
  <1>4. CASE Response
    <2>1. UNCHANGED <<configured, final_received, abort_sent, pending_frame>>
      BY <1>4, ResponseEffect
    <2>2. /\ ready' \in {ready, TRUE} /\ request_finished' \in {request_finished, TRUE}
          /\ closed' \in {closed, TRUE}
      BY <1>4 DEF Response, ReadyChunk, InputChunk, Interrupted, Processed, ChunkSent,
                  EndChunk, DoneSent, ErrorChunk, ResponseSendFails, ResponseErrorSent,
                  ResponseCloses
    <2> QED
      BY <1>0, <2>1, <2>2, Zenon
  <1>5. CASE RunEnds
    <2>1. /\ UNCHANGED <<configured, ready, final_received, request_finished, abort_sent,
                         pending_frame>>
          /\ closed' = TRUE
      BY <1>5 DEF RunEnds, TeardownFrame
    <2> QED
      BY <1>0, <2>1, Zenon
  <1>6. CASE Teardown
    <2>1. UNCHANGED <<configured, ready, final_received, request_finished, closed>>
      BY <1>6, TeardownEffect
    <2>2. pending_frame' \in {pending_frame, FALSE}
      BY <1>6 DEF Teardown, AbortRequest, AbortReturns, ReleaseLocalResources,
                  AbortedDoneSent, CloseWebsocket
    <2>3. abort_sent' = abort_sent \/ abort_sent' = (~request_finished /\ configured)
      BY <1>6 DEF Teardown, AbortRequest, AbortReturns, ReleaseLocalResources,
                  AbortedDoneSent, CloseWebsocket
    <2>4. abort_sent' \in BOOLEAN
      BY <1>0, <2>3, Zenon
    <2> QED
      BY <1>0, <2>1, <2>2, <2>4, Zenon
  <1> QED
    BY <1>1, <1>2, <1>3, <1>4, <1>5, <1>6 DEF Next

\* What the worker does with the messages and their numbers.
LEMMA WorkerNumbers ==
    ASSUME TypeOK, Worker
    PROVE  \/ inputs' = inputs /\ next_seq_no' = next_seq_no /\ (Busy' => Busy)
           \/ inputs # << >> /\ inputs' = Tail(inputs) /\ next_seq_no' = next_seq_no
           \/ /\ inputs' = inputs /\ next_seq_no' = next_seq_no + 1 /\ worker = "submitting"
              /\ worker' = "accepting" /\ pending_frame' = pending_frame
  <1>1. CASE \/ GetClosed \/ (\E kind \in Kind : Refuse(kind) \/ PrepareInput(kind))
             \/ Configure \/ StoreFrame \/ StoreFails
    BY <1>1 DEF GetClosed, Refuse, PrepareInput, Configure, StoreFrame, StoreFails, Handle,
                input
  <1>2. CASE Configured \/ FrameReadySent \/ AcceptedSent \/ WorkerErrorSent
    <2>1. worker' \in {"get", "done"} /\ UNCHANGED <<inputs, next_seq_no, pending_frame>>
      BY <1>2 DEF Configured, FrameReadySent, AcceptedSent, WorkerErrorSent, NextGet, queue,
                  input
    <2> QED
      BY <2>1 DEF Busy
  <1>3. CASE ReserveFrame \/ ReservePrompt
    BY <1>3 DEF ReserveFrame, ReservePrompt, Busy
  <1>4. CASE PromptInvalid \/ ReserveClosed \/ WorkerSendFails \/ SubmitFails
    BY <1>4 DEF PromptInvalid, ReserveClosed, WorkerSendFails, SubmitFails, Busy, input
  <1>5. CASE Submitted
    BY <1>5 DEF Submitted
  <1> QED
    BY <1>1, <1>2, <1>3, <1>4, <1>5 DEF Worker

\* The input queue holds inputs.
LEMMA InputsType ==
    ASSUME TypeOK
    PROVE  /\ inputs \in Seq(Kind) /\ Len(inputs) \in Nat
           /\ inputs # << >> => /\ Tail(inputs) \in Seq(Kind)
                                /\ Len(inputs) >= 1 /\ Len(Tail(inputs)) = Len(inputs) - 1
  <1>1. inputs \in Seq(Kind)
    BY DEF TypeOK
  <1>2. Len(inputs) \in Nat
    BY <1>1, LenProperties
  <1> QED
    BY <1>1, <1>2, HeadTailProperties

\* Sequence numbers never run ahead of the messages.
LEMMA NumbersStep ==
    ASSUME TypeOK, Numbered, [Next]_vars
    PROVE  /\ (next_seq_no + Len(inputs) + (IF Busy THEN 1 ELSE 0) <= received)'
           /\ next_seq_no' \in SeqNo
  <1> DEFINE n == next_seq_no
             q == Len(inputs)
             b == IF Busy THEN 1 ELSE 0
  <1>0. /\ n \in Nat /\ q \in Nat /\ b \in {0, 1} /\ received \in Nat
        /\ n + q + b <= received /\ received <= MaxMessages /\ MaxMessages \in Nat
    BY InputsType, SizesAssumption DEF TypeOK, Numbered, SeqNo
  <1>a. SUFFICES n' + q' + b' <= received' /\ n' \in 0 .. MaxMessages
    BY DEF SeqNo
  <1>b. b' \in {0, 1}
    OBVIOUS
  <1>c. (Busy' => Busy) => b' <= b
    OBVIOUS
  <1>d. ASSUME NEW n1 \in Nat, NEW q1 \in Nat, NEW b1 \in {0, 1}, NEW n2 \in Nat,
               NEW q2 \in Nat, NEW b2 \in {0, 1}, NEW r \in Nat,
               n1 + q1 + b1 <= r, n2 = n1, q2 + b2 <= q1 + b1, r <= MaxMessages
        PROVE  n2 + q2 + b2 <= r /\ n2 \in 0 .. MaxMessages
    BY <1>0, <1>d
  <1> HIDE DEF b
  <1>1. CASE Receiver
    <2>1. UNCHANGED <<n, b>>
      BY <1>1, ReceiverEffect DEF Busy, b
    <2>2. \/ q' = q /\ received' = received
          \/ received' = received + 1 /\ q' \in {q, q + 1}
      <3>1. ASSUME NEW kind \in Kind, Receive(kind)
            PROVE  received' = received + 1 /\ q' = q + 1
        BY <3>1, InputsType, AppendProperties DEF Receive
      <3>2. CASE ReceiveInvalid
        BY <3>2 DEF ReceiveInvalid
      <3>3. CASE \/ QueueFull \/ FrameTooLarge \/ ConfigureTimeout \/ AbortMessage
                 \/ Disconnect \/ ReceiverErrorSent
        BY <3>3 DEF QueueFull, FrameTooLarge, ConfigureTimeout, AbortMessage, Disconnect,
                    EndReceiving, ReceiverErrorSent, queue
      <3> QED
        BY <1>1, <3>1, <3>2, <3>3 DEF Receiver
    <2> HIDE DEF n, q
    <2> QED
      BY <1>0, <2>1, <2>2 DEF n
  <1>2. CASE Worker
    <2>0. received' = received
      BY <1>2, WorkerEffect
    <2>1. CASE inputs' = inputs /\ next_seq_no' = next_seq_no /\ (Busy' => Busy)
      BY <1>0, <1>b, <1>c, <2>0, <2>1
    <2>2. CASE inputs # << >> /\ inputs' = Tail(inputs) /\ next_seq_no' = next_seq_no
      <3>1. q' = q - 1 /\ n' = n /\ q >= 1
        BY <2>2, InputsType
      <3>2. q' \in Nat /\ q' + b' <= q + b
        BY <1>0, <1>b, <3>1
      <3> QED
        BY <1>0, <1>b, <1>d, <2>0, <3>1, <3>2
    <2>3. CASE /\ inputs' = inputs /\ next_seq_no' = next_seq_no + 1 /\ worker = "submitting"
               /\ worker' = "accepting" /\ pending_frame' = pending_frame
      <3>1. b = 1 /\ b' = 0
        BY <2>3 DEF Numbered, Busy, b
      <3>2. q' = q /\ n' = n + 1
        BY <2>3
      <3> HIDE DEF n, q
      <3> QED
        BY <1>0, <2>0, <3>1, <3>2
    <2> QED
      BY <1>2, <2>1, <2>2, <2>3, WorkerNumbers
  <1>3. CASE RunEnds
    <2>1. Busy' => Busy
      BY <1>3 DEF RunEnds, Busy
    <2>2. received' = received /\ n' = n /\ q' = 0 /\ b' <= b
      BY <1>3, <1>c, <2>1 DEF RunEnds, TeardownFrame
    <2> QED
      <3>1. q' \in Nat /\ q' + b' <= q + b
        BY <1>0, <1>b, <2>2
      <3> QED
        <4>1. next_seq_no' = n /\ received' = received
          BY <2>2
        <4> HIDE DEF q, n
        <4>2. n + q' + b' <= received /\ n \in 0 .. MaxMessages
          BY <1>0, <1>b, <1>d, <3>1, ZenonT(60)
        <4> QED
          BY <4>1, <4>2 DEF n
  <1>4. CASE Response \/ ClientGone \/ Stage \/ Finished \/ UNCHANGED vars
    <2>1. UNCHANGED <<next_seq_no, inputs, worker, pending_frame, received>>
      BY <1>4, ResponseEffect, StageEffect DEF ClientGone, Finished, vars, tasks, queue, input
    <2>2. UNCHANGED <<received, n, q, b>>
      BY <2>1 DEF Busy, b
    <2> QED
      BY <1>0, <2>2
  <1>5. CASE Teardown
    <2>1. UNCHANGED <<next_seq_no, inputs, worker, received>>
          /\ pending_frame' \in {pending_frame, FALSE}
      BY <1>5, TeardownEffect DEF Teardown, AbortRequest, AbortReturns,
            ReleaseLocalResources, AbortedDoneSent, CloseWebsocket
    <2>2. Busy' => Busy
      <3>1. CASE pending_frame' = pending_frame
        BY <2>1, <3>1 DEF Busy
      <3>2. CASE pending_frame' = FALSE
        BY <2>1, <3>2 DEF Busy
      <3> QED
        BY <2>1, <3>1, <3>2
    <2>3. UNCHANGED <<received, n, q>> /\ b' <= b
      BY <1>c, <2>1, <2>2
    <2> QED
      BY <1>0, <1>b, <1>d, <2>3
  <1> QED
    BY <1>1, <1>2, <1>3, <1>4, <1>5 DEF Next

\* A sequence number is used up by a received message only.
LEMMA NumberedStep == ASSUME TypeOK, Numbered, [Next]_vars PROVE Numbered'
  <1>1. worker' = "accepting" => next_seq_no' > 0
    <2>1. CASE Worker
      <3>1. worker' = "accepting" => Submitted
        BY <2>1 DEF Worker, GetClosed, Refuse, PrepareInput, Configure, Configured,
                  ReserveFrame, FrameReadySent, ReservePrompt, Update, PromptInvalid,
                  ReserveClosed, StoreFrame, StoreFails, Submitted, SubmitFails,
                  AcceptedSent, WorkerSendFails, WorkerErrorSent, NextGet
      <3>2. Submitted => next_seq_no' > 0
        BY DEF Submitted, TypeOK, SeqNo
      <3> QED
        BY <3>1, <3>2
    <2>2. CASE ~Worker
      <3>1. worker' \in {worker, "done"} /\ next_seq_no' = next_seq_no
        BY <2>2, ReceiverEffect, ResponseEffect, TeardownEffect, StageEffect
           DEF Next, ClientGone, RunEnds, TeardownFrame, Finished, vars, tasks, input
      <3> QED
        BY <3>1 DEF Numbered
    <2> QED
      BY <2>1, <2>2
  <1>2. pending_frame' => worker' \notin {"reserve_frame", "reserve_prompt", "submitting",
                                          "refused"}
    <2>1. CASE Worker
      <3>1. CASE \E kind \in Kind : PrepareInput(kind)
        BY <3>1 DEF PrepareInput, Open, input
      <3>2. CASE ReservePrompt
        BY <3>2 DEF ReservePrompt, Numbered
      <3>3. CASE StoreFrame
        BY <3>3 DEF StoreFrame
      <3>4. CASE ~ReservePrompt /\ ~StoreFrame /\ \A kind \in Kind : ~PrepareInput(kind)
        BY <2>1, <3>4 DEF Worker, GetClosed, Refuse, Configure, Configured,
                  ReserveFrame, FrameReadySent, PromptInvalid, ReserveClosed, StoreFails,
                  Submitted, SubmitFails, AcceptedSent, WorkerSendFails, WorkerErrorSent,
                  NextGet
      <3> QED
        BY <3>1, <3>2, <3>3, <3>4
    <2>2. CASE ~Worker
      <3>1. worker' \in {worker, "done"} /\ pending_frame' \in {pending_frame, FALSE}
        <4>1. CASE Receiver \/ Response \/ Stage
          BY <4>1, ReceiverEffect, ResponseEffect, StageEffect
        <4>2. CASE Teardown
          BY <4>2, TeardownEffect DEF Teardown, AbortRequest, AbortReturns,
             ReleaseLocalResources, AbortedDoneSent, CloseWebsocket
        <4>3. CASE RunEnds \/ ClientGone \/ Finished \/ UNCHANGED vars
          BY <4>3 DEF RunEnds, ClientGone, Finished, vars, tasks, input
        <4> QED
          BY <2>2, <4>1, <4>2, <4>3 DEF Next
      <3> QED
        BY <3>1 DEF Numbered
    <2> QED
      BY <2>1, <2>2
  <1> QED
    BY <1>1, <1>2, NumbersStep DEF Numbered

\* What the tasks do to the data they share.
LEMMA ChunksType ==
    ASSUME TypeOK
    PROVE  /\ chunks \in Seq(Chunk) /\ Len(chunks) \in Nat
           /\ DOMAIN chunks = 1 .. Len(chunks)
           /\ \A k \in DOMAIN chunks : chunks[k] \in Chunk
           /\ chunks # << >> => /\ Head(chunks) = chunks[1] /\ 1 \in DOMAIN chunks
                                /\ Tail(chunks) \in Seq(Chunk)
                                /\ Len(Tail(chunks)) = Len(chunks) - 1
                                /\ DOMAIN Tail(chunks) = 1 .. Len(chunks) - 1
                                /\ \A k \in 1 .. Len(chunks) - 1 :
                                       /\ k + 1 \in DOMAIN chunks
                                       /\ Tail(chunks)[k] = chunks[k + 1]
  <1>1. chunks \in Seq(Chunk)
    BY DEF TypeOK
  <1>2. Len(chunks) \in Nat /\ DOMAIN chunks = 1 .. Len(chunks)
    BY <1>1, LenProperties
  <1>3. \A k \in DOMAIN chunks : chunks[k] \in Chunk
    BY <1>1, <1>2, ElementOfSeq
  <1>4. ASSUME chunks # << >>
        PROVE  /\ Head(chunks) = chunks[1] /\ Tail(chunks) \in Seq(Chunk)
               /\ Len(Tail(chunks)) = Len(chunks) - 1 /\ Len(chunks) >= 1
               /\ \A k \in 1 .. Len(Tail(chunks)) : Tail(chunks)[k] = chunks[k + 1]
    BY <1>1, <1>2, <1>4, HeadTailProperties
  <1>5. ASSUME chunks # << >> PROVE DOMAIN Tail(chunks) = 1 .. Len(chunks) - 1
    BY <1>4, <1>5, LenProperties
  <1> QED
    BY <1>1, <1>2, <1>3, <1>4, <1>5

\* The inbox of the stage holds sequence numbers, of which some are taken.
LEMMA InboxType ==
    ASSUME TypeOK
    PROVE  /\ inbox \in Seq(SeqNo) /\ Len(inbox) \in Nat
           /\ taken \in Nat /\ taken <= Len(inbox)
           /\ \A j \in 1 .. Len(inbox) : inbox[j] \in SeqNo
  <1>1. inbox \in Seq(SeqNo) /\ taken \in 0 .. Len(inbox)
    BY DEF TypeOK
  <1>2. Len(inbox) \in Nat
    BY <1>1, LenProperties
  <1> QED
    BY <1>1, <1>2, ElementOfSeq

\* The chunks of the stage are chunks.
LEMMA ChunkTypes ==
    /\ NoChunk \in Chunk
    /\ \A kind \in {"ready", "interrupted", "processed", "end", "error"}, n \in SeqNo :
           [kind |-> kind, seq_no |-> n] \in Chunk
  BY SizesAssumption DEF NoChunk, Chunk, SeqNo

\* The stage appends one or two chunks.
LEMMA StageChunks ==
    ASSUME TypeOK, Stage
    PROVE  /\ chunks' \in Seq(Chunk)
           /\ \/ /\ \E c \in Chunk : c.kind \in {"ready", "end", "error"}
                                     /\ chunks' = Append(chunks, c)
                 /\ UNCHANGED <<segments, taken>>
              \/ \E interrupts \in BOOLEAN : StageTake(interrupts)
  <1>0. chunks \in Seq(Chunk) /\ 0 \in SeqNo
    BY SizesAssumption DEF TypeOK, SeqNo
  <1>1. \A c \in Chunk : chunks \o <<c>> = Append(chunks, c) /\ Append(chunks, c) \in Seq(Chunk)
    BY <1>0, AppendProperties, AppendIsConcat
  <1>2. CASE StageReady
    BY <1>1, <1>2, ChunkTypes DEF StageReady, Emit, NoChunk
  <1>3. ASSUME NEW kind \in {"end", "error"}, StageEnds(kind)
        PROVE  /\ chunks' \in Seq(Chunk) /\ UNCHANGED <<segments, taken>>
               /\ \E c \in Chunk : c.kind \in {"ready", "end", "error"}
                                   /\ chunks' = Append(chunks, c)
    <2> DEFINE c == [kind |-> kind, seq_no |-> 0]
    <2>1. c \in Chunk /\ c.kind = kind
      BY <1>0, ChunkTypes
    <2>2. chunks' = chunks \o <<c>> /\ UNCHANGED <<segments, taken>>
      BY <1>3 DEF StageEnds, Emit
    <2> HIDE DEF c
    <2> QED
      BY <1>1, <1>3, <2>1, <2>2
  <1>4. ASSUME NEW interrupts \in BOOLEAN, StageTake(interrupts) PROVE chunks' \in Seq(Chunk)
    <2> DEFINE n == inbox[taken + 1]
               i == [kind |-> "interrupted", seq_no |-> n]
               p == [kind |-> "processed", seq_no |-> n]
    <2>1. n \in SeqNo
      BY <1>4, InboxType DEF StageTake
    <2>2. i \in Chunk /\ p \in Chunk
      BY <2>1, ChunkTypes
    <2>3. chunks' = chunks \o (<<i>> \o <<p>>) \/ chunks' = chunks \o <<p>>
      BY <1>4 DEF StageTake, Emit
    <2> HIDE DEF i, p
    <2>4. <<i>> \in Seq(Chunk) /\ <<p>> \in Seq(Chunk)
      BY <2>2
    <2>5. <<i>> \o <<p>> \in Seq(Chunk)
      BY <2>4, ConcatProperties
    <2>6. \A s \in Seq(Chunk) : chunks \o s \in Seq(Chunk)
      BY <1>0, ConcatProperties
    <2> QED
      BY <2>3, <2>4, <2>5, <2>6
  <1> QED
    BY <1>2, <1>3, <1>4 DEF Stage

\* What is sent is an event.
LEMMA WireType ==
    ASSUME TypeOK, NEW type \in {"accepted", "interrupted", "processed", "done"},
           NEW n \in SeqNo, Sent(type, n)
    PROVE  wire' \in Seq(Event)
  <1>1. [type |-> type, seq_no |-> n] \in Event /\ wire \in Seq(Event)
    BY DEF Event, TypeOK
  <1> QED
    BY <1>1, AppendProperties DEF Sent

\* Credits are taken and accepted by the worker, and given back by both.
LEMMA CreditEffect ==
    ASSUME TypeOK, [Next]_vars
    PROVE  \/ credit' = credit
           \/ \E n \in SeqNo, v \in {"free", "taken", "accepted"} :
                  credit' = [credit EXCEPT ![n] = v]
           \/ credit' = [n \in SeqNo |-> "free"]
  <1>0. /\ next_seq_no \in SeqNo /\ chunk \in Chunk /\ chunk.seq_no \in SeqNo
        /\ credit \in [SeqNo -> {"free", "taken", "accepted"}]
    BY DEF TypeOK, Chunk
  <1>1. CASE Worker
    <2>1. CASE AcceptedSent
      <3> DEFINE n == next_seq_no - 1
      <3>1. credit' = [credit EXCEPT ![n] = IF @ = "taken" THEN "accepted" ELSE @]
        BY <2>1 DEF AcceptedSent
      <3>2. CASE n \in SeqNo
        BY <1>0, <3>1, <3>2
      <3>3. CASE n \notin SeqNo
        BY <1>0, <3>1, <3>3
      <3> QED
        BY <3>2, <3>3
    <2>2. CASE ~AcceptedSent
      BY <1>0, <1>1, <2>2 DEF Worker, GetClosed, Refuse, PrepareInput, Configure, Configured,
                ReserveFrame, FrameReadySent, ReservePrompt, PromptInvalid, ReserveClosed,
                StoreFrame, StoreFails, Submitted, SubmitFails, ReleaseInput,
                WorkerSendFails, WorkerErrorSent, input
    <2> QED
      BY <2>1, <2>2
  <1>2. CASE Response
    BY <1>0, <1>2 DEF Response, ReadyChunk, InputChunk, Interrupted, Processed, ChunkSent,
              EndChunk, DoneSent, ErrorChunk, ResponseSendFails, ResponseErrorSent,
              ResponseCloses, ReleaseInput, CloseInputQueue
  <1>3. CASE Teardown
    BY <1>3 DEF Teardown, AbortRequest, AbortReturns, ReleaseLocalResources,
           AbortedDoneSent, CloseWebsocket, CloseInputQueue
  <1>4. CASE Receiver \/ Stage \/ ClientGone \/ RunEnds \/ Finished \/ UNCHANGED vars
    BY <1>4, ReceiverEffect, StageEffect DEF ClientGone, RunEnds, Finished, vars, input
  <1> QED
    BY <1>1, <1>2, <1>3, <1>4 DEF Next

\* Frames are stored by the worker and unlinked by the stage.
LEMMA FramesStep == ASSUME TypeOK, [Next]_vars PROVE (names \subseteq SeqNo /\ segments \subseteq SeqNo)'
  <1>0. next_seq_no \in SeqNo /\ names \subseteq SeqNo /\ segments \subseteq SeqNo
    BY DEF TypeOK
  <1>1. CASE Worker
    BY <1>0, <1>1 DEF Worker, GetClosed, Refuse, PrepareInput, Configure, Configured,
              ReserveFrame, FrameReadySent, ReservePrompt, PromptInvalid, ReserveClosed,
              StoreFrame, StoreFails, Submitted, SubmitFails, Discard, AcceptedSent,
              WorkerSendFails, WorkerErrorSent, frames
  <1>2. CASE Response
    BY <1>0, <1>2 DEF Response, ReadyChunk, InputChunk, Interrupted, Processed, ChunkSent,
              EndChunk, DoneSent, ErrorChunk, ResponseSendFails, ResponseErrorSent,
              ResponseCloses, Cleanup, frames
  <1>3. CASE Teardown
    BY <1>0, <1>3 DEF Teardown, AbortRequest, AbortReturns, ReleaseLocalResources,
           AbortedDoneSent, CloseWebsocket, Cleanup, frames
  <1>4. CASE Receiver \/ ClientGone \/ RunEnds \/ Finished \/ UNCHANGED vars
    BY <1>0, <1>4, ReceiverEffect DEF ClientGone, RunEnds, Finished, vars, frames
  <1>5. CASE Stage
    <2>1. segments' \subseteq segments
      BY <1>5 DEF Stage, StageReady, StageTake, StageEnds
    <2> QED
      BY <1>0, <1>5, <2>1, StageEffect
  <1> QED
    BY <1>1, <1>2, <1>3, <1>4, <1>5 DEF Next

\* The request at the stage, and what is said to the client.
LEMMA RequestStep ==
    ASSUME TypeOK, Numbered, Holding, [Next]_vars
    PROVE  /\ chunk' \in Chunk /\ chunks' \in Seq(Chunk)
           /\ inbox' \in Seq(SeqNo) /\ taken' \in 0 .. Len(inbox')
           /\ wire' \in Seq(Event)
  <1>0. /\ chunk \in Chunk /\ chunks \in Seq(Chunk) /\ inbox \in Seq(SeqNo)
        /\ taken \in 0 .. Len(inbox) /\ wire \in Seq(Event)
        /\ next_seq_no \in SeqNo /\ chunk.seq_no \in SeqNo /\ 0 \in SeqNo
        /\ chunk.kind \in {"ready", "interrupted", "processed", "end", "error"}
        /\ Len(inbox) \in Nat
    BY SizesAssumption, InboxType DEF TypeOK, Chunk, SeqNo
  <1>1. CASE Worker
    <2>1. UNCHANGED <<chunk, chunks, taken>>
      BY <1>1, WorkerEffect
    <2>2. wire' \in Seq(Event)
      <3>1. CASE AcceptedSent
        <4>1. next_seq_no - 1 \in SeqNo
          <5>1. next_seq_no > 0
            BY <3>1 DEF AcceptedSent, Numbered
          <5>2. next_seq_no \in 0 .. MaxMessages
            BY <1>0 DEF SeqNo
          <5>3. next_seq_no - 1 \in 0 .. MaxMessages
            BY <5>1, <5>2, SizesAssumption
          <5> QED
            BY <5>3 DEF SeqNo
        <4> QED
          BY <3>1, <4>1, WireType DEF AcceptedSent
      <3>2. CASE ~AcceptedSent
        BY <1>0, <1>1, <3>2 DEF Worker, GetClosed, Refuse, PrepareInput, Configure,
              Configured, ReserveFrame, FrameReadySent, ReservePrompt, PromptInvalid,
              ReserveClosed, StoreFrame, StoreFails, Submitted, SubmitFails, AcceptedSent,
              WorkerSendFails, WorkerErrorSent
      <3> QED
        BY <3>1, <3>2
    <2>3. inbox' \in {inbox, Append(inbox, next_seq_no)}
      BY <1>1 DEF Worker, GetClosed, Refuse, PrepareInput, Configure, Configured,
              ReserveFrame, FrameReadySent, ReservePrompt, Update, PromptInvalid,
              ReserveClosed, StoreFrame, StoreFails, Submitted, SubmitFails, AcceptedSent,
              WorkerSendFails, WorkerErrorSent, request
    <2>4. Append(inbox, next_seq_no) \in Seq(SeqNo)
          /\ Len(Append(inbox, next_seq_no)) = Len(inbox) + 1
      BY <1>0, AppendProperties
    <2>5. inbox' \in Seq(SeqNo) /\ taken' \in 0 .. Len(inbox')
      BY <1>0, <2>1, <2>3, <2>4
    <2> QED
      BY <1>0, <2>1, <2>2, <2>5
  <1>2. CASE Response
    <2>1. inbox' = inbox /\ taken' = taken
      BY <1>2, ResponseEffect
    <2>2. chunks' = chunks \/ (chunks # << >> /\ chunks' = Tail(chunks))
      BY <1>2 DEF Response, ReadyChunk, InputChunk, Interrupted, Processed, ChunkSent,
              EndChunk, DoneSent, ErrorChunk, ResponseSendFails, ResponseErrorSent,
              ResponseCloses, NextChunk
    <2>3. chunk' \in {chunk, NoChunk} \/ (chunks # << >> /\ chunk' = Head(chunks))
      BY <1>2 DEF Response, ReadyChunk, InputChunk, Interrupted, Processed, ChunkSent,
              EndChunk, DoneSent, ErrorChunk, ResponseSendFails, ResponseErrorSent,
              ResponseCloses, NextChunk
    <2>4. wire' \in Seq(Event)
      <3>1. CASE wire' = wire
        BY <1>0, <3>1
      <3>2. CASE Sent("done", 0)
        BY <1>0, <3>2, WireType
      <3>3. CASE chunk.kind # "ready" /\ Sent(chunk.kind, chunk.seq_no)
        <4>1. chunk.kind \in {"interrupted", "processed"}
          BY <3>3 DEF Holding, IsAnswer, NoChunk
        <4> QED
          BY <1>0, <3>3, <4>1, WireType
      <3>4. wire' = wire \/ Sent("done", 0)
            \/ (chunk.kind # "ready" /\ Sent(chunk.kind, chunk.seq_no))
        BY <1>2 DEF Response, ReadyChunk, InputChunk, Interrupted, Processed, ChunkSent,
              EndChunk, DoneSent, ErrorChunk, ResponseSendFails, ResponseErrorSent,
              ResponseCloses
      <3> QED
        BY <3>1, <3>2, <3>3, <3>4
    <2> QED
      BY <1>0, <2>1, <2>2, <2>3, <2>4, ChunksType, ChunkTypes
  <1>3. CASE Teardown
    <2>1. UNCHANGED <<chunks, inbox, taken>>
      BY <1>3, TeardownEffect
    <2>2. chunk' \in {chunk, NoChunk} /\ (wire' = wire \/ Sent("done", 0))
      BY <1>3 DEF Teardown, AbortRequest, AbortReturns, ReleaseLocalResources,
             AbortedDoneSent, CloseWebsocket
    <2> QED
      BY <1>0, <2>1, <2>2, WireType, ChunkTypes
  <1>4. CASE Receiver \/ ClientGone \/ RunEnds \/ Finished \/ UNCHANGED vars
    <2>1. UNCHANGED <<chunk, chunks, inbox, taken, wire>>
      BY <1>4, ReceiverEffect DEF ClientGone, RunEnds, TeardownFrame, Finished, vars, tasks,
              request
    <2> QED
      BY <1>0, <2>1
  <1>5. CASE Stage
    <2>1. UNCHANGED <<chunk, inbox, wire>>
      BY <1>5, StageEffect
    <2>2. taken' \in 0 .. Len(inbox)
      <3>1. taken' = taken \/ (taken' = taken + 1 /\ taken < Len(inbox))
        BY <1>5 DEF Stage, StageReady, StageTake, StageEnds
      <3> QED
        BY <1>0, <3>1
    <2> QED
      BY <1>0, <1>5, <2>1, <2>2, StageChunks
  <1> QED
    BY <1>1, <1>2, <1>3, <1>4, <1>5 DEF Next

\* Every step keeps the types.
LEMMA TypeStep == ASSUME TypeOK, Numbered, Holding, [Next]_vars PROVE TypeOK'
  <1>0. /\ inputs \in Seq(Kind) /\ Len(inputs) \in Nat /\ Len(inputs) <= 2 * MaxCapacity + 2
        /\ received \in 0 .. MaxMessages /\ capacity \in 1 .. MaxCapacity
        /\ MaxMessages \in Nat /\ MaxCapacity \in Nat
    BY InputsType, SizesAssumption DEF TypeOK
  <1>1. /\ inputs' \in Seq(Kind) /\ Len(inputs') <= 2 * MaxCapacity + 2
        /\ received' \in 0 .. MaxMessages /\ capacity' \in 1 .. MaxCapacity
    <2>1. ASSUME NEW kind \in Kind, Receive(kind)
          PROVE  /\ inputs' \in Seq(Kind) /\ Len(inputs') <= 2 * MaxCapacity + 2
                 /\ received' \in 0 .. MaxMessages /\ capacity' = capacity
      <3>1. /\ inputs' = Append(inputs, kind) /\ Len(inputs) < 2 * capacity + 2
            /\ received' = received + 1 /\ received < MaxMessages /\ capacity' = capacity
        BY <2>1 DEF Receive, flags
      <3>2. inputs' \in Seq(Kind) /\ Len(inputs') = Len(inputs) + 1
        BY <1>0, <3>1, AppendProperties
      <3> DEFINE q == Len(inputs)
      <3>3. q \in Nat /\ Len(inputs') = q + 1 /\ q < 2 * capacity + 2
        BY <1>0, <3>1, <3>2
      <3> HIDE DEF q
      <3>4. q + 1 <= 2 * MaxCapacity + 2 /\ received + 1 \in 0 .. MaxMessages
        BY <1>0, <3>1, <3>3
      <3> QED
        BY <3>1, <3>2, <3>3, <3>4
    <2>2. CASE Receiver
      <3>1. ASSUME ~(\E kind \in Kind : Receive(kind))
            PROVE  /\ inputs' = inputs
                   /\ \/ received' = received
                      \/ received' = received + 1 /\ received < MaxMessages
        BY <2>2, <3>1 DEF Receiver, ReceiveInvalid, QueueFull, FrameTooLarge,
              ConfigureTimeout, AbortMessage, Disconnect, EndReceiving, ReceiverErrorSent,
              queue
      <3>2. capacity' = capacity
        BY <2>2, ReceiverEffect
      <3> QED
        BY <1>0, <2>1, <3>1, <3>2
    <2>3. CASE Worker
      <3>1. received' = received
        BY <2>3, WorkerEffect
      <3>2. capacity' = capacity \/ capacity' \in 1 .. MaxCapacity
        BY <2>3 DEF Worker, GetClosed, Refuse, PrepareInput, Configure, Configured,
              ReserveFrame, FrameReadySent, ReservePrompt, PromptInvalid, ReserveClosed,
              StoreFrame, StoreFails, Submitted, SubmitFails, AcceptedSent,
              WorkerSendFails, WorkerErrorSent, flags
      <3>3. inputs' = inputs \/ (inputs # << >> /\ inputs' = Tail(inputs))
        BY <2>3, WorkerNumbers
      <3>4. inputs' \in Seq(Kind) /\ Len(inputs') <= Len(inputs) /\ Len(inputs') \in Nat
        BY <1>0, <3>3, InputsType
      <3> DEFINE q == Len(inputs)
                 p == Len(inputs')
      <3>5. q \in Nat /\ p \in Nat /\ p <= q /\ q <= 2 * MaxCapacity + 2
        BY <1>0, <3>4
      <3> HIDE DEF q, p
      <3>6. p <= 2 * MaxCapacity + 2
        BY <1>0, <3>5
      <3> QED
        BY <1>0, <3>1, <3>2, <3>4, <3>6 DEF p
    <2>4. CASE RunEnds
      <3>1. inputs' = << >> /\ UNCHANGED <<received, capacity>>
        BY <2>4 DEF RunEnds, TeardownFrame
      <3>2. inputs' \in Seq(Kind) /\ Len(inputs') = 0
        BY <3>1
      <3> QED
        BY <1>0, <3>1, <3>2
    <2>5. CASE Response \/ Teardown \/ Stage \/ ClientGone \/ Finished \/ UNCHANGED vars
      <3>1. UNCHANGED <<inputs, received, capacity>>
        BY <2>5, ResponseEffect, TeardownEffect, StageEffect
           DEF ClientGone, Finished, vars, queue, flags
      <3> QED
        BY <1>0, <3>1
    <2> QED
      BY <2>2, <2>3, <2>4, <2>5 DEF Next
  <1>2. credit' \in [SeqNo -> {"free", "taken", "accepted"}]
    <2>1. credit \in [SeqNo -> {"free", "taken", "accepted"}]
      BY DEF TypeOK
    <2> QED
      BY <2>1, CreditEffect
  <1>3. DataOK'
    BY <1>1, <1>2, NumbersStep, FramesStep, RequestStep DEF DataOK
  <1>4. (ControlOK /\ FlagsOK /\ DataOK)'
    BY <1>3, ControlStep, FlagsStep
  <1> QED
    BY <1>4 DEF TypeOK, ControlOK, FlagsOK, DataOK

-----------------------------------------------------------------------------
(* The life of the request and of the session.                             *)

\* Every step keeps the order of configuration and submission.
LEMMA OrderedStep == ASSUME TypeOK, Ordered, [Next]_vars PROVE Ordered'
  <1>1. CASE Receiver
    <2>1. UNCHANGED <<response, stage, chunks, ready, configured, worker, inbox, credit,
                      pending_frame>>
      BY <1>1, ReceiverEffect
    <2> QED
      BY <2>1 DEF Ordered, Busy
  <1>2. CASE ClientGone \/ Finished \/ UNCHANGED vars
    <2>1. UNCHANGED <<response, stage, chunks, ready, configured, worker, inbox, credit,
                      pending_frame>>
      BY <1>2 DEF ClientGone, Finished, vars, tasks, flags, input, request
    <2> QED
      BY <2>1 DEF Ordered, Busy
  <1>3. CASE RunEnds
    <2>1. UNCHANGED <<response, stage, chunks, ready, configured, inbox, credit,
                      pending_frame>> /\ worker' = "done"
      BY <1>3 DEF RunEnds, TeardownFrame, request
    <2> QED
      BY <2>1 DEF Ordered, Busy
  <1>4. CASE Stage
    <2>1. UNCHANGED <<response, ready, configured, worker, inbox, credit, pending_frame>>
          /\ stage # "none"
      BY <1>4, StageEffect
    <2> QED
      BY <2>1 DEF Ordered, Busy
  <1>5. CASE Response
    <2>1. UNCHANGED <<stage, configured, worker, inbox, pending_frame>>
          /\ response # "none" /\ response' # "none"
      BY <1>5, ResponseEffect
    <2>2. CASE ready'= FALSE
      <3>1. ready = FALSE /\ inbox = << >> /\ credit = [n \in SeqNo |-> "free"] /\ ~Busy
            /\ worker # "accepting"
        <4>1. ready = FALSE
          BY <1>5, <2>2 DEF Response, ReadyChunk, InputChunk, Interrupted, Processed,
             ChunkSent, EndChunk, DoneSent, ErrorChunk, ResponseSendFails,
             ResponseErrorSent, ResponseCloses
        <4> QED
          BY <4>1 DEF Ordered
      <3>2. credit' = credit \/ credit' = [n \in SeqNo |-> "free"]
            \/ credit' = [credit EXCEPT ![chunk.seq_no] = "free"]
        BY <1>5 DEF Response, ReadyChunk, InputChunk, Interrupted, Processed, ChunkSent,
             EndChunk, DoneSent, ErrorChunk, ResponseSendFails, ResponseErrorSent,
             ResponseCloses, ReleaseInput, CloseInputQueue
      <3>3. credit' = [n \in SeqNo |-> "free"]
        BY <3>1, <3>2
      <3> QED
        BY <2>1, <3>1, <3>3 DEF Ordered, Busy
    <2>3. CASE ready' # FALSE
      <3>1. ready' = TRUE
        BY <2>3, FlagsStep, Zenon DEF FlagsOK
      <3> QED
        BY <2>1, <3>1 DEF Ordered
    <2> QED
      BY <2>2, <2>3
  <1>6. CASE Teardown
    <2>1. UNCHANGED <<stage, chunks, ready, configured, worker, inbox>>
      BY <1>6, TeardownEffect
    <2>2. (response' = "none" => response = "none") /\ (response = "none" => response' = "none")
      BY <1>6 DEF Teardown, AbortRequest, AbortReturns, ReleaseLocalResources,
             AbortedDoneSent, CloseWebsocket
    <2>3. credit' = credit \/ credit' = [n \in SeqNo |-> "free"]
      BY <1>6 DEF Teardown, AbortRequest, AbortReturns, ReleaseLocalResources,
             AbortedDoneSent, CloseWebsocket, CloseInputQueue
    <2>4. Busy' => Busy
      <3>1. pending_frame' = pending_frame \/ pending_frame' = FALSE
        BY <1>6 DEF Teardown, AbortRequest, AbortReturns, ReleaseLocalResources,
             AbortedDoneSent, CloseWebsocket
      <3> QED
        BY <2>1, <3>1 DEF Busy
    <2> QED
      BY <2>1, <2>2, <2>3, <2>4 DEF Ordered
  <1>7. CASE Worker
    <2>0. UNCHANGED <<chunks, ready>>
      BY <1>7, WorkerEffect
    <2>1. CASE Configured
      <3>1. /\ worker = "configuring" /\ response' = "streaming" /\ worker' \in {"get", "done"}
            /\ UNCHANGED <<configured, inbox, credit, pending_frame>>
        BY <2>1 DEF Configured, NextGet, flags, input
      <3> QED
        BY <2>0, <3>1 DEF Ordered, Busy
    <2>2. CASE Configure
      <3>1. /\ configured' = TRUE /\ worker' = "configuring" /\ ~configured
            /\ UNCHANGED <<inbox, credit, pending_frame, response, stage>>
        BY <2>2 DEF Configure, WorkerFrame, input, request
      <3> QED
        BY <2>0, <3>1 DEF Ordered, Busy
    <2>3. CASE ~Configured /\ ~Configure
      <3>1. UNCHANGED <<response, stage, configured>>
        <4>1. configured' = configured
          BY <1>7, <2>3 DEF Worker, GetClosed, Refuse, PrepareInput, ReserveFrame,
              FrameReadySent, ReservePrompt, PromptInvalid, ReserveClosed, StoreFrame,
              StoreFails, Submitted, SubmitFails, AcceptedSent, WorkerSendFails,
              WorkerErrorSent
        <4> QED
          BY <1>7, <2>3, <4>1, WorkerEffect
      <3>2. worker' # "configuring"
        BY <1>7, <2>3 DEF Worker, GetClosed, Refuse, PrepareInput, ReserveFrame,
              FrameReadySent, ReservePrompt, Update, PromptInvalid, ReserveClosed,
              StoreFrame, StoreFails, Submitted, SubmitFails, AcceptedSent,
              WorkerSendFails, WorkerErrorSent, NextGet
      <3>3. ASSUME ~ready
            PROVE  /\ UNCHANGED <<inbox, credit>> /\ ~Busy' /\ worker' # "accepting"
        <4>1. ~Busy /\ worker # "accepting"
          BY <3>3 DEF Ordered
        <4>2. \/ GetClosed \/ \E kind \in Kind : Refuse(kind)
              \/ WorkerSendFails \/ WorkerErrorSent
          BY <1>7, <2>3, <3>3, <4>1 DEF Busy, Worker, PrepareInput, Open, ReserveFrame,
              FrameReadySent, ReservePrompt, PromptInvalid, ReserveClosed, StoreFrame,
              StoreFails, Submitted, SubmitFails, AcceptedSent
        <4>3. /\ UNCHANGED <<inbox, credit, pending_frame>>
              /\ worker' \in {"done", "error", "get"}
          BY <4>2 DEF GetClosed, Refuse, WorkerSendFails, WorkerErrorSent, input, request
        <4> QED
          BY <4>1, <4>3 DEF Busy
      <3> QED
        BY <2>0, <3>1, <3>2, <3>3 DEF Ordered
    <2> QED
      BY <2>1, <2>2, <2>3
  <1> QED
    BY <1>1, <1>2, <1>3, <1>4, <1>5, <1>6, <1>7 DEF Next

\* Every step keeps the order of the teardown.
LEMMA EndingStep == ASSUME TypeOK, Ending, [Next]_vars PROVE Ending'
  <1>1. CASE Receiver
    <2>1. UNCHANGED <<main, worker, response, names, request_finished>>
          /\ closed' \in {closed, TRUE}
      BY <1>1, ReceiverEffect
    <2>2. closed => closed'
      BY <2>1
    <2> QED
      BY <2>1, <2>2 DEF Ending
  <1>2. CASE ClientGone \/ Stage \/ Finished \/ UNCHANGED vars
    <2>1. UNCHANGED <<main, worker, response, names, request_finished, closed>>
      BY <1>2, StageEffect DEF ClientGone, Finished, vars, tasks, flags, frames
    <2> QED
      BY <2>1 DEF Ending
  <1>3. CASE Worker
    <2>1. /\ main = "running" /\ main' = main /\ request_finished' = request_finished
          /\ (response' = "finishing" => response = "finishing")
      BY <1>3, WorkerEffect DEF Ending, Configured, TypeOK
    <2> QED
      BY <2>1 DEF Ending
  <1>4. CASE Response
    <2>1. main' = main /\ worker' = worker /\ response \notin {"none", "done"}
      BY <1>4, ResponseEffect
    <2>2. main \notin {"done_send", "closing", "over"}
      BY <2>1 DEF Ending
    <2>3. closed => closed'
      BY <1>4 DEF Response, ReadyChunk, InputChunk, Interrupted, Processed, ChunkSent,
             EndChunk, DoneSent, ErrorChunk, ResponseSendFails, ResponseErrorSent,
             ResponseCloses
    <2>4. response' = "finishing" => request_finished'
      BY <1>4 DEF Response, ReadyChunk, InputChunk, Interrupted, Processed, ChunkSent,
             EndChunk, DoneSent, ErrorChunk, ResponseSendFails, ResponseErrorSent,
             ResponseCloses, Raised
    <2> QED
      BY <2>1, <2>2, <2>3, <2>4 DEF Ending
  <1>5. CASE RunEnds
    BY <1>5 DEF RunEnds, TeardownFrame, Ending
  <1>6. CASE Teardown
    <2>1. UNCHANGED <<worker, closed, request_finished>> /\ main # "running"
      BY <1>6, TeardownEffect
    <2>2. CASE ReleaseLocalResources
      <3>1. response' \in {"none", "done"} /\ names' = {}
            /\ (main' = "done_send" => ~request_finished)
        BY <2>2 DEF ReleaseLocalResources, Cleanup
      <3> QED
        BY <2>1, <3>1 DEF Ending
    <2>3. CASE ~ReleaseLocalResources
      <3>1. UNCHANGED <<response, names>>
            /\ (main' \in {"done_send", "closing", "over"} => main \in {"done_send", "closing", "over"})
            /\ main' # "done_send"
        BY <1>6, <2>3 DEF Teardown, AbortRequest, AbortReturns, AbortedDoneSent,
           CloseWebsocket, frames
      <3> QED
        BY <2>1, <3>1 DEF Ending
    <2> QED
      BY <2>2, <2>3
  <1> QED
    BY <1>1, <1>2, <1>3, <1>4, <1>5, <1>6 DEF Next

-----------------------------------------------------------------------------
(* What the client is told.                                                *)

\* A message at the end of the wire.
Says(type, n) == ws = "open" /\ wire' = Append(wire, [type |-> type, seq_no |-> n])

\* Who says what.
LEMMA WireEffect ==
    ASSUME Holding, [Next]_vars
    PROVE  /\ ws # "open" => ws' # "open"
           /\ \/ wire' = wire
              \/ AcceptedSent /\ Says("accepted", next_seq_no - 1)
              \/ ChunkSent /\ IsAnswer(chunk) /\ Says(chunk.kind, chunk.seq_no)
              \/ (DoneSent \/ AbortedDoneSent) /\ Says("done", 0)
  <1>1. CASE Receiver \/ Stage
    BY <1>1, ReceiverEffect, StageEffect
  <1>2. CASE ClientGone \/ RunEnds \/ Finished \/ UNCHANGED vars
    BY <1>2 DEF ClientGone, RunEnds, Finished, vars
  <1>3. CASE Worker
    <2>1. ws' = ws
      BY <1>3, WorkerEffect
    <2>2. wire' = wire \/ AcceptedSent
      BY <1>3 DEF Worker, GetClosed, Refuse, PrepareInput, Configure, Configured,
              ReserveFrame, FrameReadySent, ReservePrompt, PromptInvalid, ReserveClosed,
              StoreFrame, StoreFails, Submitted, SubmitFails, WorkerSendFails,
              WorkerErrorSent
    <2> QED
      BY <2>1, <2>2 DEF AcceptedSent, Sent, Says
  <1>4. CASE Response
    <2>1. ws # "open" => ws' # "open"
      BY <1>4 DEF Response, ReadyChunk, InputChunk, Interrupted, Processed, ChunkSent,
             EndChunk, DoneSent, ErrorChunk, ResponseSendFails, ResponseErrorSent,
             ResponseCloses
    <2>2. wire' = wire \/ ChunkSent \/ DoneSent
      BY <1>4 DEF Response, ReadyChunk, InputChunk, Interrupted, Processed,
             EndChunk, ErrorChunk, ResponseSendFails, ResponseErrorSent, ResponseCloses
    <2>3. ChunkSent => wire' = wire \/ (IsAnswer(chunk) /\ Says(chunk.kind, chunk.seq_no))
      BY DEF ChunkSent, Sent, Says, Holding, NoChunk
    <2> QED
      BY <2>1, <2>2, <2>3 DEF DoneSent, Sent, Says
  <1>5. CASE Teardown
    BY <1>5 DEF Teardown, AbortRequest, AbortReturns, ReleaseLocalResources,
           AbortedDoneSent, CloseWebsocket, Sent, Says
  <1> QED
    BY <1>1, <1>2, <1>3, <1>4, <1>5 DEF Next

\* A sent event is the last one on the wire, and the others stay.
LEMMA SaysEffect ==
    ASSUME TypeOK, NEW type, NEW n, Says(type, n), wire' \in Seq(Event)
    PROVE  /\ Len(wire) \in Nat /\ DOMAIN wire = 1 .. Len(wire)
           /\ DOMAIN wire' = DOMAIN wire \cup {Len(wire) + 1}
           /\ Len(wire) + 1 \notin DOMAIN wire
           /\ \A k \in DOMAIN wire : wire'[k] = wire[k] /\ k < Len(wire) + 1
           /\ wire'[Len(wire) + 1] = [type |-> type, seq_no |-> n]
  <1> DEFINE e == [type |-> type, seq_no |-> n]
  <1>1. wire \in Seq(Event) /\ wire' = Append(wire, e)
    BY DEF TypeOK, Says
  <1> HIDE DEF e
  <1>2. wire \in Seq(Event \cup {e}) /\ e \in Event \cup {e}
    BY <1>1
  <1>3. Len(wire) \in Nat /\ DOMAIN wire = 1 .. Len(wire)
    BY <1>1, LenProperties
  <1>4. /\ Len(wire') = Len(wire) + 1
        /\ \A k \in 1 .. Len(wire) : wire'[k] = wire[k]
        /\ wire'[Len(wire) + 1] = e
    BY <1>1, <1>2, AppendProperties
  <1>5. DOMAIN wire' = 1 .. Len(wire) + 1
    BY <1>4, LenProperties
  <1> DEFINE m == Len(wire)
  <1>6. m \in Nat /\ DOMAIN wire = 1 .. m /\ DOMAIN wire' = 1 .. m + 1
    BY <1>3, <1>5
  <1> HIDE DEF m
  <1>7. /\ 1 .. m + 1 = 1 .. m \cup {m + 1} /\ m + 1 \notin 1 .. m
        /\ \A k \in 1 .. m : k < m + 1
    BY <1>6
  <1> QED
    BY <1>3, <1>4, <1>6, <1>7 DEF e, m

\* Nothing that was said is unsaid.
LEMMA ToldStays ==
    ASSUME TypeOK, Numbered, Holding, [Next]_vars, NEW n, Told(n)
    PROVE  Told(n)'
  <1> DEFINE e == [type |-> "accepted", seq_no |-> n]
  <1>0. wire' \in Seq(Event)
    BY RequestStep
  <1>1. CASE ws # "open"
    BY <1>1, WireEffect DEF Told
  <1>2. CASE OnWire(e)
    <2>1. PICK k \in DOMAIN wire : wire[k] = e
      BY <1>2 DEF OnWire
    <2>2. k \in DOMAIN wire' /\ wire'[k] = e
      <3>1. CASE wire' = wire
        BY <2>1, <3>1
      <3>2. ASSUME NEW type, NEW m, Says(type, m)
            PROVE  k \in DOMAIN wire' /\ wire'[k] = e
        BY <1>0, <2>1, <3>2, SaysEffect
      <3> QED
        BY <3>1, <3>2, WireEffect
    <2> QED
      BY <2>2 DEF Told, OnWire
  <1> QED
    BY <1>1, <1>2 DEF Told

\* session.done is said once.
LEMMA DoneStep ==
    ASSUME TypeOK, Numbered, Holding, Ordered, Ending, DoneSentBy, [Next]_vars
    PROVE  /\ DoneSentBy'
           /\ DoneSent \/ AbortedDoneSent => \A k \in DOMAIN wire : wire[k].type # "done"
  <1> DEFINE Done == \E k \in DOMAIN wire : wire[k].type = "done"
             By == \/ request_finished /\ response \in {"closing", "done"}
                   \/ ~request_finished /\ main \in {"closing", "over"}
  <1>0. wire' \in Seq(Event)
    BY RequestStep
  <1>1. ASSUME ~DoneSent, ~AbortedDoneSent PROVE Done' => Done
    <2>1. CASE wire' = wire
      BY <2>1
    <2>2. ASSUME NEW type, NEW n, Says(type, n), type # "done" PROVE Done' => Done
      <3>1. /\ DOMAIN wire' = DOMAIN wire \cup {Len(wire) + 1}
            /\ \A k \in DOMAIN wire : wire'[k] = wire[k]
            /\ wire'[Len(wire) + 1] = [type |-> type, seq_no |-> n]
        BY <1>0, <2>2, SaysEffect
      <3>2. wire'[Len(wire) + 1].type = type
        BY <3>1
      <3> QED
        BY <2>2, <3>1, <3>2
    <2>3. chunk.kind = "done" => ~IsAnswer(chunk)
      BY DEF IsAnswer
    <2> QED
      BY <1>1, <2>1, <2>2, <2>3, WireEffect
  <1>2. ASSUME ~DoneSent, ~AbortedDoneSent, By PROVE By'
    <2>1. CASE Response
      <3>1. response \notin {"none", "done"} /\ main' = main
        BY <2>1, ResponseEffect
      <3>2. main \notin {"closing", "over"}
        BY <3>1 DEF Ending
      <3>3. request_finished /\ response = "closing"
        BY <1>2, <3>1, <3>2
      <3>4. response' = "done" /\ request_finished' = request_finished
        BY <2>1, <3>3 DEF Response, ReadyChunk, InputChunk, Interrupted, Processed,
             ChunkSent, EndChunk, NextChunk, DoneSent, ErrorChunk, ResponseSendFails,
             ResponseErrorSent, ResponseCloses
      <3> QED
        BY <3>3, <3>4
    <2>2. CASE Worker
      <3>1. main' = main /\ request_finished' = request_finished /\ main = "running"
        BY <2>2, WorkerEffect DEF Ending
      <3>2. response # "none"
        BY <1>2, <3>1
      <3>3. response' = response
        BY <2>2, <3>2, WorkerEffect DEF Configured, Ordered
      <3> QED
        BY <1>2, <3>1, <3>3
    <2>3. CASE Teardown
      <3>1. request_finished' = request_finished
        BY <2>3, TeardownEffect
      <3>2. response' = response \/ response' = "done" \/ response = "none"
        BY <2>3 DEF Teardown, AbortRequest, AbortReturns, ReleaseLocalResources,
           AbortedDoneSent, CloseWebsocket
      <3>3. main \in {"closing", "over"} => main' \in {"closing", "over"}
        BY <2>3 DEF Teardown, AbortRequest, AbortReturns, ReleaseLocalResources,
           AbortedDoneSent, CloseWebsocket
      <3> QED
        BY <1>2, <3>1, <3>2, <3>3
    <2>4. CASE RunEnds
      BY <1>2, <2>4 DEF RunEnds, TeardownFrame
    <2>5. CASE Receiver \/ Stage \/ ClientGone \/ Finished \/ UNCHANGED vars
      <3>1. UNCHANGED <<main, response, request_finished>>
        BY <2>5, ReceiverEffect, StageEffect DEF ClientGone, Finished, vars, tasks, flags
      <3> QED
        BY <1>2, <3>1
    <2> QED
      BY <2>1, <2>2, <2>3, <2>4, <2>5 DEF Next
  <1>3. CASE DoneSent
    <2>1. /\ response = "finishing" /\ response' = "closing" /\ request_finished
          /\ request_finished' = request_finished
      BY <1>3 DEF DoneSent, Ending
    <2>2. ~Done
      BY <2>1 DEF DoneSentBy
    <2> QED
      BY <2>1, <2>2 DEF DoneSentBy
  <1>4. CASE AbortedDoneSent
    <2>1. /\ main = "done_send" /\ main' = "closing" /\ ~request_finished
          /\ request_finished' = request_finished
      BY <1>4 DEF AbortedDoneSent, TeardownFrame, Ending
    <2>2. ~Done
      BY <2>1 DEF DoneSentBy
    <2> QED
      BY <2>1, <2>2 DEF DoneSentBy
  <1>5. CASE ~DoneSent /\ ~AbortedDoneSent
    BY <1>1, <1>2, <1>5 DEF DoneSentBy
  <1> QED
    BY <1>3, <1>4, <1>5

\* No second session.done is sent.
LEMMA OneDoneStep ==
    ASSUME TypeOK, Numbered, Holding, Ordered, Ending, DoneSentBy, OneDone, [Next]_vars
    PROVE  OneDone'
  <1>0. wire' \in Seq(Event)
    BY RequestStep
  <1>1. CASE wire' = wire
    BY <1>1 DEF OneDone
  <1>2. ASSUME NEW type, NEW n, Says(type, n),
               type # "done" \/ \A k \in DOMAIN wire : wire[k].type # "done"
        PROVE  OneDone'
    <2>1. /\ DOMAIN wire' = DOMAIN wire \cup {Len(wire) + 1}
          /\ \A k \in DOMAIN wire : wire'[k] = wire[k]
          /\ wire'[Len(wire) + 1] = [type |-> type, seq_no |-> n]
      BY <1>0, <1>2, SaysEffect
    <2>2. wire'[Len(wire) + 1].type = type
      BY <2>1
    <2> QED
      BY <1>2, <2>1, <2>2 DEF OneDone
  <1>3. IsAnswer(chunk) => chunk.kind # "done"
    BY DEF IsAnswer
  <1> QED
    BY <1>1, <1>2, <1>3, WireEffect, DoneStep

\* A message about an event comes after its acceptance.
LEMMA AcceptedFirstStep ==
    ASSUME TypeOK, Numbered, Holding, Answered, AcceptedFirst, [Next]_vars
    PROVE  AcceptedFirst'
  <1>0. wire' \in Seq(Event)
    BY RequestStep
  <1>1. CASE wire' = wire
    BY <1>1 DEF AcceptedFirst
  <1>2. ASSUME NEW type, NEW n, Says(type, n),
               type \in {"interrupted", "processed"}
               => OnWire([type |-> "accepted", seq_no |-> n])
        PROVE  AcceptedFirst'
    <2> DEFINE e == [type |-> type, seq_no |-> n]
               m == Len(wire)
    <2>1. /\ m \in Nat /\ DOMAIN wire = 1 .. m
          /\ DOMAIN wire' = DOMAIN wire \cup {m + 1}
          /\ \A k \in DOMAIN wire : wire'[k] = wire[k] /\ k < m + 1
          /\ wire'[m + 1] = e
      BY <1>0, <1>2, SaysEffect
    <2>2. e.type = type /\ e.seq_no = n
      OBVIOUS
    <2>3. Len(wire') \in Nat /\ 1 .. Len(wire') = DOMAIN wire'
      BY <1>0, LenProperties
    <2> HIDE DEF e, m
    <2>4. ASSUME NEW k \in DOMAIN wire', wire'[k].type \in {"interrupted", "processed"}
          PROVE  \E j \in 1 .. k - 1 :
                     wire'[j] = [type |-> "accepted", seq_no |-> wire'[k].seq_no]
      <3>1. CASE k \in DOMAIN wire
        <4>1. PICK j \in 1 .. k - 1 :
                  wire[j] = [type |-> "accepted", seq_no |-> wire[k].seq_no]
          BY <2>1, <2>4, <3>1 DEF AcceptedFirst, m
        <4>2. j \in DOMAIN wire
          BY <2>1, <3>1, <4>1
        <4> QED
          BY <2>1, <3>1, <4>1, <4>2
      <3>2. CASE k = m + 1
        <4>1. OnWire([type |-> "accepted", seq_no |-> n])
          BY <1>2, <2>1, <2>2, <2>4, <3>2
        <4>2. PICK j \in DOMAIN wire : wire[j] = [type |-> "accepted", seq_no |-> n]
          BY <4>1 DEF OnWire
        <4>3. j \in 1 .. k - 1
          BY <2>1, <3>2, <4>2
        <4> QED
          BY <2>1, <2>2, <3>2, <4>2, <4>3
      <3> QED
        BY <2>1, <2>4, <3>1, <3>2
    <2> QED
      BY <2>3, <2>4 DEF AcceptedFirst
  <1>3. CASE ChunkSent /\ IsAnswer(chunk) /\ Says(chunk.kind, chunk.seq_no)
    <2>1. Told(chunk.seq_no) /\ ws = "open"
      BY <1>3 DEF Answered, ChunkSent, IsAnswer, Says
    <2> QED
      BY <1>2, <1>3, <2>1 DEF Told
  <1> QED
    BY <1>1, <1>2, <1>3, WireEffect

\* No acceptance is forgotten.
LEMMA AnsweredStep ==
    ASSUME TypeOK, Numbered, Holding, InHand, Answered, [Next]_vars
    PROVE  Answered'
  <1>0. wire' \in Seq(Event) /\ credit \in [SeqNo -> {"free", "taken", "accepted"}]
        /\ chunk.seq_no \in SeqNo
    BY RequestStep DEF TypeOK, Chunk
  <1>1. \A n : Told(n) => Told(n)'
    BY ToldStays
  <1>2. ASSUME NEW n \in SeqNo, credit'[n] = "accepted" PROVE Told(n)'
    <2>1. CASE AcceptedSent
      <3>1. /\ Says("accepted", next_seq_no - 1) \/ ws' # "open"
            /\ credit' = [credit EXCEPT ![next_seq_no - 1] = IF @ = "taken" THEN "accepted" ELSE @]
        BY <2>1 DEF AcceptedSent, Sent, Says, WorkerFrame
      <3>2. CASE n = next_seq_no - 1
        <4>1. CASE Says("accepted", n)
          <5>1. /\ Len(wire) + 1 \in DOMAIN wire'
                /\ wire'[Len(wire) + 1] = [type |-> "accepted", seq_no |-> n]
            BY <1>0, <4>1, SaysEffect
          <5> QED
            BY <5>1 DEF Told, OnWire
        <4> QED
          BY <3>1, <3>2, <4>1 DEF Told
      <3>3. CASE n # next_seq_no - 1
        <4>1. credit[n] = "accepted"
          BY <1>0, <1>2, <3>1, <3>3
        <4> QED
          BY <1>1, <4>1 DEF Answered
      <3> QED
        BY <3>2, <3>3
    <2>2. CASE ~AcceptedSent
      <3>1. \/ credit' = credit
            \/ \E m, v : credit' = [credit EXCEPT ![m] = v] /\ v \in {"free", "taken"}
            \/ credit' = [m \in SeqNo |-> "free"]
        <4>1. CASE Worker
          BY <2>2, <4>1 DEF Worker, GetClosed, Refuse, PrepareInput, Configure, Configured,
                ReserveFrame, FrameReadySent, ReservePrompt, PromptInvalid, ReserveClosed,
                StoreFrame, StoreFails, Submitted, SubmitFails, ReleaseInput,
                WorkerSendFails, WorkerErrorSent, input
        <4>2. CASE Response
          BY <4>2 DEF Response, ReadyChunk, InputChunk, Interrupted, Processed, ChunkSent,
                EndChunk, DoneSent, ErrorChunk, ResponseSendFails, ResponseErrorSent,
                ResponseCloses, ReleaseInput, CloseInputQueue
        <4>3. CASE Teardown
          BY <4>3 DEF Teardown, AbortRequest, AbortReturns, ReleaseLocalResources,
                AbortedDoneSent, CloseWebsocket, CloseInputQueue
        <4>4. CASE Receiver \/ Stage \/ ClientGone \/ RunEnds \/ Finished \/ UNCHANGED vars
          BY <4>4, ReceiverEffect, StageEffect DEF ClientGone, RunEnds, Finished, vars, input
        <4> QED
          BY <4>1, <4>2, <4>3, <4>4 DEF Next
      <3>2. credit[n] = "accepted"
        BY <1>0, <1>2, <3>1
      <3> QED
        BY <1>1, <3>2 DEF Answered
    <2> QED
      BY <2>1, <2>2
  <1>3. ASSUME response' = "sending", chunk'.kind # "ready", NEW n, n = chunk'.seq_no
        PROVE  Told(n)'
    <2>1. CASE Interrupted \/ Processed
      <3>1. /\ response = "held" /\ chunk' = chunk /\ credit[chunk.seq_no] # "taken"
        BY <2>1 DEF Interrupted, Processed, AcceptedWait
      <3>2. credit[chunk.seq_no] # "free"
        BY <3>1 DEF InHand, Holding, Sound, Answering
      <3>3. credit[chunk.seq_no] = "accepted"
        BY <1>0, <3>1, <3>2
      <3> QED
        BY <1>0, <1>1, <1>3, <3>1, <3>3 DEF Answered
    <2>2. CASE ~Interrupted /\ ~Processed
      <3>1. response = "sending" /\ chunk' = chunk
        <4>1. CASE Response
          BY <1>3, <2>2, <4>1 DEF Response, ReadyChunk, InputChunk, ChunkSent,
                EndChunk, DoneSent, ErrorChunk, ResponseSendFails, ResponseErrorSent,
                ResponseCloses, Raised, NoChunk
        <4>2. CASE Teardown
          BY <1>3, <4>2 DEF Teardown, AbortRequest, AbortReturns, ReleaseLocalResources,
                AbortedDoneSent, CloseWebsocket
        <4>3. CASE Worker
          BY <1>3, <4>3, WorkerEffect DEF Configured
        <4>4. CASE Receiver \/ Stage \/ ClientGone \/ RunEnds \/ Finished \/ UNCHANGED vars
          BY <1>3, <4>4, ReceiverEffect, StageEffect
             DEF ClientGone, RunEnds, Finished, vars, tasks
        <4> QED
          BY <4>1, <4>2, <4>3, <4>4 DEF Next
      <3> QED
        BY <1>1, <1>3, <3>1 DEF Answered
    <2> QED
      BY <2>1, <2>2
  <1>4. (\A n \in SeqNo : credit[n] = "accepted" => Told(n))'
    BY <1>2
  <1>5. (response = "sending" /\ chunk.kind # "ready" => Told(chunk.seq_no))'
    BY <1>3 DEF Told, OnWire
  <1> QED
    BY <1>4, <1>5 DEF Answered

-----------------------------------------------------------------------------
(* Answers under way.                                                      *)

\* The three places of an answer, seen from the next state.
LEMMA Packed ==
    ASSUME \A k \in DOMAIN chunks' : \A c : c = chunks'[k] => Sound(c)',
           \A k, m \in DOMAIN chunks' : k < m => Precedes(chunks'[k], chunks'[m]),
           response' = "held" => \A c : c = chunk' => Sound(c)',
           response' = "held" => \A k \in DOMAIN chunks' : Precedes(chunk', chunks'[k])
    PROVE  InChunks' /\ InHand'
  <1>1. \A k \in DOMAIN chunks' : (Sound(chunks[k]))'
    BY DEF Sound, IsAnswer, Submittable, Answering
  <1>2. response' = "held" => (Sound(chunk))'
    BY DEF Sound, IsAnswer, Submittable, Answering
  <1> QED
    BY <1>1, <1>2 DEF InChunks, InHand, Precedes, IsAnswer

\* No answer is about event x.
Without(x) ==
    /\ \A j \in taken + 1 .. Len(inbox) : inbox[j] # x
    /\ \A k \in DOMAIN chunks : IsAnswer(chunks[k]) => chunks[k].seq_no # x
    /\ response' = "held" => chunk.seq_no # x

\* A step that leaves the answers where they are, and touches the credit or the
\* frame of event x only.
Spares(x) ==
    /\ UNCHANGED <<inbox, taken, chunks>>
    /\ \A n \in SeqNo : Submittable(n) => Submittable(n)'
    /\ Answering' => Answering
    /\ Answering' => \A n \in SeqNo \ {x} : credit[n] # "free" => credit'[n] # "free"
    /\ segments' \subseteq segments \cup {x}
    /\ response' = "held" => response = "held" /\ chunk' = chunk

\* A step that consumes at most x keeps what is under way for the others.
LEMMA SparesAnswers ==
    ASSUME TypeOK, InInbox, InChunks, InHand, NEW x, Without(x), Spares(x)
    PROVE  InInbox' /\ InChunks' /\ InHand'
  <1>0. /\ \A j \in taken + 1 .. Len(inbox) : inbox[j] \in SeqNo
        /\ \A k \in DOMAIN chunks : chunks[k].seq_no \in SeqNo
        /\ chunk.seq_no \in SeqNo
    BY InboxType, ChunksType DEF TypeOK, Chunk
  <1>1. ASSUME NEW c, c.seq_no \in SeqNo, Sound(c), IsAnswer(c) => c.seq_no # x
        PROVE  Sound(c)'
    <2>1. IsAnswer(c) <=> IsAnswer(c)'
      BY DEF IsAnswer
    <2>2. SUFFICES ASSUME IsAnswer(c)
                   PROVE  /\ Submittable(c.seq_no)'
                          /\ Answering' => credit'[c.seq_no] # "free"
                          /\ c.seq_no \notin segments'
                          /\ \A j \in taken' + 1 .. Len(inbox') : c.seq_no < inbox'[j]
      BY <2>1 DEF Sound
    <2>3. /\ Submittable(c.seq_no) /\ (Answering => credit[c.seq_no] # "free")
          /\ c.seq_no \notin segments
          /\ \A j \in taken + 1 .. Len(inbox) : c.seq_no < inbox[j]
      BY <1>1, <2>2 DEF Sound
    <2> QED
      BY <1>1, <2>2, <2>3 DEF Spares
  <1>2. InInbox'
    <2>1. ASSUME NEW j \in taken + 1 .. Len(inbox), NEW n, n = inbox[j]
          PROVE  Submittable(n)' /\ (Answering' => credit'[n] # "free")
      BY <1>0, <2>1 DEF InInbox, Without, Spares
    <2> QED
      BY <2>1 DEF InInbox, Spares, Submittable, Answering
  <1>3. \A k \in DOMAIN chunks' : \A c : c = chunks'[k] => Sound(c)'
    BY <1>0, <1>1 DEF InChunks, Without, Spares
  <1>4. \A k, m \in DOMAIN chunks' : k < m => Precedes(chunks'[k], chunks'[m])
    BY DEF InChunks, Spares
  <1>5. response' = "held" => \A c : c = chunk' => Sound(c)'
    BY <1>0, <1>1 DEF InHand, Without, Spares
  <1>6. response' = "held" => \A k \in DOMAIN chunks' : Precedes(chunk', chunks'[k])
    BY DEF InHand, Spares
  <1> QED
    BY <1>2, <1>3, <1>4, <1>5, <1>6, Packed

\* The numbers answers are about.
LEMMA NumberTypes ==
    ASSUME TypeOK
    PROVE  /\ \A n \in SeqNo : n \in Nat
           /\ next_seq_no \in SeqNo
           /\ \A j \in taken + 1 .. Len(inbox) : j \in 1 .. Len(inbox) /\ inbox[j] \in SeqNo
           /\ \A k \in DOMAIN chunks : chunks[k].seq_no \in SeqNo
           /\ chunk.seq_no \in SeqNo
  <1>1. \A n \in SeqNo : n \in Nat
    BY SizesAssumption DEF SeqNo
  <1>2. \A c \in Chunk : c.seq_no \in SeqNo
    BY DEF Chunk
  <1>3. \A j \in taken + 1 .. Len(inbox) : j \in 1 .. Len(inbox) /\ inbox[j] \in SeqNo
    BY InboxType
  <1> QED
    BY <1>1, <1>2, <1>3, ChunksType DEF TypeOK

\* A submitted event stays one.
LEMMA SubmittableStays ==
    ASSUME TypeOK, [Next]_vars, NEW n \in SeqNo, Submittable(n) PROVE Submittable(n)'
  <1>0. next_seq_no \in Nat /\ n \in Nat
    BY SizesAssumption DEF TypeOK, SeqNo
  <1>1. CASE Worker
    <2>1. worker # "done"
      BY <1>1, WorkerEffect
    <2>2. CASE worker = "submitting"
      <3>1. Submitted
        BY <1>1, <2>2 DEF Worker, GetClosed, Refuse, PrepareInput, Configure, Configured,
                ReserveFrame, FrameReadySent, ReservePrompt, PromptInvalid, ReserveClosed,
                StoreFrame, StoreFails, SubmitFails, AcceptedSent, WorkerSendFails,
                WorkerErrorSent, Handle
      <3> QED
        BY <1>0, <3>1 DEF Submitted, Submittable
    <2>3. CASE worker # "submitting"
      <3>1. next_seq_no' = next_seq_no
        BY <1>1, <2>3, WorkerNumbers
      <3> QED
        BY <2>1, <2>3, <3>1 DEF Submittable
    <2> QED
      BY <2>2, <2>3
  <1>2. CASE ~Worker
    <2>1. worker' \in {worker, "done"} /\ next_seq_no' = next_seq_no
      BY <1>2, ReceiverEffect, ResponseEffect, TeardownEffect, StageEffect
         DEF Next, ClientGone, RunEnds, TeardownFrame, Finished, vars, tasks, input
    <2> QED
      BY <2>1 DEF Submittable
  <1> QED
    BY <1>1, <1>2

\* While the worker neither has submitted the next event nor is gone, no answer
\* is about that event.
LEMMA NextUnanswered ==
    ASSUME TypeOK, InInbox, InChunks, InHand, Holding, response' = response,
           worker \notin {"submitting", "done"}
    PROVE  /\ Without(next_seq_no)
           /\ \A j \in taken + 1 .. Len(inbox) : inbox[j] < next_seq_no
           /\ \A k \in DOMAIN chunks : IsAnswer(chunks[k]) => chunks[k].seq_no < next_seq_no
           /\ response = "held" => chunk.seq_no < next_seq_no
  <1>0. /\ next_seq_no \in Nat
        /\ \A j \in taken + 1 .. Len(inbox) : inbox[j] \in Nat
        /\ \A k \in DOMAIN chunks : chunks[k].seq_no \in Nat
        /\ chunk.seq_no \in Nat
    BY InboxType, NumberTypes
  <1>1. \A j \in taken + 1 .. Len(inbox) : inbox[j] < next_seq_no
    BY DEF InInbox, Submittable
  <1>2. \A k \in DOMAIN chunks : IsAnswer(chunks[k]) => chunks[k].seq_no < next_seq_no
    BY DEF InChunks, Sound, Submittable
  <1>3. response = "held" => chunk.seq_no < next_seq_no
    BY DEF InHand, Holding, Sound, Submittable
  <1> QED
    BY <1>0, <1>1, <1>2, <1>3 DEF Without

\* Nothing is about a number that is none.
LEMMA NowhereUnanswered == ASSUME TypeOK PROVE Without(-1)
  <1>0. /\ \A j \in taken + 1 .. Len(inbox) : inbox[j] \in Nat
        /\ \A k \in DOMAIN chunks : chunks[k].seq_no \in Nat
        /\ chunk.seq_no \in Nat
    BY InboxType, NumberTypes
  <1> QED
    BY <1>0 DEF Without

\* Every step keeps the event that is being handed over.
LEMMA HoldingStep == ASSUME TypeOK, Holding, [Next]_vars PROVE Holding'
  <1>1. CASE Response
    <2>1. CASE \E kind \in {"interrupted", "processed"} : InputChunk(kind)
      BY <2>1 DEF InputChunk, NextChunk, Holding, IsAnswer
    <2>2. CASE ~(\E kind \in {"interrupted", "processed"} : InputChunk(kind))
      <3>1. chunk' \in {chunk, NoChunk} /\ response' # "held"
        BY <1>1, <2>2 DEF Response, ReadyChunk, Interrupted, Processed, ChunkSent,
             EndChunk, DoneSent, ErrorChunk, ResponseSendFails, ResponseErrorSent,
             ResponseCloses, Raised
      <3> QED
        BY <3>1 DEF Holding, IsAnswer
    <2> QED
      BY <2>1, <2>2
  <1>2. CASE Teardown
    <2>1. (chunk' = NoChunk /\ response' # "held") \/ UNCHANGED <<chunk, response>>
      BY <1>2 DEF Teardown, AbortRequest, AbortReturns, ReleaseLocalResources,
             AbortedDoneSent, CloseWebsocket
    <2> QED
      BY <2>1 DEF Holding, IsAnswer
  <1>3. CASE Worker
    <2>1. chunk' = chunk /\ response' \in {response, "streaming"}
      BY <1>3, WorkerEffect DEF Configured
    <2> QED
      BY <2>1 DEF Holding, IsAnswer
  <1>4. CASE Receiver \/ Stage \/ ClientGone \/ RunEnds \/ Finished \/ UNCHANGED vars
    <2>1. UNCHANGED <<chunk, response>>
      BY <1>4, ReceiverEffect, StageEffect DEF ClientGone, RunEnds, Finished, vars, tasks
    <2> QED
      BY <2>1 DEF Holding, IsAnswer
  <1> QED
    BY <1>1, <1>2, <1>3, <1>4 DEF Next

\* The worker submits an event.
LEMMA SubmitAnswers ==
    ASSUME TypeOK, InInbox, InChunks, InHand, Holding, [Next]_vars,
           worker \notin {"submitting", "done"}, worker' = "submitting",
           inbox' = Append(inbox, next_seq_no),
           UNCHANGED <<next_seq_no, taken, chunks, chunk, response>>,
           segments' \subseteq segments \cup {next_seq_no},
           \A n \in SeqNo : credit[n] # "free" => credit'[n] # "free",
           Answering' => credit'[next_seq_no] # "free"
    PROVE  InInbox' /\ InChunks' /\ InHand'
  <1> DEFINE L == Len(inbox)
  <1>0. /\ inbox \in Seq(SeqNo) /\ L \in Nat /\ taken \in Nat /\ taken <= L
        /\ next_seq_no \in SeqNo /\ next_seq_no \in Nat
        /\ \A j \in taken + 1 .. L : inbox[j] \in SeqNo
        /\ \A k \in DOMAIN chunks : chunks[k].seq_no \in SeqNo
        /\ chunk.seq_no \in SeqNo
    BY InboxType, NumberTypes
  <1>1. /\ Len(inbox') = L + 1 /\ inbox'[L + 1] = next_seq_no
        /\ \A j \in 1 .. L : inbox'[j] = inbox[j]
    BY <1>0, AppendProperties
  <1>2. /\ \A j \in taken + 1 .. Len(inbox) : inbox[j] < next_seq_no
        /\ \A k \in DOMAIN chunks : IsAnswer(chunks[k]) => chunks[k].seq_no < next_seq_no
        /\ response = "held" => chunk.seq_no < next_seq_no
    BY NextUnanswered
  <1> HIDE DEF L
  <1>3. \A j \in taken + 1 .. L : j \in 1 .. L
    BY <1>0
  <1>4. \A j \in taken + 1 .. L + 1 : j \in taken + 1 .. L \/ j = L + 1
    BY <1>0
  <1>5. ASSUME NEW c, c.seq_no \in SeqNo, Sound(c), IsAnswer(c) => c.seq_no < next_seq_no
        PROVE  Sound(c)'
    <2>1. IsAnswer(c) <=> IsAnswer(c)'
      BY DEF IsAnswer
    <2>2. SUFFICES ASSUME IsAnswer(c)
                   PROVE  /\ Submittable(c.seq_no)'
                          /\ Answering' => credit'[c.seq_no] # "free"
                          /\ c.seq_no \notin segments'
                          /\ \A j \in taken' + 1 .. Len(inbox') : c.seq_no < inbox'[j]
      BY <2>1 DEF Sound
    <2>3. /\ Submittable(c.seq_no) /\ (Answering => credit[c.seq_no] # "free")
          /\ c.seq_no \notin segments
          /\ \A j \in taken + 1 .. L : c.seq_no < inbox[j]
      BY <1>5, <2>2 DEF Sound, L
    <2>4. c.seq_no < next_seq_no /\ c.seq_no # next_seq_no /\ c.seq_no \in Nat
      BY <1>0, <1>5, <2>2, SizesAssumption DEF SeqNo
    <2>5. Submittable(c.seq_no)' /\ c.seq_no \notin segments'
      BY <1>5, <2>3, <2>4, SubmittableStays
    <2>6. Answering' => credit'[c.seq_no] # "free"
      BY <1>5, <2>3 DEF Answering
    <2>7. \A j \in taken' + 1 .. Len(inbox') : c.seq_no < inbox'[j]
      BY <1>1, <1>3, <1>4, <2>3, <2>4
    <2> QED
      BY <2>5, <2>6, <2>7
  <1>6. InInbox'
    <2>1. ASSUME NEW j \in taken + 1 .. L, NEW n, n = inbox[j]
          PROVE  Submittable(n)' /\ (Answering' => credit'[n] # "free")
      <3>1. n \in SeqNo /\ Submittable(n) /\ (Answering => credit[n] # "free")
        BY <1>0, <2>1 DEF InInbox, L
      <3> QED
        BY <3>1, SubmittableStays DEF Answering
    <2>2. \A j \in taken + 1 .. L : \A i \in taken + 1 .. j - 1 :
              i \in taken + 1 .. L /\ inbox[i] < inbox[j]
      <3>1. \A j \in taken + 1 .. L : \A i \in taken + 1 .. j - 1 : i \in taken + 1 .. L
        BY <1>0
      <3> QED
        BY <3>1 DEF InInbox, L
    <2>3. \A i \in taken + 1 .. (L + 1) - 1 : i \in taken + 1 .. L
      BY <1>0
    <2>4. ASSUME NEW j \in taken + 1 .. L + 1, NEW n, n = inbox'[j]
          PROVE  /\ Submittable(n)' /\ (Answering' => credit'[n] # "free")
                 /\ \A i \in taken + 1 .. j - 1 : inbox'[i] < n
      <3>1. CASE j \in taken + 1 .. L
        <4>1. n = inbox[j] /\ \A i \in taken + 1 .. j - 1 : inbox'[i] = inbox[i]
          BY <1>1, <1>3, <2>2, <2>4, <3>1
        <4> QED
          BY <2>1, <2>2, <3>1, <4>1
      <3>2. CASE j = L + 1
        <4>1. n = next_seq_no
          BY <1>1, <2>4, <3>2
        <4>2. Submittable(n)'
          BY <4>1 DEF Submittable
        <4>3. \A i \in taken + 1 .. j - 1 : inbox'[i] < n
          BY <1>1, <1>2, <1>3, <2>3, <3>2, <4>1 DEF L
        <4> QED
          BY <4>1, <4>2, <4>3
      <3> QED
        BY <1>4, <3>1, <3>2
    <2> QED
      BY <1>1, <2>4 DEF InInbox, Submittable, Answering
  <1>7. \A k \in DOMAIN chunks' : \A c : c = chunks'[k] => Sound(c)'
    BY <1>0, <1>2, <1>5 DEF InChunks
  <1>8. \A k, m \in DOMAIN chunks' : k < m => Precedes(chunks'[k], chunks'[m])
    BY DEF InChunks
  <1>9. response' = "held" => \A c : c = chunk' => Sound(c)'
    BY <1>0, <1>2, <1>5 DEF InHand
  <1>10. response' = "held" => \A k \in DOMAIN chunks' : Precedes(chunk', chunks'[k])
    BY DEF InHand
  <1> QED
    BY <1>6, <1>7, <1>8, <1>9, <1>10, Packed

\* Sound is about the chunk and what a step may leave alone.
LEMMA SoundStays ==
    ASSUME TypeOK, [Next]_vars, NEW c, c.seq_no \in SeqNo, Sound(c),
           UNCHANGED inbox, taken' = taken \/ taken' = taken + 1,
           segments' \subseteq segments, credit' = credit, Answering' => Answering
    PROVE  Sound(c)'
  <1>1. IsAnswer(c) <=> IsAnswer(c)'
    BY DEF IsAnswer
  <1>2. SUFFICES ASSUME IsAnswer(c)
                 PROVE  /\ Submittable(c.seq_no)'
                        /\ Answering' => credit'[c.seq_no] # "free"
                        /\ c.seq_no \notin segments'
                        /\ \A j \in taken' + 1 .. Len(inbox') : c.seq_no < inbox'[j]
    BY <1>1 DEF Sound
  <1>3. /\ Submittable(c.seq_no) /\ (Answering => credit[c.seq_no] # "free")
        /\ c.seq_no \notin segments
        /\ \A j \in taken + 1 .. Len(inbox) : c.seq_no < inbox[j]
    BY <1>2 DEF Sound
  <1>4. \A j \in taken' + 1 .. Len(inbox') : j \in taken + 1 .. Len(inbox)
    BY InboxType
  <1> QED
    BY <1>3, <1>4, SubmittableStays

\* The response task takes the next chunk.
LEMMA PopAnswers ==
    ASSUME TypeOK, InInbox, InChunks, InHand, [Next]_vars,
           chunks # << >>, chunks' = Tail(chunks),
           UNCHANGED <<inbox, taken, credit>>, segments' \subseteq segments, Answering,
           response' = "held" => chunk' = Head(chunks)
    PROVE  InInbox' /\ InChunks' /\ InHand'
  <1>0. /\ DOMAIN chunks' = 1 .. Len(chunks) - 1 /\ Len(chunks) \in Nat
        /\ DOMAIN chunks = 1 .. Len(chunks)
        /\ \A k \in 1 .. Len(chunks) - 1 : k + 1 \in DOMAIN chunks /\ chunks'[k] = chunks[k + 1]
        /\ 1 \in DOMAIN chunks /\ Head(chunks) = chunks[1]
    BY ChunksType
  <1>1. ASSUME NEW k \in DOMAIN chunks, NEW c, c = chunks[k] PROVE Sound(c)'
    <2>1. Sound(c) /\ c.seq_no \in SeqNo
      BY <1>1, NumberTypes DEF InChunks
    <2> QED
      BY <2>1, SoundStays
  <1>2. InInbox'
    <2>1. ASSUME NEW j \in taken + 1 .. Len(inbox), NEW n, n = inbox[j]
          PROVE  Submittable(n)' /\ (Answering' => credit'[n] # "free")
      BY <2>1, NumberTypes, SubmittableStays DEF InInbox
    <2> QED
      BY <2>1 DEF InInbox, Submittable, Answering
  <1>3. \A k \in DOMAIN chunks' : \A c : c = chunks'[k] => Sound(c)'
    BY <1>0, <1>1
  <1>4. \A k, m \in DOMAIN chunks' : k < m => Precedes(chunks'[k], chunks'[m])
    <2> SUFFICES ASSUME NEW k \in DOMAIN chunks', NEW m \in DOMAIN chunks', k < m
                 PROVE  Precedes(chunks'[k], chunks'[m])
      OBVIOUS
    <2>1. k + 1 < m + 1
      BY <1>0
    <2> QED
      BY <1>0, <2>1 DEF InChunks
  <1>5. response' = "held" => \A c : c = chunk' => Sound(c)'
    BY <1>0, <1>1
  <1>6. response' = "held" => \A k \in DOMAIN chunks' : Precedes(chunk', chunks'[k])
    <2> SUFFICES ASSUME response' = "held", NEW k \in DOMAIN chunks'
                 PROVE  Precedes(chunks[1], chunks[k + 1])
      BY <1>0
    <2>1. 1 < k + 1
      BY <1>0
    <2> QED
      BY <1>0, <2>1 DEF InChunks
  <1> QED
    BY <1>2, <1>3, <1>4, <1>5, <1>6, Packed

\* The stage says something that is no answer.
LEMMA OtherChunk ==
    ASSUME TypeOK, InInbox, InChunks, InHand, [Next]_vars, NEW c0 \in Chunk, ~IsAnswer(c0),
           chunks' = Append(chunks, c0),
           UNCHANGED <<inbox, taken, credit, segments, response, chunk>>
    PROVE  InInbox' /\ InChunks' /\ InHand'
  <1> DEFINE L == Len(chunks)
  <1>0. /\ chunks \in Seq(Chunk) /\ L \in Nat /\ DOMAIN chunks = 1 .. L
    BY ChunksType
  <1>1. /\ Len(chunks') = L + 1 /\ chunks'[L + 1] = c0
        /\ \A k \in 1 .. L : chunks'[k] = chunks[k]
    BY <1>0, AppendProperties
  <1>2. DOMAIN chunks' = 1 .. L + 1
    BY <1>0, <1>1, AppendProperties, LenProperties
  <1> HIDE DEF L
  <1>3. \A k \in DOMAIN chunks' :
            (k \in DOMAIN chunks /\ chunks'[k] = chunks[k]) \/ ~IsAnswer(chunks'[k])
    BY <1>0, <1>1, <1>2
  <1>4. ASSUME NEW c, c.seq_no \in SeqNo, Sound(c) PROVE Sound(c)'
    BY <1>4, SoundStays DEF Answering
  <1>5. ASSUME NEW c, ~IsAnswer(c) PROVE Sound(c)'
    BY <1>5 DEF Sound, IsAnswer
  <1>6. InInbox'
    <2>1. ASSUME NEW j \in taken + 1 .. Len(inbox), NEW n, n = inbox[j]
          PROVE  Submittable(n)' /\ (Answering' => credit'[n] # "free")
      BY <2>1, NumberTypes, SubmittableStays DEF InInbox, Answering
    <2> QED
      BY <2>1 DEF InInbox, Submittable, Answering
  <1>7. \A k \in DOMAIN chunks' : \A c : c = chunks'[k] => Sound(c)'
    BY <1>3, <1>4, <1>5, NumberTypes DEF InChunks
  <1>8. \A k, m \in DOMAIN chunks' : k < m => Precedes(chunks'[k], chunks'[m])
    BY <1>3 DEF InChunks, Precedes
  <1>9. response' = "held" => \A c : c = chunk' => Sound(c)'
    BY <1>4, NumberTypes DEF InHand
  <1>10. response' = "held" => \A k \in DOMAIN chunks' : Precedes(chunk', chunks'[k])
    BY <1>3 DEF InHand, Precedes
  <1> QED
    BY <1>6, <1>7, <1>8, <1>9, <1>10, Packed

\* The stage takes an event and answers it.
LEMMA TakeAnswers ==
    ASSUME TypeOK, InInbox, InChunks, InHand, Holding, [Next]_vars,
           NEW interrupts \in BOOLEAN, StageTake(interrupts)
    PROVE  InInbox' /\ InChunks' /\ InHand'
  <1> DEFINE L == Len(chunks)
             n == inbox[taken + 1]
             i == [kind |-> "interrupted", seq_no |-> n]
             p == [kind |-> "processed", seq_no |-> n]
  <1>0. /\ chunks \in Seq(Chunk) /\ L \in Nat /\ DOMAIN chunks = 1 .. L
    BY ChunksType
  <1>a. /\ taken < Len(inbox) /\ taken' = taken + 1 /\ segments' = segments \ {n}
        /\ UNCHANGED <<inbox, credit, response, chunk>>
        /\ chunks' = chunks \o (<<i>> \o <<p>>) \/ chunks' = chunks \o <<p>>
    BY DEF StageTake, StageFrame, Emit, tasks, input
  <1>b. /\ taken + 1 \in taken + 1 .. Len(inbox) /\ n \in SeqNo /\ n \in Nat
        /\ taken \in Nat /\ Len(inbox) \in Nat
    BY <1>a, InboxType, NumberTypes
  <1>c. /\ i.kind = "interrupted" /\ i.seq_no = n /\ p.kind = "processed" /\ p.seq_no = n
        /\ i \in Chunk /\ p \in Chunk
    BY <1>b, ChunkTypes
  <1>d. Submittable(n) /\ (Answering => credit[n] # "free")
        /\ \A j \in taken + 2 .. Len(inbox) : n < inbox[j]
    <2>1. \A j \in taken + 2 .. Len(inbox) :
              j \in taken + 1 .. Len(inbox) /\ taken + 1 \in taken + 1 .. j - 1
      BY <1>b
    <2> QED
      BY <1>b, <2>1 DEF InInbox
  <1> HIDE DEF i, p, n
  <1>1. \A k \in DOMAIN chunks' :
            /\ k \in Nat
            /\ \/ k \in DOMAIN chunks /\ chunks'[k] = chunks[k]
               \/ k > L /\ chunks'[k] = p /\ \A m \in DOMAIN chunks' : m <= k
               \/ k = L + 1 /\ chunks'[k] = i
    <2>1. CASE chunks' = chunks \o <<p>>
      <3>1. <<p>> \in Seq(Chunk) /\ Len(<<p>>) = 1 /\ <<p>>[1] = p
        BY <1>c
      <3>2. /\ Len(chunks') = L + 1 /\ chunks' \in Seq(Chunk)
            /\ \A k \in 1 .. L + 1 : chunks'[k] = IF k <= L THEN chunks[k] ELSE <<p>>[k - L]
        BY <1>0, <2>1, <3>1, ConcatProperties
      <3>3. DOMAIN chunks' = 1 .. L + 1
        BY <3>2, LenProperties
      <3> HIDE DEF L
      <3> QED
        BY <1>0, <3>1, <3>2, <3>3
    <2>2. CASE chunks' = chunks \o (<<i>> \o <<p>>)
      <3> DEFINE s == <<i>> \o <<p>>
      <3>1. s \in Seq(Chunk) /\ Len(s) = 2 /\ s[1] = i /\ s[2] = p
        BY <1>c
      <3> HIDE DEF s
      <3>2. /\ Len(chunks') = L + 2 /\ chunks' \in Seq(Chunk)
            /\ \A k \in 1 .. L + 2 : chunks'[k] = IF k <= L THEN chunks[k] ELSE s[k - L]
        BY <1>0, <2>2, <3>1, ConcatProperties DEF s
      <3>3. DOMAIN chunks' = 1 .. L + 2
        BY <3>2, LenProperties
      <3> HIDE DEF L
      <3>4. \A k \in 1 .. L + 2 : k \in 1 .. L \/ (k = L + 1 /\ k - L = 1 /\ k > L)
                                  \/ (k = L + 2 /\ k - L = 2 /\ k > L)
        BY <1>0
      <3> QED
        BY <1>0, <3>1, <3>2, <3>3, <3>4
    <2> QED
      BY <1>a, <2>1, <2>2
  <1>2. ASSUME NEW c, c.seq_no \in SeqNo, Sound(c) PROVE Sound(c)'
    BY <1>2, <1>a, SoundStays DEF Answering
  <1>3. ASSUME NEW c, c.seq_no = n PROVE Sound(c)'
    <2>1. Submittable(c.seq_no)'
      BY <1>3, <1>b, <1>d, SubmittableStays
    <2>2. \A j \in taken' + 1 .. Len(inbox') : c.seq_no < inbox'[j]
      BY <1>3, <1>a, <1>b, <1>d
    <2>3. /\ Answering' => credit'[c.seq_no] # "free"
          /\ c.seq_no \notin segments'
      BY <1>3, <1>a, <1>d DEF Answering
    <2> QED
      BY <2>1, <2>2, <2>3 DEF Sound
  <1>4. InInbox'
    <2>0. \A j \in taken' + 1 .. Len(inbox') : /\ j \in taken + 1 .. Len(inbox)
                                               /\ \A m \in taken' + 1 .. j - 1 : m \in taken + 1 .. j - 1
      BY <1>a, <1>b
    <2>1. ASSUME NEW j \in taken + 1 .. Len(inbox), NEW m, m = inbox[j]
          PROVE  Submittable(m)' /\ (Answering' => credit'[m] # "free")
      BY <1>a, <2>1, NumberTypes, SubmittableStays DEF InInbox, Answering
    <2> QED
      BY <1>a, <2>0, <2>1 DEF InInbox, Submittable, Answering
  <1>5. \A k \in DOMAIN chunks' : \A c : c = chunks'[k] => Sound(c)'
    BY <1>1, <1>2, <1>3, <1>c, NumberTypes DEF InChunks
  <1>6. ASSUME NEW c, c.seq_no \in SeqNo, Sound(c) PROVE Precedes(c, i) /\ Precedes(c, p)
    <2>1. IsAnswer(c) => c.seq_no < n /\ c.seq_no \in Nat
      BY <1>6, <1>b, NumberTypes DEF Sound, n
    <2>2. IsAnswer(c) => c.seq_no <= n
      BY <1>b, <2>1
    <2> QED
      BY <1>c, <2>1, <2>2 DEF Precedes
  <1>7. \A k, m \in DOMAIN chunks' : k < m => Precedes(chunks'[k], chunks'[m])
    <2> SUFFICES ASSUME NEW k \in DOMAIN chunks', NEW m \in DOMAIN chunks', k < m
                 PROVE  Precedes(chunks'[k], chunks'[m])
      OBVIOUS
    <2>1. CASE k \in DOMAIN chunks /\ chunks'[k] = chunks[k]
      <3>1. Sound(chunks[k]) /\ chunks[k].seq_no \in SeqNo
        BY <2>1, NumberTypes DEF InChunks
      <3>2. CASE m \in DOMAIN chunks /\ chunks'[m] = chunks[m]
        BY <2>1, <3>2 DEF InChunks
      <3> QED
        BY <1>1, <1>6, <2>1, <3>1, <3>2
    <2>2. CASE \A j \in DOMAIN chunks' : j <= k
      <3>1. k \in Nat /\ m \in Nat /\ m <= k
        BY <1>1, <2>2
      <3> QED
        BY <3>1
    <2>3. CASE k = L + 1 /\ chunks'[k] = i
      <3>1. m \in Nat /\ m > L + 1
        BY <1>1, <2>3
      <3>2. chunks'[m] = p
        <4> HIDE DEF L
        <4>1. m \notin 1 .. L /\ m # L + 1
          BY <1>0, <3>1
        <4> QED
          BY <1>0, <1>1, <4>1
      <3> QED
        BY <1>b, <1>c, <2>3, <3>2 DEF Precedes
    <2> QED
      BY <1>1, <2>1, <2>2, <2>3
  <1>8. response' = "held" => \A c : c = chunk' => Sound(c)'
    BY <1>2, <1>a, NumberTypes DEF InHand
  <1>9. response' = "held" => \A k \in DOMAIN chunks' : Precedes(chunk', chunks'[k])
    BY <1>1, <1>6, <1>a, NumberTypes DEF InHand
  <1> QED
    BY <1>4, <1>5, <1>7, <1>8, <1>9, Packed

\* The worker's steps but for Configured.
LEMMA WorkerAnswers ==
    ASSUME TypeOK, Numbered, Underway, Accounted, [Next]_vars, Worker, ~Configured
    PROVE  InInbox' /\ InChunks' /\ InHand'
  <1>0. /\ UNCHANGED <<taken, chunks, chunk, response>> /\ worker # "done"
        /\ credit \in [SeqNo -> {"free", "taken", "accepted"}]
        /\ next_seq_no \in SeqNo
    BY WorkerEffect DEF TypeOK
  <1>1. \A n \in SeqNo : Submittable(n) => Submittable(n)'
    BY SubmittableStays
  <1>2. ASSUME NEW x, Without(x), inbox' = inbox, segments' \subseteq segments \cup {x},
               \A n \in SeqNo \ {x} : credit[n] # "free" => credit'[n] # "free"
        PROVE  InInbox' /\ InChunks' /\ InHand'
    <2>1. Spares(x)
      BY <1>0, <1>1, <1>2 DEF Spares, Answering
    <2> QED
      BY <1>2, <2>1, SparesAnswers DEF Underway
  <1>3. Without(-1)
    BY NowhereUnanswered
  <1>4. ASSUME worker # "submitting" PROVE Without(next_seq_no)
    BY <1>0, <1>4, NextUnanswered DEF Underway
  <1>5. CASE ReservePrompt
    <2>1. /\ credit' = [credit EXCEPT ![next_seq_no] = "taken"] /\ worker = "reserve_prompt"
          /\ UNCHANGED <<segments, next_seq_no>>
          /\ \/ inbox' = Append(inbox, next_seq_no) /\ worker' = "submitting"
             \/ inbox' = inbox
      BY <1>5 DEF ReservePrompt, Update, frames
    <2>2. \A n \in SeqNo : credit[n] # "free" => credit'[n] # "free"
      BY <1>0, <2>1
    <2>3. credit'[next_seq_no] # "free"
      BY <1>0, <2>1
    <2>4. CASE inbox' = inbox
      BY <1>2, <1>3, <2>1, <2>2, <2>4
    <2>5. CASE inbox' = Append(inbox, next_seq_no) /\ worker' = "submitting"
      BY <1>0, <2>1, <2>2, <2>3, <2>5, SubmitAnswers DEF Underway
    <2> QED
      BY <2>1, <2>4, <2>5
  <1>6. CASE StoreFrame
    <2>1. /\ UNCHANGED <<credit, next_seq_no>> /\ worker = "get" /\ pending_frame
          /\ segments' = segments \cup {next_seq_no}
          /\ \/ inbox' = Append(inbox, next_seq_no) /\ worker' = "submitting"
             \/ inbox' = inbox
      BY <1>6 DEF StoreFrame, Update, Handle
    <2>2. CASE inbox' = inbox
      BY <1>2, <1>4, <2>1, <2>2
    <2>3. CASE inbox' = Append(inbox, next_seq_no) /\ worker' = "submitting"
      <3>1. Answering' => credit'[next_seq_no] # "free"
        BY <1>0, <2>1 DEF Accounted, Answering
      <3> QED
        BY <1>0, <2>1, <2>3, <3>1, SubmitAnswers DEF Underway
    <2> QED
      BY <2>1, <2>2, <2>3
  <1>7. CASE StoreFails \/ SubmitFails
    <2>1. /\ credit' = [credit EXCEPT ![next_seq_no] = "free"] /\ worker \in {"get", "refused"}
          /\ inbox' = inbox /\ segments' \subseteq segments
      BY <1>7 DEF StoreFails, SubmitFails, ReleaseInput, Discard, Handle, frames, request
    <2>2. \A n \in SeqNo \ {next_seq_no} : credit[n] # "free" => credit'[n] # "free"
      BY <1>0, <2>1
    <2> QED
      BY <1>2, <1>4, <2>1, <2>2
  <1>8. CASE ReserveFrame \/ AcceptedSent
    <2>1. /\ UNCHANGED <<inbox, segments>>
          /\ \/ credit' = [credit EXCEPT ![next_seq_no] = "taken"]
             \/ credit' = [credit EXCEPT ![next_seq_no - 1] = IF @ = "taken" THEN "accepted" ELSE @]
      BY <1>8 DEF ReserveFrame, AcceptedSent, frames, request
    <2>2. \A n \in SeqNo : credit[n] # "free" => credit'[n] # "free"
      BY <1>0, <2>1
    <2> QED
      BY <1>2, <1>3, <2>1, <2>2
  <1>9. CASE ~(ReservePrompt \/ StoreFrame \/ StoreFails \/ SubmitFails \/ ReserveFrame
               \/ AcceptedSent)
    <2>1. UNCHANGED <<inbox, segments, credit>>
      BY <1>9 DEF Worker, GetClosed, Refuse, PrepareInput, Configure, FrameReadySent,
                PromptInvalid, ReserveClosed, Submitted, WorkerSendFails,
                WorkerErrorSent, input, frames, request
    <2> QED
      BY <1>2, <1>3, <2>1
  <1> QED
    BY <1>5, <1>6, <1>7, <1>8, <1>9

\* The response task answers what it has in hand, and nothing else.
LEMMA ResponseAnswers ==
    ASSUME TypeOK, Underway, [Next]_vars, Response
    PROVE  InInbox' /\ InChunks' /\ InHand'
  <1>0. /\ UNCHANGED <<inbox, taken>>
        /\ credit \in [SeqNo -> {"free", "taken", "accepted"}] /\ chunk.seq_no \in SeqNo
    BY ResponseEffect, NumberTypes DEF TypeOK
  <1>1. \A n \in SeqNo : Submittable(n) => Submittable(n)'
    BY SubmittableStays
  <1>2. CASE \/ ReadyChunk \/ (\E kind \in {"interrupted", "processed"} : InputChunk(kind))
             \/ EndChunk \/ ErrorChunk
    <2>1. /\ chunks # << >> /\ chunks' = Tail(chunks) /\ credit' = credit /\ Answering
          /\ segments' \subseteq segments
          /\ response' = "held" => chunk' = Head(chunks)
      BY <1>2 DEF ReadyChunk, InputChunk, EndChunk, ErrorChunk, NextChunk, Cleanup, Answering,
              Raised, frames
    <2> QED
      BY <1>0, <2>1, PopAnswers DEF Underway
  <1>3. CASE Processed
    <2> DEFINE x == chunk.seq_no
    <2>1. /\ response = "held" /\ chunk.kind = "processed" /\ response' = "sending"
          /\ UNCHANGED <<chunks, chunk, segments>> /\ credit' = [credit EXCEPT ![x] = "free"]
      BY <1>3 DEF Processed, ReleaseInput
    <2>2. Sound(chunk) /\ IsAnswer(chunk) /\ \A k \in DOMAIN chunks : Precedes(chunk, chunks[k])
      BY <2>1 DEF Underway, InHand, IsAnswer
    <2>3. \A n \in SeqNo : n \in Nat
      BY NumberTypes
    <2>4. \A j \in taken + 1 .. Len(inbox) : inbox[j] # x
      <3>1. \A j \in taken + 1 .. Len(inbox) : x < inbox[j] /\ inbox[j] \in SeqNo
        BY <2>2, NumberTypes DEF Sound
      <3> QED
        BY <1>0, <2>3, <3>1
    <2>5. \A k \in DOMAIN chunks : IsAnswer(chunks[k]) => chunks[k].seq_no # x
      <3>1. \A k \in DOMAIN chunks :
                IsAnswer(chunks[k]) => x < chunks[k].seq_no /\ chunks[k].seq_no \in SeqNo
        BY <2>1, <2>2, NumberTypes DEF Precedes
      <3> QED
        BY <1>0, <2>3, <3>1
    <2>6. Without(x)
      BY <2>1, <2>4, <2>5 DEF Without
    <2>7. \A n \in SeqNo \ {x} : credit[n] # "free" => credit'[n] # "free"
      BY <1>0, <2>1
    <2>8. Spares(x)
      BY <1>0, <1>1, <2>1, <2>7 DEF Spares, Answering
    <2>9. PICK y : y = x
      OBVIOUS
    <2>10. Without(y) /\ Spares(y)
      BY <2>6, <2>8, <2>9
    <2> QED
      BY <2>10, SparesAnswers DEF Underway
  <1>4. CASE \/ Interrupted \/ ChunkSent \/ DoneSent \/ ResponseSendFails
             \/ ResponseErrorSent \/ ResponseCloses
    <2>1. /\ UNCHANGED <<chunks, segments>> /\ response' # "held"
          /\ Answering' => Answering /\ credit' = credit
      BY <1>4 DEF Interrupted, ChunkSent, DoneSent, ResponseSendFails, ResponseErrorSent,
              ResponseCloses, Answering, Raised, frames
    <2>2. Spares(-1)
      BY <1>0, <1>1, <2>1 DEF Spares
    <2> QED
      BY <2>2, NowhereUnanswered, SparesAnswers DEF Underway
  <1> QED
    BY <1>2, <1>3, <1>4 DEF Response

\* Every step keeps what is under way between worker, stage and response.
LEMMA UnderwayStep ==
    ASSUME TypeOK, Numbered, Ordered, Underway, Accounted, [Next]_vars PROVE Underway'
  <1>0. \A n \in SeqNo : Submittable(n) => Submittable(n)'
    BY SubmittableStays
  <1>1. CASE Worker /\ ~Configured
    BY <1>1, WorkerAnswers, HoldingStep DEF Underway
  <1>2. CASE Response
    BY <1>2, ResponseAnswers, HoldingStep DEF Underway
  <1>3. CASE Configured
    <2>1. /\ response = "none" /\ response' = "streaming" /\ UNCHANGED <<inbox, taken, chunks>>
      BY <1>3 DEF Configured, Ordered
    <2>2. inbox = << >> /\ chunks = << >>
      BY <2>1 DEF Ordered
    <2>3. ~(\E j \in taken' + 1 .. Len(inbox') : TRUE) /\ ~(\E k \in DOMAIN chunks' : TRUE)
      <3>1. taken = 0 /\ Len(inbox) = 0
        BY <2>2, InboxType
      <3> QED
        BY <2>1, <2>2, <3>1
    <2> QED
      BY <2>1, <2>3, HoldingStep DEF Underway, InInbox, InChunks, InHand
  <1>4. CASE Stage
    <2>1. UNCHANGED <<inbox, credit, response, chunk>>
      BY <1>4, StageEffect
    <2>2. ASSUME NEW c \in Chunk, c.kind \in {"ready", "end", "error"},
                 chunks' = Append(chunks, c), UNCHANGED <<segments, taken>>
          PROVE  InInbox' /\ InChunks' /\ InHand'
      <3>1. ~IsAnswer(c)
        BY <2>2 DEF IsAnswer
      <3> QED
        BY <2>1, <2>2, <3>1, OtherChunk DEF Underway
    <2> QED
      BY <1>4, <2>2, StageChunks, TakeAnswers, HoldingStep DEF Underway
  <1>5. CASE Teardown
    <2>1. UNCHANGED <<inbox, taken, chunks>>
      BY <1>5, TeardownEffect
    <2>2. /\ segments' \subseteq segments
          /\ Answering' => Answering /\ credit' = credit
          /\ response' = "held" => response = "held" /\ chunk' = chunk
      BY <1>5 DEF Teardown, AbortRequest, AbortReturns, ReleaseLocalResources,
             AbortedDoneSent, CloseWebsocket, Answering, Cleanup, frames
    <2>3. Spares(-1)
      BY <1>0, <2>1, <2>2 DEF Spares
    <2> QED
      BY <2>3, NowhereUnanswered, SparesAnswers, HoldingStep DEF Underway
  <1>6. CASE Receiver \/ ClientGone \/ RunEnds \/ Finished \/ UNCHANGED vars
    <2>1. UNCHANGED <<inbox, taken, chunks, segments, response, chunk, credit>>
      BY <1>6, ReceiverEffect DEF ClientGone, RunEnds, TeardownFrame, Finished, vars, tasks,
             input, frames, request
    <2>2. Spares(-1)
      BY <1>0, <2>1 DEF Spares, Answering
    <2> QED
      BY <2>2, NowhereUnanswered, SparesAnswers, HoldingStep DEF Underway
  <1> QED
    BY <1>1, <1>2, <1>3, <1>4, <1>5, <1>6 DEF Next

-----------------------------------------------------------------------------
(* Frames.                                                                 *)

\* A frame leaves the store's books only with its segment or after it.
LEMMA StoredStep ==
    ASSUME TypeOK, Underway, Stored, [Next]_vars PROVE Stored'
  <1>1. CASE Worker
    BY <1>1 DEF Stored, Worker, GetClosed, Refuse, PrepareInput, Configure, Configured,
              ReserveFrame, FrameReadySent, ReservePrompt, PromptInvalid, ReserveClosed,
              StoreFrame, StoreFails, Submitted, SubmitFails, Discard, AcceptedSent,
              WorkerSendFails, WorkerErrorSent, frames
  <1>2. CASE Response /\ ~Processed
    BY <1>2 DEF Stored, Response, ReadyChunk, InputChunk, Interrupted, ChunkSent,
              EndChunk, DoneSent, ErrorChunk, ResponseSendFails, ResponseErrorSent,
              ResponseCloses, Cleanup, frames
  <1>3. CASE Processed
    <2>1. /\ response = "held" /\ chunk.kind = "processed"
          /\ names' = names \ {chunk.seq_no} /\ segments' = segments
      BY <1>3 DEF Processed
    <2>2. chunk.seq_no \notin segments
      BY <2>1 DEF Underway, InHand, Sound, IsAnswer
    <2> QED
      BY <2>1, <2>2 DEF Stored
  <1>4. CASE Teardown
    BY <1>4 DEF Stored, Teardown, AbortRequest, AbortReturns, ReleaseLocalResources,
           AbortedDoneSent, CloseWebsocket, Cleanup, frames
  <1>5. CASE Stage
    <2>1. segments' \subseteq segments
      BY <1>5 DEF Stage, StageReady, StageTake, StageEnds
    <2> QED
      BY <1>5, <2>1, StageEffect DEF Stored
  <1>6. CASE Receiver \/ ClientGone \/ RunEnds \/ Finished \/ UNCHANGED vars
    BY <1>6, ReceiverEffect DEF Stored, ClientGone, RunEnds, Finished, vars, frames
  <1> QED
    BY <1>1, <1>2, <1>3, <1>4, <1>5, <1>6 DEF Next

-----------------------------------------------------------------------------
(* Credits.                                                                *)

\* There are finitely many outstanding credits.
LEMMA OutstandingFinite ==
    ASSUME TypeOK
    PROVE  IsFiniteSet(Outstanding) /\ Cardinality(Outstanding) \in Nat
  <1>1. IsFiniteSet(SeqNo)
    BY FS_Interval, SizesAssumption DEF SeqNo
  <1>2. Outstanding \subseteq SeqNo
    BY DEF Outstanding
  <1> QED
    BY <1>1, <1>2, FS_Subset, FS_CardinalityType

\* A credit is taken by a reservation only, which found one free.
LEMMA OutstandingEffect ==
    ASSUME TypeOK, [Next]_vars
    PROVE  \/ Outstanding' \subseteq Outstanding
           \/ /\ ReserveFrame \/ ReservePrompt
              /\ HasCredit /\ Outstanding' = Outstanding \cup {next_seq_no}
  <1>0. /\ next_seq_no \in SeqNo
        /\ credit \in [SeqNo -> {"free", "taken", "accepted"}]
    BY DEF TypeOK
  <1>1. CASE ReserveFrame \/ ReservePrompt
    <2>1. HasCredit /\ credit' = [credit EXCEPT ![next_seq_no] = "taken"]
      BY <1>1 DEF ReserveFrame, ReservePrompt
    <2> QED
      BY <1>0, <1>1, <2>1 DEF Outstanding
  <1>2. CASE ~(ReserveFrame \/ ReservePrompt)
    <2>1. \/ credit' = credit
          \/ \E m : credit' = [credit EXCEPT ![m] = "free"]
          \/ credit' = [credit EXCEPT ![next_seq_no - 1] = IF @ = "taken" THEN "accepted" ELSE @]
          \/ credit' = [m \in SeqNo |-> "free"]
      <3>1. CASE Worker
        BY <1>2, <3>1 DEF Worker, GetClosed, Refuse, PrepareInput, Configure, Configured,
              FrameReadySent, PromptInvalid, ReserveClosed, AcceptedSent,
              StoreFrame, StoreFails, Submitted, SubmitFails, ReleaseInput,
              WorkerSendFails, WorkerErrorSent, input
      <3>2. CASE Response
        BY <3>2 DEF Response, ReadyChunk, InputChunk, Interrupted, Processed, ChunkSent,
              EndChunk, DoneSent, ErrorChunk, ResponseSendFails, ResponseErrorSent,
              ResponseCloses, ReleaseInput, CloseInputQueue
      <3>3. CASE Teardown
        BY <3>3 DEF Teardown, AbortRequest, AbortReturns, ReleaseLocalResources,
              AbortedDoneSent, CloseWebsocket, CloseInputQueue
      <3>4. CASE Receiver \/ Stage \/ ClientGone \/ RunEnds \/ Finished \/ UNCHANGED vars
        BY <3>4, ReceiverEffect, StageEffect DEF ClientGone, RunEnds, Finished, vars, input
      <3> QED
        BY <3>1, <3>2, <3>3, <3>4 DEF Next
    <2>2. \A n \in SeqNo : credit'[n] # "free" => credit[n] # "free"
      BY <1>0, <2>1
    <2> QED
      BY <2>2 DEF Outstanding
  <1> QED
    BY <1>1, <1>2

\* No step takes a credit beyond the capacity.
LEMMA CapacityStep ==
    ASSUME TypeOK, Ordered, WithinCapacity, [Next]_vars, TypeOK' PROVE WithinCapacity'
  <1>0. /\ IsFiniteSet(Outstanding) /\ Cardinality(Outstanding) \in Nat
        /\ capacity \in Nat /\ capacity' \in Nat
    BY OutstandingFinite, SizesAssumption DEF TypeOK
  <1>1. ASSUME Outstanding' \subseteq Outstanding
        PROVE  Cardinality(Outstanding') <= Cardinality(Outstanding)
               /\ Cardinality(Outstanding') \in Nat
    BY <1>0, <1>1, FS_Subset, FS_CardinalityType
  <1>2. CASE Configure
    <2>1. ~configured /\ credit' = credit
      BY <1>2 DEF Configure, input
    <2>2. credit = [n \in SeqNo |-> "free"]
      BY <2>1 DEF Ordered
    <2>3. Outstanding' = {}
      BY <2>1, <2>2 DEF Outstanding
    <2> QED
      BY <1>0, <2>3, FS_EmptySet DEF WithinCapacity
  <1>3. CASE ~Configure
    <2>1. capacity' = capacity
      BY <1>3, ReceiverEffect, ResponseEffect, TeardownEffect, StageEffect
         DEF Next, Worker, GetClosed, Refuse, PrepareInput, Configured, ReserveFrame,
             FrameReadySent, ReservePrompt, PromptInvalid, ReserveClosed, StoreFrame,
             StoreFails, Submitted, SubmitFails, AcceptedSent, WorkerSendFails,
             WorkerErrorSent, ClientGone, RunEnds, TeardownFrame, Finished, vars, flags
    <2>2. CASE Outstanding' \subseteq Outstanding
      BY <1>0, <1>1, <2>1, <2>2 DEF WithinCapacity
    <2>3. CASE HasCredit /\ Outstanding' = Outstanding \cup {next_seq_no}
      <3>1. \/ Cardinality(Outstanding') = Cardinality(Outstanding)
            \/ Cardinality(Outstanding') = Cardinality(Outstanding) + 1
        BY <1>0, <2>3, FS_AddElement
      <3> QED
        BY <1>0, <2>1, <2>3, <3>1 DEF WithinCapacity, HasCredit
    <2> QED
      BY <2>2, <2>3, OutstandingEffect
  <1> QED
    BY <1>2, <1>3

\* Once closed, closed for good; and by a step of the response task or of the
\* teardown that gives the credits back.
LEMMA ClosedStays ==
    ASSUME TypeOK, Ending, [Next]_vars, ~closed' PROVE ~closed /\ ~RunEnds /\ ~Teardown
  <1>0. closed \in BOOLEAN
    BY Booleans
  <1>1. CASE Receiver
    <2>1. closed' = closed \/ closed' = TRUE
      BY <1>1, ReceiverEffect
    <2>2. main' = main /\ ~RunEnds /\ ~Teardown
      <3>1. main' = main
        BY <1>1, ReceiverEffect
      <3>2. ~RunEnds
        BY <3>1 DEF RunEnds
      <3>3. Teardown => closed' = closed /\ closed
        BY TeardownEffect, Zenon DEF Ending
      <3> QED
        BY <3>1, <3>2, <3>3
    <2> QED
      BY <2>1, <2>2
  <1>2. ~RunEnds
    BY DEF RunEnds
  <1>3. ~Teardown
    <2>1. Teardown => closed' = closed /\ closed
      BY TeardownEffect, Zenon DEF Ending
    <2> QED
      BY <2>1
  <1>4. CASE Worker
    <2>1. closed' = closed \/ closed' = (closed \/ worker = "fatal")
      BY <1>4 DEF Worker, GetClosed, Refuse, PrepareInput, Configure, Configured, ReserveFrame,
             FrameReadySent, ReservePrompt, PromptInvalid, ReserveClosed, StoreFrame,
             StoreFails, Submitted, SubmitFails, AcceptedSent, WorkerSendFails,
             WorkerErrorSent, flags
    <2> QED
      BY <1>0, <1>2, <1>3, <2>1
  <1>5. CASE Response
    <2>1. closed' = closed \/ closed' = TRUE
      BY <1>5 DEF Response, ReadyChunk, InputChunk, Interrupted, Processed, ChunkSent,
              EndChunk, DoneSent, ErrorChunk, ResponseSendFails, ResponseErrorSent,
              ResponseCloses
    <2> QED
      BY <1>2, <1>3, <2>1
  <1>6. CASE Stage \/ ClientGone \/ Finished \/ UNCHANGED vars
    BY <1>2, <1>3, <1>6, StageEffect DEF ClientGone, Finished, vars, flags
  <1> QED
    BY <1>1, <1>2, <1>3, <1>4, <1>5, <1>6 DEF Next

\* An answer that is owed stays owed until it is given.
LEMMA WorkerOwes ==
    ASSUME TypeOK, Ordered, Worker, NEW n, Owed(n) PROVE Owed(n)'
  <1>0. /\ inbox \in Seq(SeqNo) /\ Len(inbox) \in Nat /\ taken \in Nat /\ next_seq_no \in SeqNo
    BY InboxType, NumberTypes
  <1>1. UNCHANGED <<taken, chunks, chunk>> /\ (response' = response \/ response = "none")
    BY WorkerEffect DEF Configured, Ordered
  <1>2. inbox' = inbox \/ inbox' = Append(inbox, next_seq_no)
    BY DEF Worker, GetClosed, Refuse, PrepareInput, Configure, Configured, ReserveFrame,
           FrameReadySent, ReservePrompt, PromptInvalid, ReserveClosed, StoreFrame,
           StoreFails, Submitted, SubmitFails, AcceptedSent, WorkerSendFails,
           WorkerErrorSent, Update, request
  <1>3. \A k \in taken + 1 .. Len(inbox) :
            k \in taken' + 1 .. Len(inbox') /\ inbox'[k] = inbox[k]
    <2>1. CASE inbox' = inbox
      BY <1>1, <2>1
    <2>2. CASE inbox' = Append(inbox, next_seq_no)
      <3> DEFINE L == Len(inbox)
      <3>1. Len(inbox') = L + 1 /\ \A k \in 1 .. L : inbox'[k] = inbox[k]
        BY <1>0, <2>2, AppendProperties
      <3>2. L \in Nat
        BY <1>0
      <3> HIDE DEF L
      <3>3. \A k \in taken + 1 .. L : k \in taken + 1 .. L + 1 /\ k \in 1 .. L
        BY <1>0, <3>2
      <3> QED
        BY <1>1, <3>1, <3>3 DEF L
    <2> QED
      BY <1>2, <2>1, <2>2
  <1> QED
    BY <1>1, <1>3 DEF Owed

\* The response task settles the event it has in hand only.
LEMMA ResponseOwes ==
    ASSUME TypeOK, Response, NEW n, Owed(n), ~(Processed /\ n = chunk.seq_no) PROVE Owed(n)'
  <1> DEFINE p == [kind |-> "processed", seq_no |-> n]
  <1>0. p.kind = "processed" /\ p.seq_no = n
    OBVIOUS
  <1>1. UNCHANGED <<inbox, taken>>
    BY ResponseEffect
  <1>a. /\ (\E k \in taken + 1 .. Len(inbox) : inbox[k] = n) => Owed(n)'
        /\ (\E k \in 1 .. Len(chunks') : chunks'[k] = p) => Owed(n)'
        /\ response' = "held" /\ chunk' = p => Owed(n)'
    BY <1>1 DEF Owed
  <1>b. \/ \E k \in taken + 1 .. Len(inbox) : inbox[k] = n
        \/ \E k \in 1 .. Len(chunks) : chunks[k] = p
        \/ response = "held" /\ chunk = p
    BY DEF Owed
  <1> HIDE DEF p
  <1>2. CASE \/ ReadyChunk \/ (\E kind \in {"interrupted", "processed"} : InputChunk(kind))
             \/ EndChunk \/ ErrorChunk
    <2>1. /\ chunks # << >> /\ chunks' = Tail(chunks) /\ response = "streaming"
          /\ \/ Head(chunks).kind # "processed"
             \/ response' = "held" /\ chunk' = Head(chunks)
      BY <1>2 DEF ReadyChunk, InputChunk, EndChunk, ErrorChunk, NextChunk
    <2>2. ASSUME NEW k \in 1 .. Len(chunks), chunks[k] = p PROVE Owed(n)'
      <3>1. CASE k = 1
        BY <1>0, <1>a, <2>1, <2>2, <3>1, ChunksType
      <3>2. CASE k # 1
        <4> DEFINE L == Len(chunks)
        <4>1. L \in Nat /\ Len(chunks') = L - 1 /\ \A j \in 1 .. L - 1 : chunks'[j] = chunks[j + 1]
          BY <2>1, ChunksType
        <4> HIDE DEF L
        <4>2. k - 1 \in 1 .. L - 1 /\ (k - 1) + 1 = k
          BY <3>2, <4>1 DEF L
        <4>3. k - 1 \in 1 .. Len(chunks') /\ chunks'[k - 1] = p
          BY <2>2, <4>1, <4>2
        <4> QED
          BY <1>a, <4>3
      <3> QED
        BY <3>1, <3>2
    <2> QED
      BY <1>a, <1>b, <2>1, <2>2
  <1>3. CASE Processed \/ Interrupted
    <2>1. chunks' = chunks /\ chunk # p
      BY <1>0, <1>3 DEF Processed, Interrupted
    <2> QED
      BY <1>a, <1>b, <2>1
  <1>4. CASE ChunkSent \/ DoneSent \/ ResponseSendFails \/ ResponseErrorSent \/ ResponseCloses
    <2>1. chunks' = chunks /\ response # "held"
      BY <1>4 DEF ChunkSent, DoneSent, ResponseSendFails, ResponseErrorSent, ResponseCloses
    <2> QED
      BY <1>a, <1>b, <2>1
  <1> QED
    BY <1>2, <1>3, <1>4 DEF Response

\* The stage passes on what it takes.
LEMMA StageOwes ==
    ASSUME TypeOK, Stage, NEW n, Owed(n) PROVE Owed(n)'
  <1> DEFINE p == [kind |-> "processed", seq_no |-> n]
             L == Len(chunks)
  <1>1. UNCHANGED <<inbox, chunk, response>>
    BY StageEffect
  <1>a. /\ (\E k \in taken' + 1 .. Len(inbox) : inbox[k] = n) => Owed(n)'
        /\ (\E k \in 1 .. Len(chunks') : chunks'[k] = p) => Owed(n)'
        /\ response = "held" /\ chunk = p => Owed(n)'
    BY <1>1 DEF Owed
  <1>b. \/ \E k \in taken + 1 .. Len(inbox) : inbox[k] = n
        \/ \E k \in 1 .. L : chunks[k] = p
        \/ response = "held" /\ chunk = p
    BY DEF Owed
  <1>c. chunks \in Seq(Chunk) /\ L \in Nat /\ taken \in Nat /\ Len(inbox) \in Nat
    BY ChunksType, InboxType
  <1>2. ASSUME NEW c \in Chunk, chunks' = Append(chunks, c), taken' = taken PROVE Owed(n)'
    <2>1. Len(chunks') = L + 1 /\ \A k \in 1 .. L : chunks'[k] = chunks[k]
      BY <1>2, <1>c, AppendProperties
    <2> HIDE DEF L, p
    <2>2. \A k \in 1 .. L : k \in 1 .. Len(chunks')
      BY <1>c, <2>1
    <2> QED
      BY <1>2, <1>a, <1>b, <2>1, <2>2
  <1>3. ASSUME NEW interrupts \in BOOLEAN, StageTake(interrupts) PROVE Owed(n)'
    <2> DEFINE m == inbox[taken + 1]
               i == [kind |-> "interrupted", seq_no |-> m]
               q == [kind |-> "processed", seq_no |-> m]
    <2>1. /\ taken < Len(inbox) /\ taken' = taken + 1
          /\ chunks' = chunks \o (<<i>> \o <<q>>) \/ chunks' = chunks \o <<q>>
      BY <1>3 DEF StageTake, Emit
    <2>2. m \in SeqNo
      BY <1>c, <2>1, InboxType
    <2>3. i \in Chunk /\ q \in Chunk
      BY <2>2, ChunkTypes
    <2>4. n = m => p = q
      OBVIOUS
    <2> HIDE DEF i, q, p, m
    <2>5. /\ \A k \in 1 .. L : k \in 1 .. Len(chunks') /\ chunks'[k] = chunks[k]
          /\ \E k \in 1 .. Len(chunks') : chunks'[k] = q
      <3>1. ASSUME NEW s \in Seq(Chunk), NEW d \in 1 .. Len(s), s[d] = q, chunks' = chunks \o s
            PROVE  /\ \A k \in 1 .. L : k \in 1 .. Len(chunks') /\ chunks'[k] = chunks[k]
                   /\ \E k \in 1 .. Len(chunks') : chunks'[k] = q
        <4> DEFINE S == Len(s)
        <4>1. /\ S \in Nat /\ Len(chunks') = L + S
              /\ \A k \in 1 .. L + S : chunks'[k] = IF k <= L THEN chunks[k] ELSE s[k - L]
          BY <1>c, <3>1, ConcatProperties, LenProperties
        <4>2. d \in 1 .. S
          OBVIOUS
        <4> HIDE DEF S, L
        <4>3. L + d \in 1 .. L + S /\ ~(L + d <= L) /\ (L + d) - L = d
          BY <1>c, <4>1, <4>2
        <4>4. chunks'[L + d] = q
          BY <3>1, <4>1, <4>3
        <4>5. \A k \in 1 .. L : k \in 1 .. L + S /\ k <= L
          BY <1>c, <4>1
        <4> QED
          BY <4>1, <4>3, <4>4, <4>5
      <3>2. <<q>> \in Seq(Chunk) /\ 1 \in 1 .. Len(<<q>>) /\ <<q>>[1] = q
        BY <2>3
      <3>3. /\ <<i>> \o <<q>> \in Seq(Chunk) /\ 2 \in 1 .. Len(<<i>> \o <<q>>)
            /\ (<<i>> \o <<q>>)[2] = q
        BY <2>3
      <3> QED
        BY <2>1, <3>1, <3>2, <3>3
    <2>6. ASSUME NEW k \in taken + 1 .. Len(inbox), inbox[k] = n PROVE Owed(n)'
      <3>1. CASE k = taken + 1
        BY <1>a, <2>4, <2>5, <2>6, <3>1 DEF m
      <3>2. CASE k # taken + 1
        <4>1. k \in taken' + 1 .. Len(inbox)
          BY <1>c, <2>1, <3>2
        <4> QED
          BY <1>a, <2>6, <4>1
      <3> QED
        BY <3>1, <3>2
    <2> QED
      BY <1>a, <1>b, <2>5, <2>6
  <1> QED
    BY <1>2, <1>3, StageChunks

\* The worker pays for what it begins, and takes back what it gives up.
LEMMA WorkerAccounts ==
    ASSUME TypeOK, Numbered, Ordered, Accounted, ~closed, Worker,
           NEW n \in SeqNo, credit'[n] # "free"
    PROVE  Waits(n)' \/ Owed(n)'
  <1>0. /\ credit \in [SeqNo -> {"free", "taken", "accepted"}]
        /\ next_seq_no \in SeqNo /\ pending_frame \in BOOLEAN
    BY Booleans DEF TypeOK
  <1>1. credit[n] # "free" => Waits(n) \/ Owed(n)
    BY DEF Accounted, Outstanding
  <1>2. Owed(n) => Owed(n)'
    BY WorkerOwes
  <1>3. CASE ReserveFrame
    <2>1. /\ credit' = [credit EXCEPT ![next_seq_no] = "taken"] /\ pending_frame'
          /\ next_seq_no' = next_seq_no
      BY <1>3 DEF ReserveFrame
    <2>2. n = next_seq_no \/ credit[n] # "free"
      BY <1>0, <2>1
    <2> QED
      BY <1>1, <1>2, <2>1, <2>2 DEF Waits
  <1>4. CASE ReservePrompt \/ StoreFrame
    <2>1. /\ credit' = credit \/ credit' = [credit EXCEPT ![next_seq_no] = "taken"]
          /\ next_seq_no' = next_seq_no /\ UNCHANGED <<taken, chunks>>
          /\ \/ inbox' = Append(inbox, next_seq_no)
             \/ worker' = "refused"
      BY <1>4 DEF ReservePrompt, StoreFrame, Update
    <2>2. n = next_seq_no \/ credit[n] # "free"
      BY <1>0, <2>1
    <2>3. n = next_seq_no \/ Owed(n)
      BY <1>1, <2>2 DEF Waits
    <2>4. inbox' = Append(inbox, next_seq_no) /\ n = next_seq_no => Owed(n)'
      <3> SUFFICES ASSUME inbox' = Append(inbox, next_seq_no), n = next_seq_no PROVE Owed(n)'
        OBVIOUS
      <3> DEFINE L == Len(inbox)
      <3>1. L \in Nat /\ taken \in Nat /\ taken <= L /\ Len(inbox') = L + 1
            /\ inbox'[L + 1] = next_seq_no
        BY InboxType, AppendProperties, <1>0
      <3> HIDE DEF L
      <3>2. L + 1 \in taken' + 1 .. Len(inbox')
        BY <2>1, <3>1
      <3> QED
        BY <3>1, <3>2 DEF Owed
    <2> QED
      BY <1>2, <2>1, <2>3, <2>4 DEF Waits
  <1>5. CASE StoreFails \/ SubmitFails
    <2>1. credit' = [credit EXCEPT ![next_seq_no] = "free"]
      BY <1>5 DEF StoreFails, SubmitFails, ReleaseInput
    <2>2. n # next_seq_no /\ credit[n] # "free"
      BY <1>0, <2>1
    <2> QED
      BY <1>1, <1>2, <2>2 DEF Waits
  <1>6. CASE Submitted
    <2>1. worker = "submitting" /\ credit' = credit
      BY <1>6 DEF Submitted
    <2>2. ~Waits(n)
      BY <2>1 DEF Waits, Numbered
    <2> QED
      BY <1>1, <1>2, <2>1, <2>2
  <1>7. CASE ~(ReserveFrame \/ ReservePrompt \/ StoreFrame \/ StoreFails \/ SubmitFails \/ Submitted)
    <2>1. UNCHANGED <<next_seq_no, pending_frame>> /\ worker # "refused"
      BY <1>7 DEF Worker, GetClosed, Refuse, PrepareInput, Configure, Configured, FrameReadySent,
                PromptInvalid, ReserveClosed, AcceptedSent, WorkerSendFails,
                WorkerErrorSent, Handle, input
    <2>2. \/ credit' = credit
          \/ credit' = [credit EXCEPT ![next_seq_no - 1] = IF @ = "taken" THEN "accepted" ELSE @]
      BY <1>7 DEF Worker, GetClosed, Refuse, PrepareInput, Configure, Configured, FrameReadySent,
                PromptInvalid, ReserveClosed, AcceptedSent, WorkerSendFails,
                WorkerErrorSent, input
    <2>3. credit[n] # "free"
      BY <1>0, <2>2
    <2> QED
      BY <1>1, <1>2, <2>1, <2>3 DEF Waits
  <1> QED
    BY <1>3, <1>4, <1>5, <1>6, <1>7

\* The credit of a frame whose payload has not come is not given back.
LEMMA PendingPaid ==
    ASSUME TypeOK, Numbered, Ordered, Ending, Underway, Accounted, [Next]_vars,
           Answering', pending_frame', worker' # "done"
    PROVE  credit'[next_seq_no'] # "free"
  <1>0. /\ credit \in [SeqNo -> {"free", "taken", "accepted"}]
        /\ next_seq_no \in SeqNo /\ next_seq_no \in Nat /\ chunk.seq_no \in SeqNo
    BY NumberTypes DEF TypeOK
  <1>1. CASE Worker
    <2>1. CASE ReserveFrame
      <3>1. /\ credit' = [credit EXCEPT ![next_seq_no] = "taken"] /\ next_seq_no' = next_seq_no
        BY <2>1 DEF ReserveFrame
      <3> QED
        BY <1>0, <3>1
    <2>2. CASE Configured
      <3>1. response = "none" /\ pending_frame' = pending_frame
        BY <2>2 DEF Configured, Ordered, input
      <3> QED
        BY <3>1 DEF Ordered, Busy
    <2>3. CASE ~ReserveFrame /\ ~Configured
      <3>1. worker # "done" /\ response' = response
        BY <1>1, <2>3, WorkerEffect
      <3>2. pending_frame' = pending_frame \/ pending_frame' = FALSE
        BY <1>1, <2>3 DEF Worker, GetClosed, Refuse, PrepareInput, Configure, FrameReadySent,
              ReservePrompt, PromptInvalid, ReserveClosed, StoreFrame, StoreFails, Submitted,
              SubmitFails, AcceptedSent, WorkerSendFails, WorkerErrorSent, input
      <3>3. pending_frame
        BY <3>2
      <3>4. worker \notin {"reserve_frame", "reserve_prompt", "submitting", "refused"}
            /\ credit[next_seq_no] # "free"
        BY <3>1, <3>3 DEF Numbered, Accounted, Answering
      <3>5. ~StoreFrame /\ ~StoreFails
        BY DEF StoreFrame, StoreFails
      <3>6. ~ReservePrompt /\ ~Submitted /\ ~SubmitFails
        BY <3>4 DEF ReservePrompt, Submitted, SubmitFails
      <3>7. /\ next_seq_no' = next_seq_no
            /\ \/ credit' = credit
               \/ credit' = [credit EXCEPT ![next_seq_no - 1] = IF @ = "taken" THEN "accepted" ELSE @]
        BY <1>1, <2>3, <3>5, <3>6 DEF Worker, GetClosed, Refuse, PrepareInput, Configure,
              FrameReadySent, PromptInvalid, ReserveClosed, AcceptedSent, WorkerSendFails,
              WorkerErrorSent, input
      <3> QED
        BY <1>0, <3>4, <3>7
    <2> QED
      BY <2>1, <2>2, <2>3
  <1>2. CASE ~Worker /\ ~Processed
    <2>1. UNCHANGED <<next_seq_no>> /\ worker # "done"
      BY <1>2, ReceiverEffect, ResponseEffect, TeardownEffect, StageEffect
         DEF Next, ClientGone, RunEnds, Finished, vars, tasks, input
    <2>2. ~Teardown
      BY <2>1, TeardownEffect DEF Ending
    <2>3. Answering /\ pending_frame' = pending_frame /\ credit' = credit
      <3>1. CASE Response
        BY <1>2, <3>1, ResponseEffect DEF Response, ReadyChunk, InputChunk, Interrupted, ChunkSent,
              EndChunk, DoneSent, ErrorChunk, ResponseSendFails, ResponseErrorSent,
              ResponseCloses, NextChunk, Answering, Raised
      <3>2. CASE Receiver \/ Stage \/ ClientGone \/ RunEnds \/ Finished \/ UNCHANGED vars
        BY <3>2, ReceiverEffect, StageEffect
           DEF ClientGone, RunEnds, Finished, vars, tasks, input, Answering
      <3> QED
        BY <1>2, <2>2, <3>1, <3>2 DEF Next
    <2>4. credit[next_seq_no] # "free"
      BY <2>1, <2>3 DEF Accounted
    <2> QED
      BY <2>1, <2>3, <2>4
  <1>3. CASE Processed
    <2>1. /\ response = "held" /\ chunk.kind = "processed"
          /\ credit' = [credit EXCEPT ![chunk.seq_no] = "free"]
          /\ UNCHANGED <<worker, pending_frame, next_seq_no>>
      BY <1>3 DEF Processed, ReleaseInput, ResponseFrame
    <2>2. Submittable(chunk.seq_no)
      BY <2>1 DEF Underway, InHand, Sound, IsAnswer
    <2>3. worker # "submitting" /\ credit[next_seq_no] # "free"
      BY <2>1 DEF Numbered, Accounted, Answering
    <2>4. chunk.seq_no # next_seq_no
      BY <1>0, <2>1, <2>2, <2>3 DEF Submittable
    <2> QED
      BY <1>0, <2>1, <2>3, <2>4
  <1> QED
    BY <1>1, <1>2, <1>3

\* Every credit keeps a reason to be outstanding.
LEMMA AccountedStep ==
    ASSUME TypeOK, Numbered, Ordered, Ending, Underway, Accounted, [Next]_vars
    PROVE  Accounted'
  <1>0. /\ credit \in [SeqNo -> {"free", "taken", "accepted"}] /\ chunk.seq_no \in SeqNo
    BY NumberTypes DEF TypeOK
  <1>1. ASSUME ~closed', NEW n \in SeqNo, credit'[n] # "free" PROVE Waits(n)' \/ Owed(n)'
    <2>1. ~closed /\ ~RunEnds /\ ~Teardown
      BY <1>1, ClosedStays
    <2>2. credit[n] # "free" => Waits(n) \/ Owed(n)
      BY <2>1 DEF Accounted, Outstanding
    <2>3. CASE Worker
      BY <1>1, <2>1, <2>3, WorkerAccounts
    <2>4. CASE Response
      <3>1. Waits(n) => Waits(n)'
        BY <2>4, ResponseEffect DEF Waits
      <3>2. \/ credit' = credit
            \/ Processed /\ credit' = [credit EXCEPT ![chunk.seq_no] = "free"]
        BY <1>1, <2>4 DEF Response, ReadyChunk, InputChunk, Interrupted, Processed, ChunkSent,
              EndChunk, DoneSent, ErrorChunk, ResponseSendFails, ResponseErrorSent,
              ResponseCloses, ReleaseInput
      <3>3. credit[n] # "free" /\ ~(Processed /\ n = chunk.seq_no)
        <4>1. CASE Processed
          <5>1. credit' = [credit EXCEPT ![chunk.seq_no] = "free"]
            BY <4>1 DEF Processed, ReleaseInput
          <5> QED
            BY <1>0, <1>1, <5>1
        <4>2. CASE ~Processed
          BY <1>1, <3>2, <4>2
        <4> QED
          BY <4>1, <4>2
      <3> QED
        BY <2>2, <2>4, <3>1, <3>3, ResponseOwes
    <2>5. CASE Stage
      <3>1. Waits(n) => Waits(n)'
        BY <2>5, StageEffect DEF Waits
      <3>2. credit' = credit
        BY <2>5, StageEffect
      <3> QED
        BY <1>1, <2>2, <2>5, <3>1, <3>2, StageOwes
    <2>6. CASE Receiver \/ ClientGone \/ Finished \/ UNCHANGED vars
      <3>1. UNCHANGED <<credit, next_seq_no, pending_frame, worker, taken, inbox, chunks, response,
                        chunk>>
        BY <2>6, ReceiverEffect DEF ClientGone, Finished, vars, tasks, input, request
      <3>2. (Waits(n) <=> Waits(n)') /\ (Owed(n) <=> Owed(n)')
        BY <3>1 DEF Waits, Owed
      <3> QED
        BY <1>1, <2>2, <3>1, <3>2
    <2> QED
      BY <2>1, <2>3, <2>4, <2>5, <2>6 DEF Next
  <1>2. ~closed' => \A n \in Outstanding' : Waits(n)' \/ Owed(n)'
    BY <1>1 DEF Outstanding
  <1>3. Answering' /\ pending_frame' /\ worker' # "done" => credit'[next_seq_no'] # "free"
    BY PendingPaid
  <1> QED
    BY <1>2, <1>3 DEF Accounted

-----------------------------------------------------------------------------
(* The invariant and the theorems.                                         *)

\* A session starts well typed.
LEMMA InitType == Init => TypeOK
  <1> SUFFICES ASSUME Init PROVE TypeOK
    OBVIOUS
  <1>1. ControlOK
    BY DEF Init, ControlOK
  <1>2. FlagsOK
    BY Zenon DEF Init, FlagsOK
  <1>3. DataOK
    <2>1. << >> \in Seq(Kind) /\ << >> \in Seq(SeqNo) /\ << >> \in Seq(Chunk)
          /\ << >> \in Seq(Event) /\ Len(<< >>) = 0
      BY EmptySeq
    <2>2. 0 \in SeqNo /\ [n \in SeqNo |-> "free"] \in [SeqNo -> {"free", "taken", "accepted"}]
      BY SizesAssumption DEF SeqNo
    <2>3. 0 <= 2 * MaxCapacity + 2 /\ 0 \in 0 .. MaxMessages /\ 0 \in 0 .. 0
          /\ DefaultCapacity \in 1 .. MaxCapacity
      BY SizesAssumption
    <2>4. NoChunk \in Chunk
      BY ChunkTypes
    <2> QED
      BY <2>1, <2>2, <2>3, <2>4, Zenon DEF Init, DataOK
  <1> QED
    BY <1>1, <1>2, <1>3, TypeParts

\* The invariant holds when a session starts.
LEMMA InitInv == Init => IInv
  <1> SUFFICES ASSUME Init PROVE IInv
    OBVIOUS
  <1>1. TypeOK
    BY InitType
  <1>2. Len(inbox) = 0 /\ taken = 0 /\ Len(inputs) = 0 /\ Len(chunks) = 0 /\ DOMAIN wire = {}
        /\ DOMAIN chunks = {} /\ Len(wire) = 0
    BY EmptySeq DEF Init
  <1>3. Numbered
    BY <1>2 DEF Init, Numbered, Busy
  <1>4. Ordered /\ Ending
    BY DEF Init, Ordered, Ending, Busy
  <1>5. DoneSentBy /\ OneDone /\ AcceptedFirst
    BY <1>2 DEF DoneSentBy, OneDone, AcceptedFirst
  <1>6. Answered
    BY DEF Init, Answered
  <1>7. Underway
    BY <1>2 DEF Init, Underway, Holding, InInbox, InChunks, InHand
  <1>8. Outstanding = {}
    BY DEF Init, Outstanding
  <1>9. WithinCapacity
    BY <1>8, FS_EmptySet, SizesAssumption DEF Init, WithinCapacity
  <1>10. Accounted /\ Stored
    BY <1>8 DEF Init, Accounted, Answering, Stored
  <1> QED
    BY <1>1, <1>3, <1>4, <1>5, <1>6, <1>7, <1>9, <1>10 DEF IInv

\* Every step keeps it.
LEMMA Inductive == IInv /\ [Next]_vars => IInv'
  <1> SUFFICES ASSUME IInv, [Next]_vars PROVE IInv'
    OBVIOUS
  <1>0. /\ TypeOK /\ Numbered /\ Ordered /\ Ending /\ DoneSentBy /\ OneDone /\ Answered
        /\ AcceptedFirst /\ Underway /\ Holding /\ InHand /\ WithinCapacity /\ Accounted /\ Stored
    BY DEF IInv, Underway
  <1>1. TypeOK' /\ Numbered' /\ Ordered' /\ Ending'
    BY <1>0, TypeStep, NumberedStep, OrderedStep, EndingStep
  <1>2. DoneSentBy' /\ OneDone' /\ Answered' /\ AcceptedFirst'
    BY <1>0, DoneStep, OneDoneStep, AnsweredStep, AcceptedFirstStep
  <1>3. Underway' /\ Accounted' /\ Stored'
    BY <1>0, UnderwayStep, AccountedStep, StoredStep
  <1>4. WithinCapacity'
    BY <1>0, <1>1, CapacityStep
  <1> QED
    BY <1>1, <1>2, <1>3, <1>4 DEF IInv

\* It holds in every state a session reaches.
LEMMA Invariance == Spec => []IInv
  BY InitInv, Inductive, PTL DEF Spec

\* No interleaving of the receiver, the worker, the response task and the
\* teardown brings the session object into a state its code does not know, and
\* no sequence number goes past the messages that were received.
THEOREM TypeCorrect == Spec => []TypeOK
  <1>1. IInv => TypeOK
    BY DEF IInv
  <1> QED
    BY <1>1, Invariance, PTL

\* stream_response holds an answer back until _send_accepted has put the
\* acceptance of its event on the wire, and session.done is sent once, by the
\* response task or by _teardown, however their sends interleave.
THEOREM WireInOrder == Spec => []WireOrdered
  <1>1. IInv => WireOrdered
    <2> SUFFICES ASSUME IInv PROVE WireOrdered
      OBVIOUS
    <2> DEFINE D == {k \in 1 .. Len(wire) : wire[k].type = "done"}
    <2>1. AcceptedFirst /\ OneDone /\ wire \in Seq(Event)
      BY DEF IInv, TypeOK
    <2>2. DOMAIN wire = 1 .. Len(wire)
      BY <2>1, LenProperties
    <2>3. \A j, k \in D : j = k
      BY <2>1, <2>2 DEF OneDone
    <2>4. Cardinality(D) <= 1
      <3> HIDE DEF D
      <3>1. CASE D = {}
        BY <3>1, FS_EmptySet
      <3>2. CASE D # {}
        <4>1. PICK d : d \in D
          BY <3>2
        <4>2. D = {d}
          BY <2>3, <4>1
        <4> QED
          BY <4>2, FS_Singleton
      <3> QED
        BY <3>1, <3>2
    <2> QED
      BY <2>1, <2>4 DEF WireOrdered, DoneOnce
  <1> QED
    BY <1>1, Invariance, PTL

\* _reserve_input, _release_input and the error paths of the worker keep the
\* books: while the session is open no more events are outstanding than the
\* client's capacity, and every one of them waits for its payload or for its
\* submission, or an answer that returns its credit is under way.
THEOREM CreditsKept == Spec => []CreditsAccounted
  <1>1. IInv => CreditsAccounted
    BY DEF IInv, WithinCapacity, Accounted, Waits, CreditsAccounted
  <1> QED
    BY <1>1, Invariance, PTL

\* The frame store never forgets a segment that still exists, and after
\* _release_local_resources it knows none: no frame outlives its session,
\* although the worker, the stage and the response task drop frames too.
THEOREM FramesGone == Spec => []FramesReclaimed
  <1>1. IInv => FramesReclaimed
    BY DEF IInv, Stored, Ending, FramesReclaimed
  <1> QED
    BY <1>1, Invariance, PTL

-----------------------------------------------------------------------------
(* The session manager: no replica is ever given more sessions than its    *)
(* share of the cap, and no connection is refused while a slot is free.    *)

\* The connections that are being served or torn down.
Served == {s \in Session : handler[s] \in {"running", "closing"}}

\* They are the sessions of the dictionary, each on a replica when there are
\* several.
Slots ==
    /\ sessions = Served
    /\ replica_count > 1 => \A s \in sessions : dp_rank[s] \in Ranks

\* The inductive invariant of the manager.
ManagerInv == ManagerTypeOK /\ Slots /\ ReplicaWithinCapacity

\* The sessions pinned to a rank are finitely many, so that the load of the
\* rank is a number.
LEMMA LoadIsNat ==
    ASSUME ManagerTypeOK, NEW rank
    PROVE  /\ IsFiniteSet({s \in sessions : dp_rank[s] = rank})
           /\ load(rank) \in Nat
  <1>1. {s \in sessions : dp_rank[s] = rank} \in SUBSET Session
    BY DEF ManagerTypeOK
  <1>2. IsFiniteSet({s \in sessions : dp_rank[s] = rank})
    BY <1>1, SessionFinite, FS_Subset
  <1> QED
    BY <1>2, FS_CardinalityType DEF load

\* Each replica's share of the cap is a natural number (the constructor
\* refuses a cap that is not a multiple of replica_count).
LEMMA CapacityIsNat == per_replica_capacity \in Nat
  BY ReplicaCountAssumption, MaxSessionsAssumption DEF per_replica_capacity

\* Dropping sessions never raises a load (close).
LEMMA LoadShrinks ==
    ASSUME ManagerTypeOK, NEW rank, sessions' \subseteq sessions, dp_rank' = dp_rank
    PROVE  load(rank)' <= load(rank) /\ load(rank)' \in Nat
  <1> DEFINE S == {s \in sessions : dp_rank[s] = rank}
             T == {s \in sessions' : dp_rank'[s] = rank}
  <1>1. IsFiniteSet(S)
    BY LoadIsNat
  <1>2. T \in SUBSET S
    OBVIOUS
  <1>3. Cardinality(T) <= Cardinality(S) /\ IsFiniteSet(T)
    BY <1>1, <1>2, FS_Subset
  <1>4. Cardinality(T) \in Nat
    BY <1>3, FS_CardinalityType
  <1> QED
    BY <1>3, <1>4 DEF load

\* Opening a session adds one to the load of its own rank and to no other
\* (open, once _assign_replica has chosen).
LEMMA LoadGrowsByOne ==
    ASSUME ManagerTypeOK, NEW s \in Session, s \notin sessions,
           NEW r \in Ranks \cup {NoRank}, NEW rank \in Ranks,
           sessions' = sessions \cup {s},
           dp_rank' = [dp_rank EXCEPT ![s] = r]
    PROVE  load(rank)' = IF rank = r THEN load(rank) + 1 ELSE load(rank)
  <1> DEFINE S == {t \in sessions : dp_rank[t] = rank}
             T == {t \in sessions' : dp_rank'[t] = rank}
  <1>1. IsFiniteSet(S)
    BY LoadIsNat
  <1>2. dp_rank'[s] = r /\ \A t \in sessions : dp_rank'[t] = dp_rank[t]
    BY DEF ManagerTypeOK
  <1>3. CASE rank = r
    <2>1. T = S \cup {s} /\ s \notin S
      BY <1>2, <1>3
    <2>2. Cardinality(T) = Cardinality(S) + 1
      BY <2>1, <1>1, FS_AddElement
    <2> QED
      BY <2>2, <1>3 DEF load
  <1>4. CASE rank # r
    <2>1. T = S
      BY <1>2, <1>4
    <2> QED
      BY <2>1, <1>4 DEF load
  <1> QED
    BY <1>3, <1>4

\* ManagerTypeOK and ReplicaWithinCapacity are preserved by every step of the
\* manager.
LEMMA ManagerInvStep == ManagerInv /\ [ManagerNext]_managerVars => ManagerInv'
  <1> SUFFICES ASSUME ManagerInv, [ManagerNext]_managerVars PROVE ManagerInv'
    OBVIOUS
  <1> USE DEF ManagerInv
  <1>1. ASSUME NEW s \in Session, OpenSession(s) PROVE ManagerInv'
    <2>1. PICK r \in Ranks \cup {NoRank} :
            AssignReplica(r) /\ dp_rank' = [dp_rank EXCEPT ![s] = r]
      BY <1>1 DEF OpenSession
    <2>2. s \notin sessions
      BY <1>1 DEF OpenSession, Slots, Served
    <2>3. ManagerTypeOK'
      BY <1>1, <2>1 DEF OpenSession, ManagerTypeOK, HandlerState
    <2>4. Slots'
      <3>1. sessions' = Served'
        BY <1>1 DEF OpenSession, Slots, Served, ManagerTypeOK
      <3>2. ASSUME replica_count > 1, NEW t \in sessions'
            PROVE  dp_rank'[t] \in Ranks
        <4>1. r \in Ranks
          BY <2>1, <3>2, ReplicaCountAssumption DEF AssignReplica, free
        <4> QED
          BY <1>1, <2>1, <3>2, <4>1 DEF OpenSession, Slots, ManagerTypeOK
      <3> QED
        BY <3>1, <3>2 DEF Slots, Ranks
    <2>5. ASSUME replica_count > 1, NEW rank \in Ranks
          PROVE  load(rank)' <= per_replica_capacity
      <3>1. sessions' = sessions \cup {s}
        BY <1>1 DEF OpenSession
      <3>2. load(rank)' = IF rank = r THEN load(rank) + 1 ELSE load(rank)
        BY <2>1, <2>2, <3>1, LoadGrowsByOne
      <3>3. load(rank) \in Nat /\ load(rank) <= per_replica_capacity
        BY <2>5, LoadIsNat DEF ReplicaWithinCapacity
      <3>4. r \in free
        BY <2>1, <2>5, ReplicaCountAssumption DEF AssignReplica
      <3>5. rank = r => load(rank) < per_replica_capacity
        BY <3>4 DEF free
      <3> QED
        BY <3>2, <3>3, <3>5, CapacityIsNat
    <2>6. per_replica_capacity' = per_replica_capacity /\ Ranks' = Ranks
      BY DEF per_replica_capacity, Ranks
    <2> QED
      BY <2>3, <2>4, <2>5, <2>6 DEF ReplicaWithinCapacity
  <1>2. ASSUME sessions' \subseteq sessions, dp_rank' = dp_rank,
               ManagerTypeOK', Slots'
        PROVE  ManagerInv'
    <2>1. ASSUME replica_count > 1, NEW rank \in Ranks
          PROVE  load(rank)' <= per_replica_capacity
      <3>1. load(rank)' <= load(rank) /\ load(rank)' \in Nat
        BY <1>2, LoadShrinks
      <3>2. load(rank) \in Nat /\ load(rank) <= per_replica_capacity
        BY <2>1, LoadIsNat DEF ReplicaWithinCapacity
      <3> QED
        BY <3>1, <3>2, CapacityIsNat
    <2>2. per_replica_capacity' = per_replica_capacity /\ Ranks' = Ranks
      BY DEF per_replica_capacity, Ranks
    <2> QED
      BY <1>2, <2>1, <2>2 DEF ReplicaWithinCapacity
  <1>3. ASSUME NEW s \in Session,
               RefuseSession(s) \/ ConfigureSession(s) \/ RequestEnds(s) \/ AbortCompletes(s)
        PROVE  ManagerInv'
    <2>1. sessions' \subseteq sessions /\ dp_rank' = dp_rank
      BY <1>3 DEF RefuseSession, ConfigureSession, RequestEnds, AbortCompletes
    <2>2. ManagerTypeOK'
      BY <1>3 DEF RefuseSession, ConfigureSession, RequestEnds, AbortCompletes, ManagerTypeOK,
                  HandlerState, RequestState
    <2>3. Slots'
      BY <1>3 DEF RefuseSession, ConfigureSession, RequestEnds, AbortCompletes, Slots, Served,
                  ManagerTypeOK
    <2> QED
      BY <2>1, <2>2, <2>3, <1>2
  <1>4. ASSUME NEW s \in Session, BeginClose(s) \/ FinishClose(s) PROVE ManagerInv'
    <2>1. sessions' \subseteq sessions /\ dp_rank' = dp_rank
      BY <1>4 DEF BeginClose, FinishClose
    <2>2. ManagerTypeOK'
      BY <1>4 DEF BeginClose, FinishClose, ManagerTypeOK, HandlerState, RequestState
    <2>3. Slots'
      BY <1>4 DEF BeginClose, FinishClose, Slots, Served, ManagerTypeOK
    <2> QED
      BY <2>1, <2>2, <2>3, <1>2
  <1>5. ASSUME UNCHANGED managerVars PROVE ManagerInv'
    <2>1. ManagerTypeOK' /\ Slots'
      BY <1>5 DEF managerVars, ManagerTypeOK, Slots, Served, Ranks
    <2> QED
      BY <1>5, <2>1, <1>2 DEF managerVars
  <1> QED
    BY <1>1, <1>3, <1>4, <1>5 DEF ManagerNext

\* The manager starts empty (__init__).
LEMMA ManagerInvInit == ManagerInit => ManagerInv
  <1> SUFFICES ASSUME ManagerInit PROVE ManagerInv
    OBVIOUS
  <1>1. ManagerTypeOK /\ Slots
    BY DEF ManagerInit, ManagerTypeOK, Slots, Served, Ranks, HandlerState, RequestState, NoRank
  <1>2. ASSUME NEW rank \in Ranks PROVE load(rank) <= per_replica_capacity
    <2>1. {s \in sessions : dp_rank[s] = rank} = {}
      BY DEF ManagerInit
    <2> QED
      BY <2>1, FS_EmptySet, CapacityIsNat DEF load
  <1> QED
    BY <1>1, <1>2 DEF ManagerInv, ReplicaWithinCapacity

\* The type invariant of the manager, for every cap and number of replicas.
THEOREM ManagerTypeCorrect == ManagerSpec => []ManagerTypeOK
  BY ManagerInvInit, ManagerInvStep, PTL DEF ManagerSpec, ManagerInv

\* No replica is given more sessions than per_replica_capacity, in whatever
\* order sessions open and close (_assign_replica, open, close).
THEOREM ReplicaCapacity == ManagerSpec => []ReplicaWithinCapacity
  BY ManagerInvInit, ManagerInvStep, PTL DEF ManagerSpec, ManagerInv

\* The share of the cap is exact: the replicas' shares add up to the cap
\* (the constructor refuses a cap that is not a multiple of replica_count).
LEMMA SharesAddUp == replica_count * per_replica_capacity = max_sessions
  BY ReplicaCountAssumption, MaxSessionsAssumption DEF per_replica_capacity

\* When no replica has a free slot, max_sessions sessions hold one.
LEMMA NoFreeRankIsFull ==
    ASSUME ManagerInv, replica_count > 1, free = {}
    PROVE  Cardinality(sessions) = max_sessions
  <1> DEFINE D == [rank \in Ranks |-> {s \in sessions : dp_rank[s] = rank}]
             f == [rank \in Ranks |-> per_replica_capacity]
  <1>1. IsFiniteSet(Ranks) /\ Cardinality(Ranks) = replica_count
    <2>1. replica_count \in Nat /\ replica_count > 0
      BY ReplicaCountAssumption
    <2>2. 0 \in Int /\ replica_count - 1 \in Int
          /\ (IF 0 > replica_count - 1 THEN 0 ELSE replica_count - 1 - 0 + 1) = replica_count
      BY <2>1
    <2> QED
      BY <2>2, FS_Interval, Zenon DEF Ranks
  <1>2. ASSUME NEW rank \in Ranks
        PROVE  IsFiniteSet(D[rank]) /\ f[rank] = Cardinality(D[rank])
    <2>1. IsFiniteSet(D[rank]) /\ load(rank) \in Nat /\ load(rank) = Cardinality(D[rank])
      BY LoadIsNat DEF ManagerInv, load
    <2>2. load(rank) <= per_replica_capacity /\ ~(load(rank) < per_replica_capacity)
      BY DEF ManagerInv, ReplicaWithinCapacity, free
    <2> QED
      BY <2>1, <2>2, CapacityIsNat
  <1>3. UNION {D[rank] : rank \in Ranks} = sessions
    BY DEF ManagerInv, Slots
  <1>4. \A x, y \in Ranks : x # y => D[x] \cap D[y] = {}
    OBVIOUS
  <1>5. \A rank \in Ranks : f[rank] = per_replica_capacity
    OBVIOUS
  <1> HIDE DEF D, f
  <1>6. Cardinality(sessions) = SumFunctionOnSet(f, Ranks)
    BY <1>1, <1>2, <1>3, <1>4, SumOfParts
  <1>7. SumFunctionOnSet(f, Ranks) = Cardinality(Ranks) * per_replica_capacity
    BY <1>1, <1>5, CapacityIsNat, SumConstant
  <1> QED
    BY <1>1, <1>6, <1>7, SharesAddUp

\* One step refuses a connection only while max_sessions others are served.
LEMMA RefusalStep ==
    ASSUME ManagerInv, [ManagerNext]_managerVars, NEW s \in Session,
           handler[s] # "refused", handler'[s] = "refused"
    PROVE  Cardinality(Served) >= max_sessions
  <1>1. RefuseSession(s)
    BY DEF ManagerNext, managerVars, OpenSession, RefuseSession, ConfigureSession, RequestEnds,
           BeginClose, AbortCompletes, FinishClose, ManagerInv, ManagerTypeOK
  <1>2. CASE Cardinality(sessions) >= max_sessions
    BY <1>2 DEF ManagerInv, Slots
  <1>3. CASE replica_count > 1 /\ free = {}
    <2>1. Cardinality(Served) = max_sessions
      BY <1>3, NoFreeRankIsFull DEF ManagerInv, Slots
    <2> QED
      BY <2>1, MaxSessionsAssumption
  <1> QED
    BY <1>1, <1>2, <1>3 DEF RefuseSession

\* A connection is refused only while max_sessions others are served or being
\* torn down: no teardown leaks a slot and no replica strands one (open,
\* close's finally, _assign_replica).
THEOREM RefusalsJustified == ManagerSpec => RefusedOnlyWhenFull
  <1>1. ManagerInv /\ [ManagerNext]_managerVars =>
          [\A s \in Session :
             handler[s] # "refused" /\ handler'[s] = "refused" =>
                Cardinality({t \in Session : handler[t] \in {"running", "closing"}})
                    >= max_sessions]_managerVars
    BY RefusalStep DEF Served
  <1> QED
    BY <1>1, ManagerInvInit, ManagerInvStep, PTL DEF ManagerSpec, RefusedOnlyWhenFull
=============================================================================
