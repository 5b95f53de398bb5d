--------------------------- MODULE EmbeddingWorker ---------------------------
(***************************************************************************)
(* The embedding worker thread (core embedding-worker.ts): a queue in      *)
(* which recall queries overtake documents, and a model that is loaded     *)
(* with the first request.  The thread exchanges messages with the main    *)
(* thread in order; its end is reported after its last message.            *)
(*                                                                         *)
(* A request is [id, priority]; the vectors of an answer are left out.     *)
(***************************************************************************)
EXTENDS Integers, Sequences, SequencesExt

VARIABLE
    worker  \* thread, model, queue, request in progress, messages from and to the main thread

NoId == <<>>
NoWorker == [thread |-> "none", model |-> "unloaded", queue |-> <<>>, current |-> NoId, inbox |-> <<>>, outbox |-> <<>>]
FreshWorker == [NoWorker EXCEPT !.thread = "running"]

Reply(type, id) == [type |-> type, id |-> id]

\* What the main thread posts; a thread that has ended reads nothing.
Posted(w, requests) == [w EXCEPT !.inbox = @ \o requests]

\* enqueue: a recall goes before the first document, a document to the end.
\* A bug: the latest document is the first.
Bug_EnqueueLast(queue, request) == <<request>> \o queue

Enqueue(queue, request) ==
    LET documents == {i \in DOMAIN queue : queue[i].priority # "high"}
    IN  IF request.priority = "high" /\ documents # {} THEN InsertAt(queue, Min(documents), request)
        ELSE Append(queue, request)

\* drain: the next request, unless one is being processed.
Drain(w) ==
    IF w.current # NoId \/ w.queue = <<>> THEN w
    ELSE [w EXCEPT !.current = Head(w.queue).id, !.queue = Tail(@)]

Done(w) == Drain([w EXCEPT !.current = NoId])

Receives ==
    /\ worker.thread = "running" /\ worker.inbox # <<>>
    /\ worker' = Drain([worker EXCEPT !.inbox = Tail(@), !.queue = Enqueue(@, Head(worker.inbox))])

\* ensurePipeline, with the first request
IsLoading == worker.thread = "running" /\ worker.current # NoId /\ worker.model = "unloaded"

ModelLoads == IsLoading /\ worker' = [worker EXCEPT !.model = "loaded"]

\* The failure is told once; the request is not answered.
ModelFails ==
    /\ IsLoading
    /\ worker' = Done([worker EXCEPT !.model = "failed", !.outbox = Append(@, Reply("init-error", NoId))])

\* A request after the failure is taken and dropped.
Drops == worker.thread = "running" /\ worker.current # NoId /\ worker.model = "failed" /\ worker' = Done(worker)

\* The inference succeeds or fails, for instance out of memory.
Processes ==
    /\ worker.thread = "running" /\ worker.current # NoId /\ worker.model = "loaded"
    /\ \E type \in {"result", "error"} :
           worker' = Done([worker EXCEPT !.outbox = Append(@, Reply(type, worker.current))])

\* The thread dies of an error.
Crashes ==
    /\ worker.thread = "running"
    /\ worker' = [NoWorker EXCEPT !.thread = "ended", !.outbox = Append(worker.outbox, Reply("crash", NoId))]

WorkerSteps == Receives \/ ModelLoads \/ ModelFails \/ Drops \/ Processes

\* Where a request is on its way.
IsAtWorker(id) ==
    \/ worker.current = id
    \/ \E i \in DOMAIN worker.queue : worker.queue[i].id = id
    \/ \E i \in DOMAIN worker.inbox : worker.inbox[i].id = id
    \/ \E i \in DOMAIN worker.outbox : worker.outbox[i] \in {Reply("result", id), Reply("error", id)}
=============================================================================
