------------------------------ MODULE Session ------------------------------
(***************************************************************************)
(* One connection of the HTTP server (src/tools/serve/server.cpp, Session): *)
(* the requests it reads, the responses and event streams it writes, and    *)
(* the worker thread that pushes the tokens of a run into its queue.        *)
(*                                                                         *)
(* strand is the queue of the asio strand: handlers run one at a time, in   *)
(* the order they were posted.  An asynchronous read or write is under way  *)
(* from its initiation until the kernel completes it and its handler is     *)
(* posted to the strand.  A request is [r, kind, keep]: its number on the   *)
(* connection, what handle_request_ makes of it, and req_.keep_alive().     *)
(***************************************************************************)
EXTENDS Naturals, Sequences, SequencesExt

CONSTANTS MaxRequests,   \* bound on the requests of the connection
          MaxChunks      \* bound on the tokens of a run

ASSUME SessionAssumption == MaxRequests \in Nat \ {0} /\ MaxChunks \in Nat

VARIABLES strand,       \* handlers posted to strand_, oldest first
          req,          \* req_
          reading,      \* an async_read is under way
          writes,       \* the write operations under way
          isWriting,    \* is_writing_
          headerSent,   \* header_sent_
          queue,        \* streaming_queue_
          closed,       \* do_close_ has shut the sending side
          link,         \* whether the peer is still there
          process,      \* "up" until an exception leaves a handler
          runs,         \* the run of each chat request
          tokens,       \* how many tokens the current run has generated
          producer,     \* what the worker thread does in stream_json_message
          received,     \* how many requests were read
          wire          \* history: what has been written, oldest first

runVars == <<runs, tokens, producer>>
streamVars == <<isWriting, headerSent, queue>>
peerVars == <<link, process, received, wire>>
vars == <<strand, req, reading, writes, streamVars, closed, runVars, peerVars>>

Requests == 1..MaxRequests
\* plain: what is answered with one response (the page, found or missing,
\* GET /health, and a POST that is refused: another content type, not JSON, no
\* message); chat: a completion; unrouted: any other target or method; fatal:
\* JSON of a wrong shape.
Kinds == {"plain", "chat", "unrouted", "fatal"}
RequestsOf(r) == [r : {r}, kind : Kinds, keep : BOOLEAN]
NoRequest == [r |-> 0, kind |-> "none", keep |-> TRUE]

\* What is written: whole responses, the header of a stream, its chunks.
Response(r) == [what |-> "response", r |-> r, k |-> 0]
Header(r)   == [what |-> "header", r |-> r, k |-> 0]
Chunk(r, k) == [what |-> "chunk", r |-> r, k |-> k]
End(r, k)   == [what |-> "end", r |-> r, k |-> k]
Items == [what : {"response", "header", "chunk", "end"}, r : 0..MaxRequests, k : 0..MaxChunks]

\* A handler in the strand: its name, the error code it gets, what it is about.
Handler(name, ok, about) == [name |-> name, ok |-> ok, about |-> about]
Post(name) == Handler(name, TRUE, NoRequest)

TypeOK ==
  /\ \A j \in 1..Len(strand) :
       strand[j].name \in {"do_read", "read_done", "respond", "initiate", "flush", "write_done"}
  /\ req \in UNION {RequestsOf(r) : r \in Requests} \cup {NoRequest}
  /\ reading \in BOOLEAN
  /\ writes \in Seq(Items)
  /\ isWriting \in BOOLEAN /\ headerSent \in BOOLEAN
  /\ queue \in Seq(Items)
  /\ closed \in BOOLEAN
  /\ link \in {"up", "down"} /\ process \in {"up", "terminated"}
  /\ runs \in [Requests -> {"none", "queued", "running", "finished", "threw"}]
  /\ tokens \in 0..MaxChunks
  /\ producer \in {"idle", "post"}
  /\ received \in 0..MaxRequests
  /\ wire \in Seq(Items)

\* The Session constructor, and run(), which posts do_read_.
Init ==
  /\ strand = <<Post("do_read")>>
  /\ req = NoRequest
  /\ reading = FALSE
  /\ writes = <<>>
  /\ isWriting = FALSE /\ headerSent = FALSE
  /\ queue = <<>>
  /\ closed = FALSE
  /\ link = "up" /\ process = "up"
  /\ runs = [r \in Requests |-> "none"]
  /\ tokens = 0
  /\ producer = "idle"
  /\ received = 0
  /\ wire = <<>>

-----------------------------------------------------------------------------
\* The network (external).  An operation on a connection that is gone, or
\* whose timer has expired, completes with an error.

LinkDown ==
  /\ link = "up"
  /\ link' = "down"
  /\ UNCHANGED <<strand, req, reading, writes, streamVars, closed, process, runVars, received, wire>>

\* async_read completes with a request, with end_of_stream, or with an error.
CompleteRead ==
  /\ reading
  /\ reading' = FALSE
  /\ \/ /\ link = "up" /\ received < MaxRequests
        /\ received' = received + 1
        /\ \E q \in RequestsOf(received + 1) : strand' = Append(strand, Handler("read_done", TRUE, q))
     \/ /\ strand' = Append(strand, Handler("read_done", FALSE, NoRequest))
        /\ UNCHANGED received
  /\ UNCHANGED <<req, writes, streamVars, closed, link, process, runVars, wire>>

\* The bytes of an item are not modelled, so neither is what goes out in place
\* of the rest of a chunk that the first send did not take whole: its buffer is
\* a local string, gone when flush_streaming_queue_ returns (server.cpp:309).
CompleteWrite ==
  /\ \E j \in 1..Len(writes) :
       /\ writes' = SubSeq(writes, 1, j - 1) \o SubSeq(writes, j + 1, Len(writes))
       /\ \/ /\ link = "up" /\ ~closed
             /\ wire' = Append(wire, writes[j])
             /\ strand' = Append(strand, Handler("write_done", TRUE, writes[j]))
          \/ /\ link = "down" \/ closed
             /\ strand' = Append(strand, Handler("write_done", FALSE, writes[j]))
             /\ UNCHANGED wire
  /\ UNCHANGED <<req, reading, streamVars, closed, link, process, runVars, received>>

-----------------------------------------------------------------------------
\* The worker thread: the callback of chat_completion, called for each token
\* and for the completion of the run, calls stream_json_message.

StartRun(r) ==
  /\ runs[r] = "queued"
  /\ producer = "idle"
  /\ \A s \in Requests : runs[s] # "running"
  /\ runs' = [runs EXCEPT ![r] = "running"]
  /\ tokens' = 0
  /\ UNCHANGED <<strand, req, reading, writes, streamVars, closed, producer, peerVars>>

\* The push under queue_mutex_, of a token or of the end of the stream.
PushToken(r) ==
  /\ runs[r] = "running"
  /\ producer = "idle"
  /\ tokens < MaxChunks
  /\ tokens' = tokens + 1
  /\ queue' = Append(queue, Chunk(r, tokens + 1))
  /\ producer' = "post"
  /\ UNCHANGED <<strand, req, reading, writes, isWriting, headerSent, closed, runs, peerVars>>

PushEnd(r) ==
  /\ runs[r] = "running"
  /\ producer = "idle"
  /\ runs' = [runs EXCEPT ![r] = "finished"]
  /\ queue' = Append(queue, End(r, tokens))
  /\ producer' = "post"
  /\ UNCHANGED <<strand, req, reading, writes, isWriting, headerSent, closed, tokens, peerVars>>

\* net::post of flush_streaming_queue_, after the mutex is released.
PostFlush ==
  /\ producer = "post"
  /\ producer' = "idle"
  /\ strand' = Append(strand, Post("flush"))
  /\ UNCHANGED <<req, reading, writes, streamVars, closed, runs, tokens, peerVars>>

\* Inference throws: execute_task_ puts the exception into a future that the
\* server has dropped, and no event reports it.
RunThrows(r) ==
  /\ runs[r] = "running"
  /\ producer = "idle"
  /\ runs' = [runs EXCEPT ![r] = "threw"]
  /\ UNCHANGED <<strand, req, reading, writes, streamVars, closed, tokens, producer, peerVars>>

-----------------------------------------------------------------------------
\* The handlers of the strand.

Handling(name) == strand # <<>> /\ Head(strand).name = name

\* do_read_: req_ is cleared and a read begins.
DoRead == req' = NoRequest /\ reading' = TRUE /\ UNCHANGED closed
DoClose == closed' = TRUE /\ UNCHANGED <<req, reading>>

RunDoRead ==
  /\ Handling("do_read")
  /\ DoRead
  /\ strand' = Tail(strand)
  /\ UNCHANGED <<writes, streamVars, runVars, peerVars>>

\* The handler of async_read on an error, and handle_request_ otherwise.
ReadFailed ==
  /\ Handling("read_done") /\ ~Head(strand).ok
  /\ strand' = Tail(strand)
  /\ \/ DoClose
     \/ UNCHANGED <<req, reading, closed>>
  /\ UNCHANGED <<writes, streamVars, runVars, peerVars>>

\* handle_request_ and health_check: a page, or a JSON body, is posted.
Respond ==
  /\ Handling("read_done") /\ Head(strand).ok
  /\ Head(strand).about.kind = "plain"
  /\ req' = Head(strand).about
  /\ strand' = Append(Tail(strand), Handler("respond", TRUE, Response(req'.r)))
  /\ UNCHANGED <<reading, writes, streamVars, closed, runVars, peerVars>>

\* chat_completion: initiate_streaming posts before the run is submitted, and
\* what it posts waits for this handler to return.
ChatCompletion ==
  /\ Handling("read_done") /\ Head(strand).ok
  /\ Head(strand).about.kind = "chat"
  /\ req' = Head(strand).about
  /\ strand' = Append(Tail(strand), Post("initiate"))
  /\ runs' = [runs EXCEPT ![req'.r] = "queued"]
  /\ UNCHANGED <<reading, writes, streamVars, closed, tokens, producer, peerVars>>

\* Nothing is answered and nothing is posted: the connection is dropped.
Unrouted ==
  /\ Handling("read_done") /\ Head(strand).ok
  /\ Head(strand).about.kind = "unrouted"
  /\ req' = Head(strand).about
  /\ strand' = Tail(strand)
  /\ UNCHANGED <<reading, writes, streamVars, closed, runVars, peerVars>>

\* as_object() or as_string() throws out of the handler and out of ioc.run().
FatalRequest ==
  /\ Handling("read_done") /\ Head(strand).ok
  /\ Head(strand).about.kind = "fatal"
  /\ process' = "terminated"
  /\ UNCHANGED <<strand, req, reading, writes, streamVars, closed, link, runVars, received, wire>>

\* The handler that send_response_ posts.
StartResponse ==
  /\ Handling("respond")
  /\ strand' = Tail(strand)
  /\ writes' = Append(writes, Head(strand).about)
  /\ UNCHANGED <<req, reading, streamVars, closed, runVars, peerVars>>

\* Mutant: no test of is_writing_.
WaitsNever(writing) == FALSE

Waits(writing) == writing

\* Mutant: the newest chunk goes first.
PopNewest == queue' = Front(queue) /\ writes' = Append(writes, Last(queue))

Pop == queue' = Tail(queue) /\ writes' = Append(writes, Head(queue))

\* flush_streaming_queue_, entered with is_writing_ and header_sent_ as given:
\* at most one write is under way, the header goes first.
FlushStreamingQueue(writing, sent) ==
  /\ headerSent' = sent
  /\ \/ /\ Waits(writing) \/ (sent /\ queue = <<>>)
        /\ isWriting' = writing
        /\ UNCHANGED <<queue, writes>>
     \/ /\ ~Waits(writing) /\ ~sent
        /\ isWriting' = TRUE
        /\ writes' = Append(writes, Header(req.r))
        /\ UNCHANGED queue
     \/ /\ ~Waits(writing) /\ sent /\ queue # <<>>
        /\ isWriting' = TRUE
        /\ Pop

RunInitiate ==
  /\ Handling("initiate")
  /\ strand' = Tail(strand)
  /\ FlushStreamingQueue(isWriting, FALSE)
  /\ UNCHANGED <<req, reading, closed, runVars, peerVars>>

RunFlush ==
  /\ Handling("flush")
  /\ strand' = Tail(strand)
  /\ FlushStreamingQueue(isWriting, headerSent)
  /\ UNCHANGED <<req, reading, closed, runVars, peerVars>>

\* The completion handlers of the three writes.
Written(what) == Handling("write_done") /\ Head(strand).about.what = what /\ Head(strand).ok

ResponseWritten ==
  /\ Written("response")
  /\ strand' = Tail(strand)
  /\ IF req.keep THEN DoRead ELSE DoClose
  /\ UNCHANGED <<writes, streamVars, runVars, peerVars>>

HeaderWritten ==
  /\ Written("header")
  /\ strand' = Tail(strand)
  /\ FlushStreamingQueue(FALSE, TRUE)
  /\ UNCHANGED <<req, reading, closed, runVars, peerVars>>

\* After the last chunk of a stream.
NextRequest ==
  /\ isWriting' = FALSE
  /\ IF req.keep THEN DoRead ELSE DoClose
  /\ UNCHANGED <<writes, headerSent, queue>>

\* Mutant: the handler leaves the rest of the queue to the posted flushes.
NextChunkPosted == isWriting' = FALSE /\ UNCHANGED <<req, reading, closed, writes, headerSent, queue>>

\* Mutant: every chunk is taken for the last one.
NextChunkNever == NextRequest

NextChunk == FlushStreamingQueue(FALSE, headerSent) /\ UNCHANGED <<req, reading, closed>>

ChunkWritten ==
  /\ Written("chunk")
  /\ strand' = Tail(strand)
  /\ NextChunk
  /\ UNCHANGED <<runVars, peerVars>>

EndWritten ==
  /\ Written("end")
  /\ strand' = Tail(strand)
  /\ NextRequest
  /\ UNCHANGED <<runVars, peerVars>>

\* A failed response is only reported; a failed header leaves is_writing_ set.
WriteFailed ==
  /\ Handling("write_done") /\ ~Head(strand).ok
  /\ strand' = Tail(strand)
  /\ LET what == Head(strand).about.what
     IN  /\ isWriting' = IF what \in {"chunk", "end"} THEN FALSE ELSE isWriting
         /\ IF what = "response" THEN UNCHANGED <<req, reading, closed>> ELSE DoClose
  /\ UNCHANGED <<writes, headerSent, queue, runVars, peerVars>>

-----------------------------------------------------------------------------
Strand ==
  \/ RunDoRead \/ ReadFailed \/ Respond \/ ChatCompletion \/ Unrouted \/ FatalRequest
  \/ StartResponse \/ RunInitiate \/ RunFlush
  \/ ResponseWritten \/ HeaderWritten \/ ChunkWritten \/ EndWritten \/ WriteFailed

WorkerThread ==
  \/ PostFlush
  \/ \E r \in Requests : StartRun(r) \/ PushToken(r) \/ PushEnd(r) \/ RunThrows(r)

Next ==
  /\ process = "up"
  /\ Strand \/ WorkerThread \/ CompleteRead \/ CompleteWrite \/ LinkDown

\* The threads of the io_context and the worker thread keep running, and the
\* timers of expires_after end every read and write.
Fairness ==
  /\ WF_vars(process = "up" /\ Strand)
  /\ WF_vars(process = "up" /\ WorkerThread)
  /\ WF_vars(process = "up" /\ CompleteRead)
  /\ WF_vars(process = "up" /\ CompleteWrite)

Spec == Init /\ [][Next]_vars
FairSpec == Spec /\ Fairness

-----------------------------------------------------------------------------
\* Everything the session has written or is writing.
Sent == wire \o writes

\* "The SSE header is actually written inside flush_streaming_queue_ (gated by
\* header_sent_), so it is serialized with the data chunks on the strand"
\* (server.cpp:191-192): a stream begins with its header.
HeaderFirst ==
  \A j \in 1..Len(Sent) :
    Sent[j].what \in {"chunk", "end"} => \E h \in 1..(j - 1) : Sent[h] = Header(Sent[j].r)

\* No two write operations are ever under way on the socket: their bytes would
\* interleave.  This is what the strand and is_writing_ are for, with the
\* worker thread posting at any moment (server.cpp:258-263).
AtMostOneWrite == HeaderFirst => Len(writes) <= 1

\* What may follow an item on the wire, over the whole connection: a response
\* or a stream of a later request after a complete answer; within a stream the
\* header, then the tokens in the order of their generation, none missing or
\* doubled, then the end that counts them.
MayFollow(a, b) ==
  \/ a.what \in {"response", "end"} /\ b.what \in {"response", "header"} /\ b.r > a.r
  \/ a.what \in {"header", "chunk"} /\ b = Chunk(a.r, a.k + 1)
  \/ a.what \in {"header", "chunk"} /\ b = End(a.r, a.k)

WireInOrder ==
  HeaderFirst => \A j \in 1..(Len(wire) - 1) : MayFollow(wire[j], wire[j + 1])

\* req_ is not cleared under a stream that still uses it: while the next
\* request is read, nothing is being written and no token is waiting
\* (server.cpp:121-125 and 319-327).
ReadsOnlyWhenQuiet ==
  HeaderFirst /\ reading => writes = <<>> /\ ~isWriting /\ queue = <<>>

\* Every run that completes ends its stream: no token stays behind in the
\* queue because a flush came while is_writing_ was set.
StreamEnds ==
  \A r \in Requests :
    runs[r] = "finished" ~>
      \/ \E j \in 1..Len(wire) : wire[j].what = "end" /\ wire[j].r = r
      \/ link = "down"

=============================================================================
