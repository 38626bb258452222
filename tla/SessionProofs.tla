---------------------------- MODULE SessionProofs ----------------------------
(***************************************************************************)
(* Proofs about Session, for every number of requests on the connection and *)
(* of tokens in a run: one write at a time, the order on the wire, and that *)
(* the next request is not read under a stream.                             *)
(*                                                                         *)
(* A stream may begin without its header when a flush of the stream before  *)
(* comes late (HeaderFirst is violated); the properties hold up to there,   *)
(* so the invariant is a disjunction: a chunk without its header has gone   *)
(* out, or the session is in order.                                         *)
(***************************************************************************)
EXTENDS Session, TLAPS

-----------------------------------------------------------------------------
\* The strand.  Flushes may be anywhere in it; of the other handlers there are
\* none, one or two.

IsSeq(s) == \E S : s \in Seq(S)
Place(s) == 1..Len(s)

NoneIn(s) == \A j \in Place(s) : s[j].name = "flush"
OneIn(s, h) ==
  \E a \in Place(s) : s[a] = h /\ \A j \in Place(s) : j # a => s[j].name = "flush"
TwoIn(s, h, g) ==
  \E a, b \in Place(s) :
    /\ a < b /\ s[a] = h /\ s[b] = g
    /\ \A j \in Place(s) : j # a /\ j # b => s[j].name = "flush"
NoFlush(s) == \A j \in Place(s) : s[j].name # "flush"

-----------------------------------------------------------------------------
\* The inductive invariant.

TypeInv ==
  /\ IsSeq(strand) /\ IsSeq(writes) /\ IsSeq(queue) /\ IsSeq(wire)
  /\ received \in Nat /\ tokens \in Nat
  /\ isWriting \in BOOLEAN /\ headerSent \in BOOLEAN
  /\ runs \in [Requests -> {"none", "queued", "running", "finished", "threw"}]

\* A chunk of a stream whose header was not written before it has gone out.
Spoilt ==
  \E j \in 1..Len(wire) :
    wire[j].what \in {"chunk", "end"} /\ \A h \in 1..(j - 1) : wire[h] # Header(wire[j].r)

\* The stages of a session: what it is waiting for, between two streams and
\* while it serves one.  A stage comes with the error code and the subject of
\* the handler that is posted, or of the write that is under way.
Calm == {"do_read", "reading", "read_done", "respond", "response", "responded", "over"}
Streaming == {"init", "init_writing", "init_written", "writing", "written", "waiting", "stuck"}
OnSocket == {"init_writing", "writing"}
InFlight == OnSocket \cup {"init_written", "written"}

\* What is in the strand, and on the socket, at each stage.
StrandIs(m, ok, x, s) ==
  /\ m \in {"reading", "response", "over", "writing", "waiting", "stuck"} => NoneIn(s)
  /\ m = "do_read" => OneIn(s, Post("do_read"))
  /\ m = "read_done" => OneIn(s, Handler("read_done", ok, x))
  /\ m = "respond" => OneIn(s, Handler("respond", TRUE, Response(req.r)))
  /\ m = "responded" => OneIn(s, Handler("write_done", ok, Response(req.r)))
  /\ m \in {"init", "init_writing"} => OneIn(s, Post("initiate"))
  /\ m = "init_written" => TwoIn(s, Post("initiate"), Handler("write_done", ok, x))
  /\ m = "written" => OneIn(s, Handler("write_done", ok, x))
SocketIs(m, x) ==
  /\ reading <=> m = "reading"
  /\ isWriting <=> m \in InFlight \cup {"stuck"}
  /\ m = "response" => writes = <<Response(req.r)>>
  /\ m \in OnSocket => writes = <<x>>
  /\ m \notin OnSocket \cup {"response"} => writes = <<>>
ControlInv(m, ok, x) ==
  m \in Calm \cup Streaming /\ StrandIs(m, ok, x, strand) /\ SocketIs(m, x)

\* The request that is being served is the last one that was read.
RequestInv(m, ok, x) ==
  /\ m = "read_done" /\ ok => x \in RequestsOf(received) /\ received \in Requests
  /\ m \in {"respond", "response", "responded"} \cup Streaming => req.r = received

\* Between two streams no run is left that could push, and a flush finds
\* nothing to do.
CalmInv(m) ==
  m \in Calm =>
    /\ queue = <<>>
    /\ \A s \in Requests : runs[s] \in {"none", "finished"}
    /\ headerSent \/ (producer = "idle" /\ NoFlush(strand))

\* The items of the stream in their order, the header first, and how many of
\* the others were pushed to and popped from the queue.
Item(k) ==
  IF k = 0 THEN Header(received)
  ELSE IF runs[received] = "finished" /\ k = tokens + 1 THEN End(received, tokens)
  ELSE Chunk(received, k)
Pushed ==
  IF runs[received] = "queued" THEN 0 ELSE IF runs[received] = "finished" THEN tokens + 1 ELSE tokens
Popped == Pushed - Len(queue)

\* The queue holds the items of the one stream that were not popped yet.
StreamInv(m, x) ==
  m \in Streaming =>
    /\ received \in Requests
    /\ runs[received] # "none"
    /\ \A s \in Requests \ {received} : runs[s] \in {"none", "finished"}
    /\ Len(queue) <= Pushed
    /\ \A j \in 1..Len(queue) : queue[j] = Item(Popped + j)
    /\ m \in InFlight => x = Header(received) \/ (Popped > 0 /\ x = Item(Popped))

\* header_sent_ tells that the header of the stream is out, once the handler
\* that initiates the stream has run.
HeaderOut == \E h \in 1..Len(wire) : wire[h] = Header(received)
LastOut == wire[Len(wire)]
HeaderInv(m, ok, x) ==
  /\ m \in Streaming /\ HeaderOut =>
       \/ m = "stuck"
       \/ headerSent /\ m \in {"writing", "written", "waiting"}
       \/ ok /\ x = Header(received) /\ m \in {"init_written", "written"}
  /\ m \in {"writing", "written", "waiting"} /\ headerSent => HeaderOut
  /\ m \in {"init_written", "written"} /\ ok => wire # <<>> /\ LastOut = x

\* What is out is of this request or of an earlier one.
BoundInv(m, ok) ==
  /\ \A j \in 1..Len(wire) : wire[j].r \in Nat /\ wire[j].r <= received
  /\ \/ m = "read_done" /\ ok
     \/ m \in {"respond", "response"}
     \/ m \in Streaming /\ ~HeaderOut
     => \A j \in 1..Len(wire) : wire[j].r < received

\* The wire is in order, and as long as nothing has failed what comes next
\* will be.
Ready == wire = <<>> \/ LastOut.what \in {"response", "end"}
Headed(m, x) == m \in OnSocket /\ x.what \in {"chunk", "end"} => HeaderOut
WireOrdered == \A j \in 1..(Len(wire) - 1) : MayFollow(wire[j], wire[j + 1])
OrderInv(m, x) ==
  /\ WireOrdered
  /\ link = "up" /\ ~closed /\ Headed(m, x) =>
       /\ m \in Calm => Ready
       /\ m \in Streaming /\ ~HeaderOut => Ready /\ Popped = 0
       /\ m \in Streaming \ OnSocket /\ HeaderOut => wire # <<>> /\ LastOut = Item(Popped)
       /\ m \in OnSocket /\ HeaderOut =>
            wire # <<>> /\ Popped > 0 /\ x = Item(Popped) /\ LastOut = Item(Popped - 1)

Orderly(m, ok, x) ==
  /\ ControlInv(m, ok, x) /\ RequestInv(m, ok, x) /\ CalmInv(m) /\ StreamInv(m, x)
  /\ HeaderInv(m, ok, x) /\ BoundInv(m, ok) /\ OrderInv(m, x)

IInv == TypeInv /\ (Spoilt \/ \E m, ok, x : Orderly(m, ok, x))

-----------------------------------------------------------------------------
\* A sequence with an element appended, without its first one, or put before
\* another.

Grown(s, e, t) ==
  /\ IsSeq(t) /\ Len(s) \in Nat /\ Len(t) = Len(s) + 1 /\ t[Len(s) + 1] = e
  /\ \A j \in Place(s) : t[j] = s[j]
Shrunk(s, t) ==
  /\ IsSeq(t) /\ Len(s) \in Nat /\ Len(t) \in Nat /\ Len(s) = Len(t) + 1 /\ Head(s) = s[1]
  /\ \A j \in Place(t) : t[j] = s[j + 1]

\* What Append does to a sequence of anything.
LEMMA AppendGrows == ASSUME NEW s, IsSeq(s), NEW e PROVE Grown(s, e, Append(s, e))
<1>1. PICK S : s \in Seq(S)
  BY DEF IsSeq
<1>2. s \in Seq(S \cup {e}) /\ Append(s, e) \in Seq(S \cup {e})
  BY <1>1
<1>3. IsSeq(Append(s, e))
  BY <1>2 DEF IsSeq
<1> QED
  BY <1>2, <1>3 DEF Grown, Place

\* What Tail leaves of a sequence of anything.
LEMMA TailShrinks == ASSUME NEW s, IsSeq(s), s # <<>> PROVE Shrunk(s, Tail(s))
<1>1. PICK S : s \in Seq(S)
  BY DEF IsSeq
<1>2. Tail(s) \in Seq(S) /\ Len(s) \in Nat \ {0} /\ Len(Tail(s)) = Len(s) - 1
  BY <1>1
<1>3. IsSeq(Tail(s))
  BY <1>2 DEF IsSeq
<1> QED
  BY <1>1, <1>2, <1>3 DEF Shrunk, Place

\* Posting a flush does not change which other handlers wait in the strand.
LEMMA FlushPosted ==
  ASSUME NEW s, NEW t, NEW e, Grown(s, e, t), e.name = "flush"
  PROVE  /\ NoneIn(s) => NoneIn(t)
         /\ \A h : OneIn(s, h) => OneIn(t, h)
         /\ \A h, g : TwoIn(s, h, g) => TwoIn(t, h, g)
<1> USE DEF Grown, Place
<1>1. NoneIn(s) => NoneIn(t)
  BY DEF NoneIn
<1>2. ASSUME NEW h, OneIn(s, h) PROVE OneIn(t, h)
  BY <1>2 DEF OneIn
<1>3. ASSUME NEW h, NEW g, TwoIn(s, h, g) PROVE TwoIn(t, h, g)
  <2>1. PICK a, b \in Place(s) :
             /\ a < b /\ s[a] = h /\ s[b] = g
             /\ \A j \in Place(s) : j # a /\ j # b => s[j].name = "flush"
    BY <1>3 DEF TwoIn
  <2>2. /\ a \in Place(t) /\ b \in Place(t) /\ t[a] = h /\ t[b] = g
        /\ \A j \in Place(t) : j # a /\ j # b => t[j].name = "flush"
    BY <2>1
  <2> QED
    BY <2>1, <2>2 DEF TwoIn
<1> QED
  BY <1>1, <1>2, <1>3

\* Posting another handler makes it the one that waits, or the second one.
LEMMA ControlPosted ==
  ASSUME NEW s, NEW t, NEW e, Grown(s, e, t)
  PROVE  /\ NoneIn(s) => OneIn(t, e)
         /\ \A h : OneIn(s, h) => TwoIn(t, h, e)
<1> USE DEF Grown, Place
<1>1. NoneIn(s) => OneIn(t, e)
  BY DEF NoneIn, OneIn
<1>2. ASSUME NEW h, OneIn(s, h) PROVE TwoIn(t, h, e)
  BY <1>2 DEF OneIn, TwoIn
<1> QED
  BY <1>1, <1>2

\* Running a flush does not change which other handlers wait in the strand.
LEMMA FlushTaken ==
  ASSUME NEW s, NEW t, Shrunk(s, t), Head(s).name = "flush"
  PROVE  /\ NoneIn(s) => NoneIn(t)
         /\ \A h : h.name # "flush" /\ OneIn(s, h) => OneIn(t, h)
         /\ \A h, g : h.name # "flush" /\ g.name # "flush" /\ TwoIn(s, h, g) => TwoIn(t, h, g)
<1> USE DEF Shrunk, Place
<1>1. NoneIn(s) => NoneIn(t)
  BY DEF NoneIn
<1>2. ASSUME NEW h, h.name # "flush", OneIn(s, h) PROVE OneIn(t, h)
  <2>1. PICK a \in Place(s) : s[a] = h /\ \A j \in Place(s) : j # a => s[j].name = "flush"
    BY <1>2 DEF OneIn
  <2>2. a - 1 \in Place(t) /\ t[a - 1] = h
    BY <1>2, <2>1
  <2>3. \A j \in Place(t) : j # a - 1 => t[j].name = "flush"
    BY <2>1
  <2> QED
    BY <2>2, <2>3 DEF OneIn
<1>3. ASSUME NEW h, NEW g, h.name # "flush", g.name # "flush", TwoIn(s, h, g) PROVE TwoIn(t, h, g)
  <2>1. PICK a, b \in Place(s) :
             /\ a < b /\ s[a] = h /\ s[b] = g
             /\ \A j \in Place(s) : j # a /\ j # b => s[j].name = "flush"
    BY <1>3 DEF TwoIn
  <2>a. a # 1 /\ b # 1
    BY <1>3, <2>1
  <2>b. a - 1 \in Place(t) /\ b - 1 \in Place(t) /\ a - 1 < b - 1
    BY <2>1, <2>a
  <2>2. t[a - 1] = h /\ t[b - 1] = g
    BY <2>1, <2>b
  <2>3. \A j \in Place(t) : j # a - 1 /\ j # b - 1 => t[j].name = "flush"
    BY <2>1
  <2> QED
    BY <2>b, <2>2, <2>3 DEF TwoIn
<1> QED
  BY <1>1, <1>2, <1>3

\* Running another handler takes the first one that waits.
LEMMA ControlTaken ==
  ASSUME NEW s, NEW t, Shrunk(s, t), Head(s).name # "flush"
  PROVE  /\ ~NoneIn(s)
         /\ \A h : OneIn(s, h) => Head(s) = h /\ NoneIn(t)
         /\ \A h, g : TwoIn(s, h, g) => Head(s) = h /\ OneIn(t, g)
<1> USE DEF Shrunk, Place
<1>1. ~NoneIn(s)
  BY DEF NoneIn
<1>2. ASSUME NEW h, OneIn(s, h) PROVE Head(s) = h /\ NoneIn(t)
  <2>1. PICK a \in Place(s) : s[a] = h /\ \A j \in Place(s) : j # a => s[j].name = "flush"
    BY <1>2 DEF OneIn
  <2>2. a = 1
    BY <2>1
  <2> QED
    BY <2>1, <2>2 DEF NoneIn
<1>3. ASSUME NEW h, NEW g, TwoIn(s, h, g) PROVE Head(s) = h /\ OneIn(t, g)
  <2>1. PICK a, b \in Place(s) :
             /\ a < b /\ s[a] = h /\ s[b] = g
             /\ \A j \in Place(s) : j # a /\ j # b => s[j].name = "flush"
    BY <1>3 DEF TwoIn
  <2>2. a = 1
    BY <2>1
  <2>3. b - 1 \in Place(t)
    BY <2>1, <2>2
  <2>4. t[b - 1] = g /\ \A j \in Place(t) : j # b - 1 => t[j].name = "flush"
    BY <2>1, <2>2, <2>3
  <2> QED
    BY <2>1, <2>2, <2>3, <2>4 DEF OneIn
<1> QED
  BY <1>1, <1>2, <1>3

\* A flush that is posted leaves the stage of the strand.
LEMMA StrandPost ==
  ASSUME NEW m, NEW ok, NEW x, NEW s, NEW t, NEW e, Grown(s, e, t), e.name = "flush",
         StrandIs(m, ok, x, s)
  PROVE  StrandIs(m, ok, x, t)
<1>1. NoneIn(s) => NoneIn(t)
  BY FlushPosted
<1>2. \A h : OneIn(s, h) => OneIn(t, h)
  BY FlushPosted
<1>3. \A h, g : TwoIn(s, h, g) => TwoIn(t, h, g)
  BY FlushPosted
<1> QED
  BY <1>1, <1>2, <1>3 DEF StrandIs

\* A flush that runs leaves the stage of the strand.
LEMMA StrandFlush ==
  ASSUME NEW m, NEW ok, NEW x, NEW s, NEW t, Shrunk(s, t), Head(s).name = "flush",
         StrandIs(m, ok, x, s)
  PROVE  StrandIs(m, ok, x, t)
BY FlushTaken DEF StrandIs, Post, Handler

\* The handler that runs next tells the stage, and what is left in the strand.
StageOfHead(m, ok, x, s, t) ==
  /\ Head(s).name = "do_read" => m = "do_read" /\ NoneIn(t)
  /\ Head(s).name = "read_done" => m = "read_done" /\ Head(s) = Handler("read_done", ok, x) /\ NoneIn(t)
  /\ Head(s).name = "respond" =>
       m = "respond" /\ Head(s) = Handler("respond", TRUE, Response(req.r)) /\ NoneIn(t)
  /\ Head(s).name = "initiate" =>
       \/ m \in {"init", "init_writing"} /\ NoneIn(t)
       \/ m = "init_written" /\ OneIn(t, Handler("write_done", ok, x))
  /\ Head(s).name = "write_done" =>
       \/ m = "responded" /\ Head(s) = Handler("write_done", ok, Response(req.r)) /\ NoneIn(t)
       \/ m = "written" /\ Head(s) = Handler("write_done", ok, x) /\ NoneIn(t)

\* The strand of each stage begins with the handler of that stage, flushes aside.
LEMMA HeadTellsStage ==
  ASSUME NEW m, NEW ok, NEW x, NEW s, NEW t, Shrunk(s, t), m \in Calm \cup Streaming,
         StrandIs(m, ok, x, s)
  PROVE  StageOfHead(m, ok, x, s, t)
<1>1. CASE Head(s).name = "flush"
  BY <1>1 DEF StageOfHead
<1>2. CASE Head(s).name # "flush"
  <2>1. ~NoneIn(s)
    BY <1>2, ControlTaken
  <2>2. CASE m = "init_written"
    BY <1>2, <2>2, ControlTaken DEF StrandIs, StageOfHead, Post, Handler
  <2>3. CASE m # "init_written"
    <3>1. ASSUME NEW h, OneIn(s, h) PROVE Head(s) = h /\ NoneIn(t)
      BY <1>2, <3>1, ControlTaken
    <3> QED
      BY <2>1, <2>3, <3>1 DEF StrandIs, StageOfHead, Post, Handler, Calm, Streaming
  <2> QED
    BY <2>2, <2>3
<1> QED
  BY <1>1, <1>2

-----------------------------------------------------------------------------
\* Every step of an orderly session leaves it orderly.

Kept == \E m, ok, x : Orderly(m, ok, x)

\* The peer goes.
LEMMA LinkDownKeeps ==
  ASSUME TypeInv, NEW m, NEW ok, NEW x, Orderly(m, ok, x), LinkDown
  PROVE  Orderly(m, ok, x)'
<1> USE DEF LinkDown, streamVars, runVars, Orderly
<1>1. ControlInv(m, ok, x)'
  BY DEF ControlInv, StrandIs, SocketIs
<1>2. RequestInv(m, ok, x)' /\ CalmInv(m)'
  BY DEF RequestInv, CalmInv, NoFlush
<1>3. StreamInv(m, x)'
  BY DEF StreamInv, Item, Pushed, Popped
<1>4. HeaderInv(m, ok, x)' /\ BoundInv(m, ok)'
  BY DEF HeaderInv, HeaderOut, LastOut, BoundInv
<1>5. OrderInv(m, x)'
  BY DEF OrderInv, WireOrdered
<1> QED
  BY <1>1, <1>2, <1>3, <1>4, <1>5

-----------------------------------------------------------------------------
\* The types, and what stays on the wire.

\* Every step keeps the types of the variables.
LEMMA TypeStep == ASSUME TypeInv, [Next]_vars PROVE TypeInv'
<1> USE DEF TypeInv
<1>1. CASE UNCHANGED vars
  BY <1>1 DEF vars, streamVars, runVars, peerVars
<1>2. ASSUME Next PROVE IsSeq(strand')
  <2>1. \A e : IsSeq(Append(strand, e))
    BY AppendGrows DEF Grown
  <2>2. strand # <<>> => IsSeq(Tail(strand)) /\ \A e : IsSeq(Append(Tail(strand), e))
    BY TailShrinks, AppendGrows DEF Grown, Shrunk
  <2> QED
    BY <1>2, <2>1, <2>2 DEF Next, Strand, WorkerThread, RunDoRead, ReadFailed, Respond, ChatCompletion,
      Unrouted, FatalRequest, StartResponse, RunInitiate, RunFlush, ResponseWritten, HeaderWritten,
      ChunkWritten, EndWritten, WriteFailed, PostFlush, StartRun, PushToken, PushEnd, RunThrows,
      CompleteRead, CompleteWrite, LinkDown, Handling, Written, vars, streamVars, runVars, peerVars
<1>3. ASSUME Next PROVE IsSeq(queue')
  <2>1. \A e : IsSeq(Append(queue, e))
    BY AppendGrows DEF Grown
  <2>2. queue # <<>> => IsSeq(Tail(queue))
    BY TailShrinks DEF Shrunk
  <2> QED
    BY <1>3, <2>1, <2>2 DEF Next, Strand, WorkerThread, RunDoRead, ReadFailed, Respond, ChatCompletion,
      Unrouted, FatalRequest, StartResponse, RunInitiate, RunFlush, ResponseWritten, HeaderWritten,
      ChunkWritten, EndWritten, WriteFailed, PostFlush, StartRun, PushToken, PushEnd, RunThrows,
      CompleteRead, CompleteWrite, LinkDown, NextChunk, NextRequest, FlushStreamingQueue, Pop,
      streamVars, runVars, peerVars
<1>4. ASSUME Next PROVE IsSeq(wire')
  <2>1. \A e : IsSeq(Append(wire, e))
    BY AppendGrows DEF Grown
  <2> QED
    BY <1>4, <2>1 DEF Next, Strand, WorkerThread, RunDoRead, ReadFailed, Respond, ChatCompletion,
      Unrouted, FatalRequest, StartResponse, RunInitiate, RunFlush, ResponseWritten, HeaderWritten,
      ChunkWritten, EndWritten, WriteFailed, PostFlush, StartRun, PushToken, PushEnd, RunThrows,
      CompleteRead, CompleteWrite, LinkDown, peerVars
<1>5. ASSUME Next PROVE IsSeq(writes')
  <2>1. \A e : IsSeq(Append(writes, e))
    BY AppendGrows DEF Grown
  <2>2. ASSUME NEW j \in 1..Len(writes)
        PROVE  IsSeq(SubSeq(writes, 1, j - 1) \o SubSeq(writes, j + 1, Len(writes)))
    <3>1. PICK S : writes \in Seq(S)
      BY DEF IsSeq
    <3>2. SubSeq(writes, 1, j - 1) \in Seq(S) /\ SubSeq(writes, j + 1, Len(writes)) \in Seq(S)
      BY <3>1
    <3>3. SubSeq(writes, 1, j - 1) \o SubSeq(writes, j + 1, Len(writes)) \in Seq(S)
      BY <3>2
    <3> QED
      BY <3>3 DEF IsSeq
  <2> QED
    BY <1>5, <2>1, <2>2 DEF Next, Strand, WorkerThread, RunDoRead, ReadFailed, Respond, ChatCompletion,
      Unrouted, FatalRequest, StartResponse, RunInitiate, RunFlush, ResponseWritten, HeaderWritten,
      ChunkWritten, EndWritten, WriteFailed, PostFlush, StartRun, PushToken, PushEnd, RunThrows,
      CompleteRead, CompleteWrite, LinkDown, NextChunk, NextRequest, FlushStreamingQueue, Pop,
      streamVars, runVars, peerVars
<1>6. ASSUME Next PROVE received' \in Nat /\ tokens' \in Nat
  <2>1. received' \in {received, received + 1}
    BY <1>6 DEF Next, Strand, WorkerThread, RunDoRead, ReadFailed, Respond, ChatCompletion,
      Unrouted, FatalRequest, StartResponse, RunInitiate, RunFlush, ResponseWritten, HeaderWritten,
      ChunkWritten, EndWritten, WriteFailed, PostFlush, StartRun, PushToken, PushEnd, RunThrows,
      CompleteRead, CompleteWrite, LinkDown, peerVars
  <2>2. tokens' \in {0, tokens, tokens + 1}
    BY <1>6 DEF Next, Strand, WorkerThread, RunDoRead, ReadFailed, Respond, ChatCompletion,
      Unrouted, FatalRequest, StartResponse, RunInitiate, RunFlush, ResponseWritten, HeaderWritten,
      ChunkWritten, EndWritten, WriteFailed, PostFlush, StartRun, PushToken, PushEnd, RunThrows,
      CompleteRead, CompleteWrite, LinkDown, runVars
  <2> QED
    BY <2>1, <2>2
<1>7. ASSUME Next PROVE isWriting' \in BOOLEAN /\ headerSent' \in BOOLEAN
  BY <1>7 DEF Next, Strand, WorkerThread, RunDoRead, ReadFailed, Respond, ChatCompletion,
      Unrouted, FatalRequest, StartResponse, RunInitiate, RunFlush, ResponseWritten, HeaderWritten,
      ChunkWritten, EndWritten, WriteFailed, PostFlush, StartRun, PushToken, PushEnd, RunThrows,
      CompleteRead, CompleteWrite, LinkDown, NextChunk, NextRequest, FlushStreamingQueue,
      streamVars, runVars, peerVars
<1>8. ASSUME Next PROVE runs' \in [Requests -> {"none", "queued", "running", "finished", "threw"}]
  BY <1>8 DEF Next, Strand, WorkerThread, RunDoRead, ReadFailed, Respond, ChatCompletion,
      Unrouted, FatalRequest, StartResponse, RunInitiate, RunFlush, ResponseWritten, HeaderWritten,
      ChunkWritten, EndWritten, WriteFailed, PostFlush, StartRun, PushToken, PushEnd, RunThrows,
      CompleteRead, CompleteWrite, LinkDown, runVars, peerVars
<1> QED
  BY <1>1, <1>2, <1>3, <1>4, <1>5, <1>6, <1>7, <1>8

\* What is on the wire stays there.
LEMMA SpoiltStays == ASSUME TypeInv, Spoilt, [Next]_vars PROVE Spoilt'
<1>1. wire' = wire \/ \E e : wire' = Append(wire, e)
  BY DEF Next, Strand, WorkerThread, RunDoRead, ReadFailed, Respond, ChatCompletion,
    Unrouted, FatalRequest, StartResponse, RunInitiate, RunFlush, ResponseWritten, HeaderWritten,
    ChunkWritten, EndWritten, WriteFailed, PostFlush, StartRun, PushToken, PushEnd, RunThrows,
    CompleteRead, CompleteWrite, LinkDown, vars, peerVars
<1>2. CASE wire' = wire
  BY <1>2 DEF Spoilt
<1>3. ASSUME NEW e, wire' = Append(wire, e) PROVE Spoilt'
  <2>1. Grown(wire, e, wire')
    BY <1>3, AppendGrows DEF TypeInv
  <2>2. PICK j \in 1..Len(wire) :
          wire[j].what \in {"chunk", "end"} /\ \A h \in 1..(j - 1) : wire[h] # Header(wire[j].r)
    BY DEF Spoilt
  <2>3. j \in 1..Len(wire') /\ wire'[j] = wire[j] /\ \A h \in 1..(j - 1) : wire'[h] = wire[h]
    BY <2>1 DEF Grown, Place
  <2> QED
    BY <2>2, <2>3 DEF Spoilt, Header
<1> QED
  BY <1>1, <1>2, <1>3

\* A wire on which every stream begins with its header is not spoilt.
LEMMA HeaderFirstUnspoilt == ASSUME TypeInv, HeaderFirst PROVE ~Spoilt
<1>1. PICK S : wire \in Seq(S)
  BY DEF TypeInv, IsSeq
<1>2. PICK T : writes \in Seq(T)
  BY DEF TypeInv, IsSeq
<1>3. wire \in Seq(S \cup T) /\ writes \in Seq(S \cup T)
  BY <1>1, <1>2
<1>4. \A j \in 1..Len(wire) : j \in 1..Len(Sent) /\ Sent[j] = wire[j]
  BY <1>3 DEF Sent
<1>5. ASSUME NEW j \in 1..Len(wire), wire[j].what \in {"chunk", "end"}
      PROVE  \E h \in 1..(j - 1) : wire[h] = Header(wire[j].r)
  <2>1. PICK h \in 1..(j - 1) : Sent[h] = Header(Sent[j].r)
    BY <1>4, <1>5 DEF HeaderFirst
  <2>2. h \in 1..Len(wire)
    BY <1>3
  <2> QED
    BY <1>4, <2>1, <2>2
<1> QED
  BY <1>5 DEF Spoilt

\* A move between two streams: neither the queue, the runs nor the wire change.
LEMMA CalmMove ==
  ASSUME TypeInv, NEW m, NEW ok, NEW x, Orderly(m, ok, x), NEW n, NEW o, NEW y,
         m \in Calm, n \in Calm, ControlInv(n, o, y)', RequestInv(n, o, y)',
         UNCHANGED <<headerSent, queue, link, runs, producer, received, wire>>,
         closed' \/ closed' = closed,
         NoFlush(strand) => NoFlush(strand'),
         n \in {"respond", "response"} => m \in {"read_done", "respond"} /\ (m = "read_done" => ok),
         n = "read_done" => ~o
  PROVE  Orderly(n, o, y)'
<1>1. CalmInv(n)'
  BY DEF CalmInv, Orderly
<1>2. StreamInv(n, y)' /\ HeaderInv(n, o, y)'
  BY DEF StreamInv, HeaderInv, Calm, Streaming
<1>3. BoundInv(n, o)'
  BY DEF BoundInv, Orderly, Calm, Streaming
<1>4. OrderInv(n, y)'
  BY DEF OrderInv, Orderly, Calm, Streaming, OnSocket, Headed, WireOrdered, Ready, LastOut
<1> QED
  BY <1>1, <1>2, <1>3, <1>4 DEF Orderly

\* Flushes are not made by taking a handler, nor by posting another one.
LEMMA NoFlushTail == ASSUME NEW s, NEW t, Shrunk(s, t), NoFlush(s) PROVE NoFlush(t)
BY DEF NoFlush, Shrunk, Place

\* Posting a handler that is not a flush makes no flush.
LEMMA NoFlushPost ==
  ASSUME NEW s, NEW t, NEW e, Grown(s, e, t), NoFlush(s), e.name # "flush" PROVE NoFlush(t)
BY DEF NoFlush, Grown, Place

\* The first read of a connection.
LEMMA RunDoReadKeeps ==
  ASSUME TypeInv, NEW m, NEW ok, NEW x, Orderly(m, ok, x), RunDoRead
  PROVE  Kept'
<1>1. Shrunk(strand, strand') /\ Head(strand).name = "do_read"
  BY TailShrinks DEF RunDoRead, Handling, TypeInv
<1>2. StageOfHead(m, ok, x, strand, strand')
  BY <1>1, HeadTellsStage DEF Orderly, ControlInv
<1>3. m = "do_read" /\ NoneIn(strand')
  BY <1>1, <1>2 DEF StageOfHead
<1>4. ControlInv("reading", ok, x)' /\ RequestInv("reading", ok, x)'
  BY <1>3 DEF RunDoRead, DoRead, streamVars, peerVars, Orderly, ControlInv, StrandIs, SocketIs, RequestInv,
    Calm, Streaming, InFlight, OnSocket
<1>5. NoFlush(strand) => NoFlush(strand')
  BY <1>1, NoFlushTail
<1>6. Orderly("reading", ok, x)'
  BY <1>3, <1>4, <1>5, CalmMove DEF RunDoRead, DoRead, streamVars, runVars, peerVars, Calm
<1> QED
  BY <1>6 DEF Kept

\* The connection is not read from any more.
LEMMA ReadFailedKeeps ==
  ASSUME TypeInv, NEW m, NEW ok, NEW x, Orderly(m, ok, x), ReadFailed
  PROVE  Kept'
<1>1. Shrunk(strand, strand') /\ Head(strand).name = "read_done"
  BY TailShrinks DEF ReadFailed, Handling, TypeInv
<1>2. StageOfHead(m, ok, x, strand, strand')
  BY <1>1, HeadTellsStage DEF Orderly, ControlInv
<1>3. m = "read_done" /\ NoneIn(strand')
  BY <1>1, <1>2 DEF StageOfHead
<1>4. ControlInv("over", ok, x)' /\ RequestInv("over", ok, x)'
  BY <1>3 DEF ReadFailed, DoClose, streamVars, peerVars, Orderly, ControlInv, StrandIs, SocketIs, RequestInv,
    Calm, Streaming, InFlight, OnSocket
<1>5. NoFlush(strand) => NoFlush(strand')
  BY <1>1, NoFlushTail
<1>6. Orderly("over", ok, x)'
  BY <1>3, <1>4, <1>5, CalmMove DEF ReadFailed, DoClose, streamVars, runVars, peerVars, Calm
<1> QED
  BY <1>6 DEF Kept

\* A request nobody serves: nothing is posted for it.
LEMMA UnroutedKeeps ==
  ASSUME TypeInv, NEW m, NEW ok, NEW x, Orderly(m, ok, x), Unrouted
  PROVE  Kept'
<1>1. Shrunk(strand, strand') /\ Head(strand).name = "read_done"
  BY TailShrinks DEF Unrouted, Handling, TypeInv
<1>2. StageOfHead(m, ok, x, strand, strand')
  BY <1>1, HeadTellsStage DEF Orderly, ControlInv
<1>3. m = "read_done" /\ NoneIn(strand')
  BY <1>1, <1>2 DEF StageOfHead
<1>4. ControlInv("over", ok, x)' /\ RequestInv("over", ok, x)'
  BY <1>3 DEF Unrouted, streamVars, peerVars, Orderly, ControlInv, StrandIs, SocketIs, RequestInv,
    Calm, Streaming, InFlight, OnSocket
<1>5. NoFlush(strand) => NoFlush(strand')
  BY <1>1, NoFlushTail
<1>6. Orderly("over", ok, x)'
  BY <1>3, <1>4, <1>5, CalmMove DEF Unrouted, streamVars, runVars, peerVars, Calm
<1> QED
  BY <1>6 DEF Kept

\* The answer to a request is posted, then written.
LEMMA RespondKeeps ==
  ASSUME TypeInv, NEW m, NEW ok, NEW x, Orderly(m, ok, x), Respond
  PROVE  Kept'
<1> DEFINE h == Handler("respond", TRUE, Response(req'.r))
<1>1. Shrunk(strand, Tail(strand)) /\ Head(strand).name = "read_done"
  BY TailShrinks DEF Respond, Handling, TypeInv
<1>2. StageOfHead(m, ok, x, strand, Tail(strand))
  BY <1>1, HeadTellsStage DEF Orderly, ControlInv
<1>3. m = "read_done" /\ NoneIn(Tail(strand)) /\ Head(strand) = Handler("read_done", ok, x)
  BY <1>1, <1>2 DEF StageOfHead
<1>a. ok /\ req' = x
  BY <1>3 DEF Respond, Handler
<1>b. Grown(Tail(strand), h, strand')
  BY <1>1, AppendGrows DEF Shrunk, Respond
<1>c. h.name = "respond"
  BY DEF Handler
<1>d. OneIn(strand', h)
  BY <1>3, <1>b, ControlPosted
<1>4. ControlInv("respond", ok, x)'
  BY <1>3, <1>d DEF Respond, streamVars, peerVars, Orderly, ControlInv, StrandIs, SocketIs,
    Calm, Streaming, InFlight, OnSocket
<1>5. RequestInv("respond", ok, x)'
  BY <1>3, <1>a DEF Respond, RequestInv, Orderly, RequestsOf, peerVars, Streaming
<1>6. NoFlush(strand) => NoFlush(strand')
  <2>1. NoFlush(strand) => NoFlush(Tail(strand))
    BY <1>1, NoFlushTail
  <2> HIDE DEF h
  <2> QED
    BY <1>b, <1>c, <2>1, NoFlushPost
<1>7. Orderly("respond", ok, x)'
  <2>1. UNCHANGED <<headerSent, queue, link, runs, producer, received, wire, closed>>
    BY DEF Respond, streamVars, runVars, peerVars
  <2>2. m \in Calm /\ "respond" \in Calm /\ m \in {"read_done", "respond"} /\ "respond" # "read_done"
    BY <1>3 DEF Calm
  <2>3. "respond" \in {"respond", "response"} => m \in {"read_done", "respond"} /\ (m = "read_done" => ok)
    BY <1>a, <2>2
  <2>4. "respond" = "read_done" => ~ok
    BY <2>2
  <2> QED
    BY <1>4, <1>5, <1>6, <2>1, <2>2, <2>3, <2>4, CalmMove, Zenon
<1> QED
  BY <1>7 DEF Kept

\* The response that was posted is being written.
LEMMA StartResponseKeeps ==
  ASSUME TypeInv, NEW m, NEW ok, NEW x, Orderly(m, ok, x), StartResponse
  PROVE  Kept'
<1>1. Shrunk(strand, strand') /\ Head(strand).name = "respond"
  BY TailShrinks DEF StartResponse, Handling, TypeInv
<1>2. StageOfHead(m, ok, x, strand, strand')
  BY <1>1, HeadTellsStage DEF Orderly, ControlInv
<1>3. m = "respond" /\ NoneIn(strand') /\ Head(strand).about = Response(req.r)
  BY <1>1, <1>2 DEF StageOfHead, Handler
<1>4. writes' = <<Response(req.r)>>
  <2>1. writes = <<>>
    BY <1>3 DEF Orderly, ControlInv, SocketIs, OnSocket
  <2> QED
    BY <1>3, <2>1 DEF StartResponse
<1>5. ControlInv("response", ok, x)' /\ RequestInv("response", ok, x)'
  BY <1>3, <1>4 DEF StartResponse, streamVars, peerVars, Orderly, ControlInv, StrandIs, SocketIs, RequestInv,
    Calm, Streaming, InFlight, OnSocket
<1>6. NoFlush(strand) => NoFlush(strand')
  BY <1>1, NoFlushTail
<1>7. Orderly("response", ok, x)'
  BY <1>3, <1>5, <1>6, CalmMove DEF StartResponse, streamVars, runVars, peerVars, Calm
<1> QED
  BY <1>7 DEF Kept

\* What is written in a stream: its header, its chunks and its end.
LEMMA ItemKinds ==
  ASSUME TypeInv, NEW m, NEW x, StreamInv(m, x), m \in InFlight
  PROVE  /\ x.r = received /\ x.what \in {"header", "chunk", "end"}
         /\ x.what = "header" => x = Header(received)
<1>1. m \in Streaming
  BY DEF InFlight, OnSocket, Streaming
<1>2. \A k : k # 0 => Item(k).r = received /\ Item(k).what \in {"chunk", "end"}
  BY DEF Item, Chunk, End
<1>3. Header(received).r = received /\ Header(received).what = "header"
  BY DEF Header
<1>4. x = Header(received) \/ (Popped > 0 /\ x = Item(Popped))
  BY <1>1 DEF StreamInv
<1> QED
  BY <1>2, <1>3, <1>4

\* A response was written: the next request is read, or the connection closed.
LEMMA ResponseWrittenKeeps ==
  ASSUME TypeInv, NEW m, NEW ok, NEW x, Orderly(m, ok, x), ResponseWritten
  PROVE  Kept'
<1>1. Shrunk(strand, strand') /\ Head(strand).name = "write_done" /\ Head(strand).about.what = "response"
  BY TailShrinks DEF ResponseWritten, Written, Handling, TypeInv
<1>2. StageOfHead(m, ok, x, strand, strand')
  BY <1>1, HeadTellsStage DEF Orderly, ControlInv
<1>3. m = "responded" /\ NoneIn(strand')
  <2>1. CASE m = "written"
    <3>1. x.what \in {"header", "chunk", "end"}
      BY <2>1, ItemKinds DEF Orderly, InFlight
    <3> QED
      BY <1>1, <1>2, <2>1, <3>1 DEF StageOfHead, Handler
  <2> QED
    BY <1>1, <1>2, <2>1 DEF StageOfHead
<1>5. NoFlush(strand) => NoFlush(strand')
  BY <1>1, NoFlushTail
<1>6. CASE req.keep
  <2>1. ControlInv("reading", ok, x)' /\ RequestInv("reading", ok, x)'
    BY <1>3, <1>6 DEF ResponseWritten, DoRead, streamVars, peerVars, Orderly, ControlInv, StrandIs, SocketIs,
      RequestInv, Calm, Streaming, InFlight, OnSocket
  <2>2. Orderly("reading", ok, x)'
    BY <1>3, <1>5, <1>6, <2>1, CalmMove DEF ResponseWritten, DoRead, streamVars, runVars, peerVars, Calm
  <2> QED
    BY <2>2 DEF Kept
<1>7. CASE ~req.keep
  <2>1. ControlInv("over", ok, x)' /\ RequestInv("over", ok, x)'
    BY <1>3, <1>7 DEF ResponseWritten, DoClose, streamVars, peerVars, Orderly, ControlInv, StrandIs, SocketIs,
      RequestInv, Calm, Streaming, InFlight, OnSocket
  <2>2. Orderly("over", ok, x)'
    BY <1>3, <1>5, <1>7, <2>1, CalmMove DEF ResponseWritten, DoClose, streamVars, runVars, peerVars, Calm
  <2> QED
    BY <2>2 DEF Kept
<1> QED
  BY <1>6, <1>7

\* A move within a stream that changes neither its items nor the wire.
LEMMA StreamMove ==
  ASSUME TypeInv, NEW m, NEW ok, NEW x, Orderly(m, ok, x), NEW n, NEW o,
         m \in Streaming, n \in Streaming, ControlInv(n, o, x)', HeaderInv(n, o, x)',
         UNCHANGED <<req, queue, link, runs, tokens, received, wire>>,
         closed' \/ closed' = closed,
         n \in InFlight => m \in InFlight,
         n \in OnSocket <=> m \in OnSocket
  PROVE  Orderly(n, o, x)'
<1>1. m \notin Calm /\ n \notin Calm
  BY DEF Calm, Streaming
<1>2. RequestInv(n, o, x)' /\ CalmInv(n)'
  BY <1>1 DEF RequestInv, CalmInv, Calm, Orderly
<1>3. StreamInv(n, x)'
  BY DEF StreamInv, Item, Pushed, Popped, Orderly
<1>4. HeaderOut' = HeaderOut
  BY DEF HeaderOut
<1>5. BoundInv(n, o)'
  BY <1>1, <1>4 DEF BoundInv, Orderly, Calm
<1>6. OrderInv(n, x)'
  <2>1. Popped' = Popped /\ Item(Popped)' = Item(Popped) /\ Item(Popped - 1)' = Item(Popped - 1)
    BY DEF Popped, Pushed, Item
  <2>2. Headed(n, x)' <=> Headed(m, x)
    BY <1>4 DEF Headed
  <2>3. LastOut' = LastOut /\ WireOrdered' = WireOrdered /\ Ready' = Ready
    BY DEF LastOut, WireOrdered, Ready
  <2>4. OrderInv(m, x)
    BY DEF Orderly
  <2> QED
    BY <1>1, <1>4, <2>1, <2>2, <2>3, <2>4 DEF OrderInv
<1> QED
  BY <1>2, <1>3, <1>5, <1>6 DEF Orderly

\* A write failed.  After a response nothing follows, after a header is_writing_
\* stays set, and after a chunk the next flush may write again.
LEMMA WriteFailedKeeps ==
  ASSUME TypeInv, NEW m, NEW ok, NEW x, Orderly(m, ok, x), WriteFailed
  PROVE  Kept'
<1>1. Shrunk(strand, strand') /\ Head(strand).name = "write_done"
  BY TailShrinks DEF WriteFailed, Handling, TypeInv
<1>2. StageOfHead(m, ok, x, strand, strand')
  BY <1>1, HeadTellsStage DEF Orderly, ControlInv
<1>3. CASE m = "responded"
  <2>1. NoneIn(strand') /\ Head(strand).about.what = "response"
    BY <1>1, <1>2, <1>3 DEF StageOfHead, Handler, Response
  <2>2. UNCHANGED <<req, reading, closed, isWriting, writes, headerSent, queue, link, runs, producer, received, wire>>
    BY <2>1 DEF WriteFailed, runVars, peerVars
  <2>3. ControlInv("over", ok, x)' /\ RequestInv("over", ok, x)'
    BY <1>3, <2>1, <2>2 DEF Orderly, ControlInv, StrandIs, SocketIs, RequestInv, Calm, Streaming, InFlight, OnSocket
  <2>4. NoFlush(strand) => NoFlush(strand')
    BY <1>1, NoFlushTail
  <2>5. Orderly("over", ok, x)'
    BY <1>3, <2>2, <2>3, <2>4, CalmMove DEF Calm
  <2> QED
    BY <2>5 DEF Kept
<1>4. CASE m = "written"
  <2>1. /\ NoneIn(strand') /\ Head(strand).about = x /\ ~ok
        /\ x.what \in {"header", "chunk", "end"}
    BY <1>1, <1>2, <1>4, ItemKinds DEF StageOfHead, Handler, WriteFailed, Orderly, InFlight
  <2>2. UNCHANGED <<req, reading, writes, headerSent, queue, link, runs, tokens, received, wire>> /\ closed'
    BY <2>1 DEF WriteFailed, DoClose, runVars, peerVars
  <2>3. SocketIs("written", x) /\ HeaderInv("written", ok, x)
    BY <1>4 DEF Orderly, ControlInv
  <2>4. HeaderOut' = HeaderOut
    BY <2>2 DEF HeaderOut
  <2>5. CASE x.what = "header"
    <3>1. isWriting' = isWriting
      BY <2>1, <2>5 DEF WriteFailed
    <3>2. ControlInv("stuck", ok, x)'
      BY <2>1, <2>2, <2>3, <3>1 DEF ControlInv, StrandIs, SocketIs, Calm, Streaming, InFlight, OnSocket
    <3>3. HeaderInv("stuck", ok, x)'
      BY DEF HeaderInv
    <3>4. Orderly("stuck", ok, x)'
      BY <1>4, <2>2, <3>2, <3>3, StreamMove DEF Streaming, InFlight, OnSocket
    <3> QED
      BY <3>4 DEF Kept
  <2>6. CASE x.what # "header"
    <3>1. isWriting' = FALSE
      BY <2>1, <2>6 DEF WriteFailed
    <3>2. ControlInv("waiting", ok, x)'
      BY <2>1, <2>2, <2>3, <3>1 DEF ControlInv, StrandIs, SocketIs, Calm, Streaming, InFlight, OnSocket
    <3>3. HeaderInv("waiting", ok, x)'
      BY <2>1, <2>2, <2>3, <2>4 DEF HeaderInv, Streaming
    <3>4. Orderly("waiting", ok, x)'
      BY <1>4, <2>2, <3>2, <3>3, StreamMove DEF Streaming, InFlight, OnSocket
    <3> QED
      BY <3>4 DEF Kept
  <2> QED
    BY <2>5, <2>6
<1> QED
  BY <1>1, <1>2, <1>3, <1>4 DEF StageOfHead

\* A request of a wrong shape ends the process and changes nothing else.
LEMMA FatalRequestKeeps ==
  ASSUME TypeInv, NEW m, NEW ok, NEW x, Orderly(m, ok, x), FatalRequest
  PROVE  Orderly(m, ok, x)'
<1> USE DEF FatalRequest, streamVars, runVars, Orderly
<1>1. ControlInv(m, ok, x)'
  BY DEF ControlInv, StrandIs, SocketIs
<1>2. RequestInv(m, ok, x)' /\ CalmInv(m)'
  BY DEF RequestInv, CalmInv, NoFlush
<1>3. StreamInv(m, x)'
  BY DEF StreamInv, Item, Pushed, Popped
<1>4. HeaderInv(m, ok, x)' /\ BoundInv(m, ok)'
  BY DEF HeaderInv, HeaderOut, LastOut, BoundInv
<1>5. OrderInv(m, x)'
  BY DEF OrderInv, WireOrdered, Headed, Ready, Item, Pushed, Popped, HeaderOut, LastOut
<1> QED
  BY <1>1, <1>2, <1>3, <1>4, <1>5

\* A request arrives, or the read fails.
LEMMA CompleteReadKeeps ==
  ASSUME TypeInv, NEW m, NEW ok, NEW x, Orderly(m, ok, x), CompleteRead
  PROVE  Kept'
<1>1. m = "reading" /\ m \in Calm /\ NoneIn(strand)
  BY DEF Orderly, ControlInv, SocketIs, StrandIs, CompleteRead, Calm
<1>2. PICK o, y : strand' = Append(strand, Handler("read_done", o, y))
             /\ \/ o = TRUE /\ received < MaxRequests /\ received' = received + 1 /\ y \in RequestsOf(received')
                \/ o = FALSE /\ received' = received
  BY DEF CompleteRead
<1>3. Grown(strand, Handler("read_done", o, y), strand')
  BY <1>2, AppendGrows DEF TypeInv
<1>4. OneIn(strand', Handler("read_done", o, y))
  BY <1>1, <1>3, ControlPosted
<1>5. ControlInv("read_done", o, y)'
  BY <1>1, <1>4 DEF CompleteRead, streamVars, Orderly, ControlInv, StrandIs, SocketIs,
    Calm, Streaming, InFlight, OnSocket
<1>6. RequestInv("read_done", o, y)'
  BY <1>2, SessionAssumption DEF RequestInv, Requests, TypeInv, Streaming
<1>7. CalmInv("read_done")'
  <2>1. NoFlush(strand) => NoFlush(strand')
    BY <1>3, NoFlushPost DEF Handler
  <2> QED
    BY <1>1, <2>1 DEF CalmInv, Orderly, CompleteRead, streamVars, runVars
<1>8. StreamInv("read_done", y)' /\ HeaderInv("read_done", o, y)'
  BY DEF StreamInv, HeaderInv, Streaming
<1>9. BoundInv("read_done", o)'
  BY <1>1, <1>2 DEF BoundInv, Orderly, CompleteRead, TypeInv, Streaming
<1>10. OrderInv("read_done", y)'
  BY <1>1 DEF OrderInv, Orderly, Calm, Streaming, OnSocket, Headed, WireOrdered, Ready, LastOut, CompleteRead
<1>11. Orderly("read_done", o, y)'
  BY <1>5, <1>6, <1>7, <1>8, <1>9, <1>10 DEF Orderly
<1> QED
  BY <1>11 DEF Kept

\* A chat request: the stream is to begin, the run is submitted.
LEMMA ChatCompletionKeeps ==
  ASSUME TypeInv, NEW m, NEW ok, NEW x, Orderly(m, ok, x), ChatCompletion
  PROVE  Kept'
<1>1. Shrunk(strand, Tail(strand)) /\ Head(strand).name = "read_done"
  BY TailShrinks DEF ChatCompletion, Handling, TypeInv
<1>2. StageOfHead(m, ok, x, strand, Tail(strand))
  BY <1>1, HeadTellsStage DEF Orderly, ControlInv
<1>3. m = "read_done" /\ NoneIn(Tail(strand)) /\ Head(strand) = Handler("read_done", ok, x)
  BY <1>1, <1>2 DEF StageOfHead
<1>4. ok /\ req' = x /\ x \in RequestsOf(received) /\ received \in Requests
  BY <1>3 DEF ChatCompletion, Handler, Orderly, RequestInv
<1>5. x.r = received
  BY <1>4 DEF RequestsOf
<1>6. Grown(Tail(strand), Post("initiate"), strand')
  BY <1>1, AppendGrows DEF Shrunk, ChatCompletion
<1>7. OneIn(strand', Post("initiate"))
  BY <1>3, <1>6, ControlPosted
<1>8. ControlInv("init", ok, x)'
  BY <1>3, <1>7 DEF ChatCompletion, streamVars, peerVars, Orderly, ControlInv, StrandIs, SocketIs,
    Calm, Streaming, InFlight, OnSocket
<1>9. RequestInv("init", ok, x)' /\ CalmInv("init")'
  BY <1>4, <1>5 DEF ChatCompletion, RequestInv, CalmInv, peerVars, Calm
<1>10. CalmInv(m) /\ m \in Calm
  BY <1>3 DEF Orderly, Calm
<1>11. queue' = <<>> /\ received' = received /\ runs'[received] = "queued"
      /\ \A s \in Requests \ {received} : runs'[s] \in {"none", "finished"}
  BY <1>4, <1>5, <1>10 DEF CalmInv, ChatCompletion, TypeInv, streamVars, peerVars
<1>12. Pushed' = 0 /\ Popped' = 0 /\ Len(queue') = 0
  <2>1. Len(queue') = 0
    BY <1>11
  <2>2. Pushed' = 0
    BY <1>11 DEF Pushed
  <2> QED
    BY <2>1, <2>2 DEF Popped
<1>13. StreamInv("init", x)'
  BY <1>4, <1>11, <1>12 DEF StreamInv, InFlight, OnSocket
<1>14. wire' = wire /\ \A j \in 1..Len(wire) : wire[j].r \in Nat /\ wire[j].r < received
  BY <1>3, <1>4 DEF ChatCompletion, peerVars, Orderly, BoundInv
<1>15. ~HeaderOut'
  BY <1>11, <1>14 DEF HeaderOut, Header, TypeInv
<1>16. HeaderInv("init", ok, x)'
  BY <1>15 DEF HeaderInv
<1>17. BoundInv("init", ok)'
  BY <1>11, <1>14 DEF BoundInv, TypeInv
<1>18. OrderInv("init", x)'
  BY <1>3, <1>10, <1>12, <1>14, <1>15 DEF OrderInv, Orderly, Calm, Streaming, OnSocket, Headed, WireOrdered,
    Ready, LastOut, ChatCompletion, peerVars
<1>19. Orderly("init", ok, x)'
  BY <1>8, <1>9, <1>13, <1>16, <1>17, <1>18 DEF Orderly
<1> QED
  BY <1>19 DEF Kept

-----------------------------------------------------------------------------
\* The worker thread.

\* A run that is not over belongs to the stream that is being served.
LEMMA RunServed ==
  ASSUME TypeInv, NEW m, NEW ok, NEW x, Orderly(m, ok, x), NEW r \in Requests,
         runs[r] \in {"queued", "running"}
  PROVE  m \in Streaming /\ m \notin Calm /\ r = received
<1>1. m \in Calm \cup Streaming /\ CalmInv(m) /\ StreamInv(m, x)
  BY DEF Orderly, ControlInv
<1>2. m \notin Calm
  BY <1>1 DEF CalmInv
<1> QED
  BY <1>1, <1>2 DEF StreamInv

\* A step of the run under a stream, which pushes at the end of the queue and
\* changes no item that was pushed before.
LEMMA ProducerMove ==
  ASSUME TypeInv, NEW m, NEW ok, NEW x, Orderly(m, ok, x), m \in Streaming,
         UNCHANGED <<strand, req, reading, writes, isWriting, headerSent, closed, link, received, wire>>,
         StreamInv(m, x)', Popped' = Popped,
         \A k \in 0..Popped : Item(k)' = Item(k)
  PROVE  Orderly(m, ok, x)'
<1>1. m \notin Calm
  BY DEF Calm, Streaming
<1>2. ControlInv(m, ok, x)'
  BY DEF ControlInv, StrandIs, SocketIs, Orderly
<1>3. RequestInv(m, ok, x)' /\ CalmInv(m)'
  BY <1>1 DEF RequestInv, CalmInv, Orderly
<1>4. HeaderInv(m, ok, x)' /\ BoundInv(m, ok)'
  BY DEF HeaderInv, HeaderOut, LastOut, BoundInv, Orderly
<1>5. Popped \in Nat
  BY DEF Orderly, StreamInv, Popped, Pushed, TypeInv, IsSeq
<1>6. Item(Popped)' = Item(Popped) /\ (Popped > 0 => Item(Popped - 1)' = Item(Popped - 1))
  BY <1>5
<1>7. OrderInv(m, x)'
  <2>1. OrderInv(m, x)
    BY DEF Orderly
  <2>2. LastOut' = LastOut /\ WireOrdered' = WireOrdered /\ Ready' = Ready /\ HeaderOut' = HeaderOut
    BY DEF LastOut, WireOrdered, Ready, HeaderOut
  <2>3. Headed(m, x)' <=> Headed(m, x)
    BY <2>2 DEF Headed
  <2> QED
    BY <1>1, <1>5, <1>6, <2>1, <2>2, <2>3 DEF OrderInv
<1> QED
  BY <1>2, <1>3, <1>4, <1>7 DEF Orderly

\* The run starts with nothing pushed yet.
LEMMA StartRunKeeps ==
  ASSUME TypeInv, NEW m, NEW ok, NEW x, Orderly(m, ok, x), NEW r \in Requests, StartRun(r)
  PROVE  Orderly(m, ok, x)'
<1>1. m \in Streaming /\ r = received
  BY RunServed DEF StartRun
<1>2. UNCHANGED <<strand, req, reading, writes, isWriting, headerSent, queue, closed, link, received, wire>>
  BY DEF StartRun, streamVars, peerVars
<1>3. StreamInv(m, x)
  BY DEF Orderly
<1>4. Len(queue) = 0 /\ Pushed = 0 /\ Popped = 0
  <2>1. Len(queue) \in Nat
    BY DEF TypeInv, IsSeq
  <2>2. Pushed = 0
    BY <1>1 DEF StartRun, Pushed
  <2> QED
    BY <1>1, <1>3, <2>1, <2>2 DEF StreamInv, Popped
<1>5. runs' \in [Requests -> {"none", "queued", "running", "finished", "threw"}] /\ tokens' = 0
      /\ runs'[received] = "running" /\ \A s \in Requests \ {received} : runs'[s] = runs[s]
  BY <1>1 DEF StartRun, TypeInv
<1>6. Pushed' = 0 /\ Popped' = 0 /\ Len(queue') = 0
  <2>1. Pushed' = 0
    BY <1>2, <1>5 DEF Pushed
  <2> QED
    BY <1>2, <1>4, <2>1 DEF Popped
<1>7. \A k \in 0..Popped : Item(k)' = Item(k)
  BY <1>2, <1>4 DEF Item, Header
<1>8. StreamInv(m, x)'
  BY <1>1, <1>2, <1>3, <1>4, <1>5, <1>6 DEF StreamInv, Header
<1> QED
  BY <1>1, <1>2, <1>4, <1>6, <1>7, <1>8, ProducerMove

\* A run that throws pushes nothing.
LEMMA RunThrowsKeeps ==
  ASSUME TypeInv, NEW m, NEW ok, NEW x, Orderly(m, ok, x), NEW r \in Requests, RunThrows(r)
  PROVE  Orderly(m, ok, x)'
<1>1. m \in Streaming /\ r = received
  BY RunServed DEF RunThrows
<1>2. UNCHANGED <<strand, req, reading, writes, isWriting, headerSent, queue, closed, link, received, wire, tokens>>
  BY DEF RunThrows, streamVars, peerVars
<1>3. StreamInv(m, x)
  BY DEF Orderly
<1>4. runs[received] = "running" /\ runs'[received] = "threw" /\ \A s \in Requests \ {received} : runs'[s] = runs[s]
  BY <1>1 DEF RunThrows, TypeInv
<1>5. Pushed' = Pushed /\ Popped' = Popped
  <2>1. Pushed' = Pushed
    BY <1>2, <1>4 DEF Pushed
  <2> QED
    BY <1>2, <2>1 DEF Popped
<1>6. \A k : Item(k)' = Item(k)
  BY <1>2, <1>4 DEF Item, Header, Chunk
<1>7. StreamInv(m, x)'
  BY <1>1, <1>2, <1>3, <1>4, <1>5, <1>6 DEF StreamInv, Header
<1> QED
  BY <1>1, <1>2, <1>5, <1>6, <1>7, ProducerMove

\* The token, or the end of the stream, comes behind what was pushed before.
LEMMA PushTokenKeeps ==
  ASSUME TypeInv, NEW m, NEW ok, NEW x, Orderly(m, ok, x), NEW r \in Requests, PushToken(r)
  PROVE  Orderly(m, ok, x)'
<1>1. m \in Streaming /\ r = received
  BY RunServed DEF PushToken
<1>2. UNCHANGED <<strand, req, reading, writes, isWriting, headerSent, closed, link, received, wire, runs>>
  BY DEF PushToken, streamVars, peerVars
<1>3. StreamInv(m, x) /\ tokens \in Nat
  BY DEF Orderly, TypeInv
<1>4. runs[received] = "running" /\ tokens' = tokens + 1
  BY <1>1 DEF PushToken
<1>5. Grown(queue, Chunk(received, tokens + 1), queue')
  BY <1>1, AppendGrows DEF PushToken, TypeInv
<1>6. Pushed = tokens /\ Pushed' = tokens + 1 /\ Len(queue) \in Nat /\ Len(queue') = Len(queue) + 1
  BY <1>2, <1>4, <1>5 DEF Pushed, Grown
<1>7. Popped' = Popped
  BY <1>3, <1>6 DEF Popped
<1>8. \A k : Item(k)' = Item(k)
  BY <1>2, <1>4 DEF Item, Header, Chunk
<1>9. \A j \in 1..Len(queue') : queue'[j] = Item(Popped + j)'
  <2>1. ASSUME NEW j \in 1..Len(queue') PROVE queue'[j] = Item(Popped + j)
    <3>1. CASE j \in 1..Len(queue)
      BY <1>1, <1>3, <1>5, <3>1 DEF StreamInv, Grown, Place
    <3>2. CASE j = Len(queue) + 1
      <4>1. Popped + j = tokens + 1
        BY <1>3, <1>6, <3>2 DEF Popped
      <4> QED
        BY <1>3, <1>4, <1>5, <3>2, <4>1 DEF Item, Grown
    <3> QED
      BY <1>6, <3>1, <3>2
  <2>2. \A j : Item(Popped + j)' = Item(Popped + j)
    BY <1>7, <1>8
  <2> QED
    BY <2>1, <2>2
<1>10. StreamInv(m, x)'
  <2>1. (m \in InFlight => x = Header(received) \/ (Popped > 0 /\ x = Item(Popped)))'
    BY <1>1, <1>2, <1>3, <1>7, <1>8 DEF StreamInv
  <2>2. (Len(queue) <= Pushed)'
    BY <1>1, <1>3, <1>6 DEF StreamInv
  <2> QED
    BY <1>1, <1>2, <1>3, <1>9, <2>1, <2>2 DEF StreamInv
<1> QED
  BY <1>1, <1>2, <1>7, <1>8, <1>10, ProducerMove

\* The end of the stream comes behind all its tokens.
LEMMA PushEndKeeps ==
  ASSUME TypeInv, NEW m, NEW ok, NEW x, Orderly(m, ok, x), NEW r \in Requests, PushEnd(r)
  PROVE  Orderly(m, ok, x)'
<1>1. m \in Streaming /\ r = received
  BY RunServed DEF PushEnd
<1>2. UNCHANGED <<strand, req, reading, writes, isWriting, headerSent, closed, link, received, wire, tokens>>
  BY DEF PushEnd, streamVars, peerVars
<1>3. StreamInv(m, x) /\ tokens \in Nat
  BY DEF Orderly, TypeInv
<1>4. /\ runs[received] = "running" /\ runs'[received] = "finished"
      /\ \A s \in Requests \ {received} : runs'[s] = runs[s]
  BY <1>1 DEF PushEnd, TypeInv
<1>5. Grown(queue, End(received, tokens), queue')
  BY <1>1, AppendGrows DEF PushEnd, TypeInv
<1>6. Pushed = tokens /\ Pushed' = tokens + 1 /\ Len(queue) \in Nat /\ Len(queue') = Len(queue) + 1
  BY <1>2, <1>4, <1>5 DEF Pushed, Grown
<1>7. Popped' = Popped /\ Popped \in 0..tokens
  BY <1>1, <1>3, <1>6 DEF Popped, StreamInv
<1>8. \A k \in 0..tokens : Item(k)' = Item(k)
  BY <1>2, <1>3, <1>4 DEF Item, Header, Chunk
<1>9. \A j \in 1..Len(queue') : queue'[j] = Item(Popped + j)'
  <2>1. ASSUME NEW j \in 1..Len(queue') PROVE queue'[j] = Item(Popped + j)'
    <3>1. CASE j \in 1..Len(queue)
      <4>1. queue'[j] = Item(Popped + j)
        BY <1>1, <1>3, <1>5, <3>1 DEF StreamInv, Grown, Place
      <4>2. Popped + j \in 0..tokens
        BY <1>3, <1>6, <1>7, <3>1 DEF Popped
      <4>3. Item(Popped + j)' = Item(Popped + j)
        BY <1>7, <1>8, <4>2
      <4> QED
        BY <4>1, <4>3
    <3>2. CASE j = Len(queue) + 1
      <4>1. (Popped + j)' = tokens + 1
        BY <1>3, <1>6, <1>7, <3>2 DEF Popped
      <4> QED
        BY <1>2, <1>3, <1>4, <1>5, <3>2, <4>1 DEF Item, Grown
    <3> QED
      BY <1>6, <3>1, <3>2
  <2> QED
    BY <2>1
<1>10. StreamInv(m, x)'
  <2>1. (m \in InFlight => x = Header(received) \/ (Popped > 0 /\ x = Item(Popped)))'
    BY <1>1, <1>2, <1>3, <1>7, <1>8 DEF StreamInv
  <2>2. (Len(queue) <= Pushed)'
    BY <1>1, <1>3, <1>6 DEF StreamInv
  <2> QED
    BY <1>1, <1>2, <1>3, <1>4, <1>9, <2>1, <2>2 DEF StreamInv
<1>11. \A k \in 0..Popped : Item(k)' = Item(k)
  BY <1>3, <1>7, <1>8
<1> QED
  BY <1>1, <1>2, <1>7, <1>10, <1>11, ProducerMove

\* A flush is posted, or finds nothing to do.
LEMMA StrandMove ==
  ASSUME TypeInv, NEW m, NEW ok, NEW x, Orderly(m, ok, x), StrandIs(m, ok, x, strand)', CalmInv(m)',
         UNCHANGED <<req, reading, writes, isWriting, headerSent, queue, closed, link, runs, tokens, received, wire>>
  PROVE  Orderly(m, ok, x)'
<1>1. ControlInv(m, ok, x)'
  BY DEF ControlInv, SocketIs, Orderly
<1>2. RequestInv(m, ok, x)'
  BY DEF RequestInv, Orderly
<1>3. StreamInv(m, x)'
  BY DEF StreamInv, Item, Pushed, Popped, Orderly
<1>4. HeaderInv(m, ok, x)' /\ BoundInv(m, ok)'
  BY DEF HeaderInv, HeaderOut, LastOut, BoundInv, Orderly
<1>5. OrderInv(m, x)'
  BY DEF OrderInv, WireOrdered, Headed, Ready, Item, Pushed, Popped, HeaderOut, LastOut, Orderly
<1> QED
  BY <1>1, <1>2, <1>3, <1>4, <1>5 DEF Orderly

\* The worker thread posts a flush, at any stage.
LEMMA PostFlushKeeps ==
  ASSUME TypeInv, NEW m, NEW ok, NEW x, Orderly(m, ok, x), PostFlush
  PROVE  Orderly(m, ok, x)'
<1>1. Grown(strand, Post("flush"), strand') /\ Post("flush").name = "flush"
  BY AppendGrows DEF PostFlush, TypeInv, Post, Handler
<1>2. /\ UNCHANGED <<req, reading, writes, isWriting, headerSent, queue, closed, link, runs, tokens, received, wire>>
      /\ producer = "post"
  BY DEF PostFlush, streamVars, peerVars
<1>3. StrandIs(m, ok, x, strand')
  BY <1>1, StrandPost DEF Orderly, ControlInv
<1>4. StrandIs(m, ok, x, strand)'
  BY <1>2, <1>3 DEF StrandIs
<1>5. CalmInv(m)'
  BY <1>2 DEF CalmInv, Orderly
<1> QED
  BY <1>2, <1>4, <1>5, StrandMove

-----------------------------------------------------------------------------
\* The stream: what flush_streaming_queue_ starts to write.

\* The header of the stream that is being served, which is not out yet.
LEMMA HeaderStart ==
  ASSUME TypeInv, NEW m, NEW ok, NEW x, Orderly(m, ok, x), NEW n \in OnSocket, NEW y, y = Header(received),
         m \in Streaming \ OnSocket, ~HeaderOut, ~headerSent', ControlInv(n, ok, y)',
         UNCHANGED <<req, queue, closed, link, runs, tokens, received, wire>>
  PROVE  Orderly(n, ok, y)'
<1>1. n \in Streaming /\ n \notin Calm /\ n \in InFlight /\ n \notin {"init_written", "written"} /\ m \notin Calm
  BY DEF OnSocket, Streaming, Calm, InFlight
<1>2. RequestInv(n, ok, y)' /\ CalmInv(n)'
  BY <1>1 DEF RequestInv, CalmInv, Orderly, Calm
<1>3. StreamInv(n, y)'
  BY <1>1 DEF StreamInv, Item, Pushed, Popped, Orderly
<1>4. ~HeaderOut'
  BY DEF HeaderOut
<1>5. HeaderInv(n, ok, y)'
  BY <1>1, <1>4 DEF HeaderInv
<1>6. BoundInv(n, ok)'
  BY <1>1 DEF BoundInv, Orderly
<1>7. OrderInv(n, y)'
  <2>1. LastOut' = LastOut /\ WireOrdered' = WireOrdered /\ Ready' = Ready /\ Popped' = Popped
    BY DEF LastOut, WireOrdered, Ready, Popped, Pushed
  <2>2. OrderInv(m, x)
    BY DEF Orderly
  <2>3. Headed(m, x)
    BY DEF Headed
  <2> QED
    BY <1>1, <1>4, <2>1, <2>2, <2>3 DEF OrderInv
<1> QED
  BY <1>2, <1>3, <1>5, <1>6, <1>7 DEF Orderly

\* The oldest item of the queue.
LEMMA PopStart ==
  ASSUME TypeInv, NEW m, NEW ok, NEW x, Orderly(m, ok, x), NEW n \in OnSocket, NEW y,
         m \in Streaming \ OnSocket, queue # <<>>, y = Head(queue), queue' = Tail(queue), ControlInv(n, ok, y)',
         n = "writing" => headerSent' /\ HeaderOut,
         n = "init_writing" => ~HeaderOut,
         UNCHANGED <<req, closed, link, runs, tokens, received, wire>>
  PROVE  Orderly(n, ok, y)'
<1>1. /\ n \in Streaming /\ n \notin Calm /\ n \in InFlight /\ n \notin {"init_written", "written"} /\ m \notin Calm
      /\ n \in {"writing", "init_writing"}
  BY DEF OnSocket, Streaming, Calm, InFlight
<1>2. RequestInv(n, ok, y)' /\ CalmInv(n)'
  BY <1>1 DEF RequestInv, CalmInv, Orderly, Calm
<1>3. StreamInv(m, x) /\ Shrunk(queue, queue')
  BY TailShrinks DEF Orderly, TypeInv
<1>4. Pushed \in Nat /\ Pushed' = Pushed
  BY DEF Pushed, TypeInv
<1>5. /\ Len(queue) \in Nat /\ Len(queue') \in Nat /\ Len(queue) = Len(queue') + 1 /\ Len(queue) <= Pushed
      /\ \A j \in 1..Len(queue) : queue[j] = Item(Popped + j)
      /\ \A j \in 1..Len(queue') : queue'[j] = queue[j + 1]
  BY <1>3 DEF StreamInv, Shrunk, Place
<1>6. Popped \in Nat /\ Popped' = Popped + 1
  BY <1>4, <1>5 DEF Popped
<1>7. \A k : Item(k)' = Item(k)
  BY DEF Item
<1>8. y = Item(Popped') /\ y = Item(Popped)'
  <2>1. y = Item(Popped + 1)
    BY <1>3, <1>5 DEF Shrunk
  <2> QED
    BY <1>6, <1>7, <2>1
<1>9. StreamInv(n, y)'
  <2>1. ASSUME NEW j \in 1..Len(queue') PROVE queue'[j] = Item(Popped + j)'
    <3>1. j + 1 \in 1..Len(queue) /\ (Popped + j)' = Popped + (j + 1)
      BY <1>5, <1>6
    <3>2. Item(Popped + j)' = Item(Popped + (j + 1))
      BY <1>7, <3>1
    <3> QED
      BY <1>5, <3>1, <3>2
  <2>2. (Len(queue) <= Pushed)'
    BY <1>4, <1>5
  <2>3. (Popped > 0)'
    BY <1>6
  <2> QED
    BY <1>3, <1>8, <2>1, <2>2, <2>3 DEF StreamInv
<1>10. HeaderOut' = HeaderOut
  BY DEF HeaderOut
<1>11. HeaderInv(n, ok, y)'
  BY <1>1, <1>10 DEF HeaderInv
<1>12. BoundInv(n, ok)'
  BY <1>1, <1>10 DEF BoundInv, Orderly
<1>13. OrderInv(n, y)'
  <2>1. LastOut' = LastOut /\ WireOrdered' = WireOrdered
    BY DEF LastOut, WireOrdered
  <2>2. OrderInv(m, x) /\ Headed(m, x)
    BY DEF Orderly, Headed
  <2>3. Item(Popped - 1)' = Item(Popped)
    BY <1>6, <1>7
  <2>4. y.what \in {"chunk", "end"}
    BY <1>6, <1>8 DEF Item, Chunk, End
  <2>5. Headed(n, y)' => HeaderOut
    BY <1>1, <1>10, <2>4 DEF Headed
  <2>6. (Popped > 0)'
    BY <1>6
  <2> QED
    BY <1>1, <1>8, <1>10, <2>1, <2>2, <2>3, <2>5, <2>6 DEF OrderInv
<1> QED
  BY <1>2, <1>9, <1>11, <1>12, <1>13 DEF Orderly

\* A flush of this stream, or of one before.
LEMMA RunFlushKeeps ==
  ASSUME TypeInv, NEW m, NEW ok, NEW x, Orderly(m, ok, x), RunFlush
  PROVE  Kept'
<1>1. Shrunk(strand, strand') /\ Head(strand).name = "flush"
  BY TailShrinks DEF RunFlush, Handling, TypeInv
<1>2. /\ UNCHANGED <<req, reading, headerSent, closed, link, runs, tokens, producer, received, wire>>
      /\ isWriting \in BOOLEAN /\ headerSent \in BOOLEAN
  BY DEF RunFlush, FlushStreamingQueue, runVars, peerVars, TypeInv
<1>3. StrandIs(m, ok, x, strand')
  BY <1>1, StrandFlush DEF Orderly, ControlInv
<1>4. StrandIs(m, ok, x, strand)'
  BY <1>2, <1>3 DEF StrandIs
<1>5. m \in Calm \cup Streaming /\ SocketIs(m, x) /\ CalmInv(m) /\ HeaderInv(m, ok, x) /\ RequestInv(m, ok, x)
  BY DEF Orderly, ControlInv
<1>6. ~NoFlush(strand)
  BY <1>1 DEF NoFlush, Shrunk, Place
<1>7. CASE UNCHANGED <<isWriting, queue, writes>>
  <2>1. CalmInv(m)'
    BY <1>2, <1>5, <1>6, <1>7 DEF CalmInv
  <2>2. Orderly(m, ok, x)'
    BY <1>2, <1>4, <1>7, <2>1, StrandMove
  <2> QED
    BY <2>2 DEF Kept
<1>8. ASSUME ~isWriting, (~headerSent) \/ queue # <<>>
      PROVE  m \in {"init", "waiting"} /\ writes = <<>> /\ ~reading
  <2>1. m \in Streaming
    BY <1>5, <1>6, <1>8 DEF CalmInv
  <2> QED
    BY <1>5, <1>8, <2>1 DEF SocketIs, Streaming, InFlight, OnSocket
<1>9. CASE ~isWriting /\ ~headerSent /\ isWriting' = TRUE /\ writes' = Append(writes, Header(req.r)) /\ queue' = queue
  <2>1. m \in {"init", "waiting"} /\ writes = <<>> /\ ~reading
    BY <1>8, <1>9
  <2>2. PICK y : y = Header(received)
    OBVIOUS
  <2>3. writes' = <<y>>
    BY <1>5, <1>9, <2>1, <2>2 DEF RequestInv, Streaming
  <2>4. ~HeaderOut
    BY <1>5, <1>9, <2>1 DEF HeaderInv, Streaming
  <2>5. CASE m = "init"
    <3>1. ControlInv("init_writing", ok, y)'
      BY <1>2, <1>4, <1>9, <2>1, <2>3, <2>5 DEF ControlInv, StrandIs, SocketIs, Calm, Streaming, InFlight, OnSocket
    <3>2. Orderly("init_writing", ok, y)'
      BY <1>2, <1>9, <2>2, <2>4, <2>5, <3>1, HeaderStart DEF Streaming, OnSocket
    <3> QED
      BY <3>2 DEF Kept
  <2>6. CASE m = "waiting"
    <3>1. ControlInv("writing", ok, y)'
      BY <1>2, <1>4, <1>9, <2>1, <2>3, <2>6 DEF ControlInv, StrandIs, SocketIs, Calm, Streaming, InFlight, OnSocket
    <3>2. Orderly("writing", ok, y)'
      BY <1>2, <1>9, <2>2, <2>4, <2>6, <3>1, HeaderStart DEF Streaming, OnSocket
    <3> QED
      BY <3>2 DEF Kept
  <2> QED
    BY <2>1, <2>5, <2>6
<1>10. CASE ~isWriting /\ headerSent /\ queue # <<>> /\ isWriting' = TRUE /\ Pop
  <2>1. m \in {"init", "waiting"} /\ writes = <<>> /\ ~reading
    BY <1>8, <1>10
  <2>2. PICK y : y = Head(queue)
    OBVIOUS
  <2>3. writes' = <<y>> /\ queue' = Tail(queue)
    BY <1>10, <2>1, <2>2 DEF Pop
  <2>4. CASE m = "init"
    <3>1. ~HeaderOut
      BY <1>5, <2>4 DEF HeaderInv, Streaming
    <3>2. ControlInv("init_writing", ok, y)'
      BY <1>2, <1>4, <1>10, <2>1, <2>3, <2>4 DEF ControlInv, StrandIs, SocketIs, Calm, Streaming, InFlight, OnSocket
    <3>3. Orderly("init_writing", ok, y)'
      BY <1>2, <1>10, <2>2, <2>3, <2>4, <3>1, <3>2, PopStart DEF Streaming, OnSocket
    <3> QED
      BY <3>3 DEF Kept
  <2>5. CASE m = "waiting"
    <3>1. HeaderOut /\ headerSent'
      BY <1>2, <1>5, <1>10, <2>5 DEF HeaderInv
    <3>2. ControlInv("writing", ok, y)'
      BY <1>2, <1>4, <1>10, <2>1, <2>3, <2>5 DEF ControlInv, StrandIs, SocketIs, Calm, Streaming, InFlight, OnSocket
    <3>3. Orderly("writing", ok, y)'
      BY <1>2, <1>10, <2>2, <2>3, <2>5, <3>1, <3>2, PopStart DEF Streaming, OnSocket
    <3> QED
      BY <3>3 DEF Kept
  <2> QED
    BY <2>1, <2>4, <2>5
<1> QED
  BY <1>2, <1>7, <1>9, <1>10 DEF RunFlush, FlushStreamingQueue, Waits

\* initiate_streaming: header_sent_ is reset, and the header is written unless a
\* late flush has begun to write.
LEMMA RunInitiateKeeps ==
  ASSUME TypeInv, NEW m, NEW ok, NEW x, Orderly(m, ok, x), RunInitiate
  PROVE  Kept'
<1>1. Shrunk(strand, strand') /\ Head(strand).name = "initiate"
  BY TailShrinks DEF RunInitiate, Handling, TypeInv
<1>2. StageOfHead(m, ok, x, strand, strand')
  BY <1>1, HeadTellsStage DEF Orderly, ControlInv
<1>3. /\ UNCHANGED <<req, reading, closed, link, runs, tokens, producer, received, wire>>
      /\ isWriting \in BOOLEAN /\ ~headerSent'
  BY DEF RunInitiate, FlushStreamingQueue, runVars, peerVars, TypeInv
<1>4. SocketIs(m, x) /\ HeaderInv(m, ok, x) /\ RequestInv(m, ok, x)
  BY DEF Orderly, ControlInv
<1>5. HeaderOut' = HeaderOut /\ LastOut' = LastOut
  BY <1>3 DEF HeaderOut, LastOut
<1>6. CASE m = "init"
  <2>1. NoneIn(strand') /\ ~isWriting /\ writes = <<>> /\ ~reading
    BY <1>1, <1>2, <1>4, <1>6 DEF StageOfHead, SocketIs, InFlight, OnSocket
  <2>2. PICK y : y = Header(received)
    OBVIOUS
  <2>3. isWriting' = TRUE /\ writes' = <<y>> /\ queue' = queue
    BY <1>4, <1>6, <2>1, <2>2 DEF RunInitiate, FlushStreamingQueue, Waits, RequestInv, Streaming
  <2>4. ~HeaderOut
    BY <1>4, <1>6 DEF HeaderInv, Streaming
  <2>5. ControlInv("writing", ok, y)'
    BY <1>3, <2>1, <2>3 DEF ControlInv, StrandIs, SocketIs, Calm, Streaming, InFlight, OnSocket
  <2>6. Orderly("writing", ok, y)'
    BY <1>3, <1>6, <2>2, <2>3, <2>4, <2>5, HeaderStart DEF Streaming, OnSocket
  <2> QED
    BY <2>6 DEF Kept
<1>7. ASSUME m \in {"init_writing", "init_written"}
      PROVE  UNCHANGED <<isWriting, queue, writes>> /\ isWriting
  BY <1>4, <1>7 DEF RunInitiate, FlushStreamingQueue, Waits, SocketIs, InFlight, OnSocket
<1>8. CASE m = "init_writing"
  <2>1. NoneIn(strand')
    BY <1>1, <1>2, <1>8 DEF StageOfHead
  <2>2. ControlInv("writing", ok, x)'
    BY <1>3, <1>4, <1>7, <1>8, <2>1 DEF ControlInv, StrandIs, SocketIs, Calm, Streaming, InFlight, OnSocket
  <2>3. HeaderInv("writing", ok, x)'
    BY <1>3, <1>4, <1>5, <1>8 DEF HeaderInv, Streaming
  <2>4. Orderly("writing", ok, x)'
    BY <1>3, <1>7, <1>8, <2>2, <2>3, StreamMove DEF Streaming, OnSocket, InFlight
  <2> QED
    BY <2>4 DEF Kept
<1>9. CASE m = "init_written"
  <2>1. OneIn(strand', Handler("write_done", ok, x))
    BY <1>1, <1>2, <1>9 DEF StageOfHead
  <2>2. ControlInv("written", ok, x)'
    BY <1>3, <1>4, <1>7, <1>9, <2>1 DEF ControlInv, StrandIs, SocketIs, Calm, Streaming, InFlight, OnSocket
  <2>3. HeaderInv("written", ok, x)'
    BY <1>3, <1>4, <1>5, <1>9 DEF HeaderInv, Streaming
  <2>4. Orderly("written", ok, x)'
    BY <1>3, <1>7, <1>9, <2>2, <2>3, StreamMove DEF Streaming, OnSocket, InFlight
  <2> QED
    BY <2>4 DEF Kept
<1> QED
  BY <1>1, <1>2, <1>6, <1>8, <1>9 DEF StageOfHead

\* What is known when the handler of a write of the stream runs.
LEMMA WrittenStage ==
  ASSUME TypeInv, NEW m, NEW ok, NEW x, Orderly(m, ok, x), NEW what \in {"header", "chunk", "end"},
         Written(what), strand' = Tail(strand)
  PROVE  m = "written" /\ ok /\ x.what = what /\ NoneIn(strand') /\ wire # <<>> /\ LastOut = x
<1>1. Shrunk(strand, strand') /\ Head(strand).name = "write_done" /\ Head(strand).about.what = what /\ Head(strand).ok
  BY TailShrinks DEF Written, Handling, TypeInv
<1>2. StageOfHead(m, ok, x, strand, strand')
  BY <1>1, HeadTellsStage DEF Orderly, ControlInv
<1>3. m = "written" /\ ok /\ x.what = what /\ NoneIn(strand')
  BY <1>1, <1>2 DEF StageOfHead, Handler, Response
<1> QED
  BY <1>3 DEF Orderly, HeaderInv

\* Once the header is out, the next chunk is written, or waited for.
LEMMA WriteOn ==
  ASSUME TypeInv, NEW ok, NEW x, Orderly("written", ok, x), NoneIn(strand'), HeaderOut,
         FlushStreamingQueue(FALSE, TRUE), UNCHANGED <<req, reading, closed, runVars, peerVars>>
  PROVE  Kept'
<1>1. UNCHANGED <<req, reading, closed, link, runs, tokens, producer, received, wire>> /\ headerSent'
  BY DEF FlushStreamingQueue, runVars, peerVars
<1>2. SocketIs("written", x)
  BY DEF Orderly, ControlInv
<1>3. writes = <<>> /\ ~reading
  BY <1>2 DEF SocketIs, OnSocket
<1>4. HeaderOut'
  BY <1>1 DEF HeaderOut
<1>5. CASE queue = <<>>
  <2>1. isWriting' = FALSE /\ UNCHANGED <<queue, writes>>
    BY <1>5 DEF FlushStreamingQueue, Waits
  <2>2. ControlInv("waiting", ok, x)'
    BY <1>1, <1>3, <2>1 DEF ControlInv, StrandIs, SocketIs, Calm, Streaming, InFlight, OnSocket
  <2>3. HeaderInv("waiting", ok, x)'
    BY <1>1, <1>4 DEF HeaderInv
  <2>4. Orderly("waiting", ok, x)'
    BY <1>1, <2>1, <2>2, <2>3, StreamMove DEF Streaming, OnSocket, InFlight
  <2> QED
    BY <2>4 DEF Kept
<1>6. CASE queue # <<>>
  <2>1. PICK y : y = Head(queue)
    OBVIOUS
  <2>2. isWriting' = TRUE /\ writes' = <<y>> /\ queue' = Tail(queue)
    BY <1>3, <1>6, <2>1 DEF FlushStreamingQueue, Waits, Pop
  <2>3. ControlInv("writing", ok, y)'
    BY <1>1, <1>3, <2>2 DEF ControlInv, StrandIs, SocketIs, Calm, Streaming, InFlight, OnSocket
  <2>4. Orderly("writing", ok, y)'
    BY <1>1, <1>6, <2>1, <2>2, <2>3, PopStart DEF Streaming, OnSocket
  <2> QED
    BY <2>4 DEF Kept
<1> QED
  BY <1>5, <1>6

\* The header was written, so it is out.
LEMMA HeaderWrittenKeeps ==
  ASSUME TypeInv, NEW m, NEW ok, NEW x, Orderly(m, ok, x), HeaderWritten
  PROVE  Kept'
<1>1. m = "written" /\ x.what = "header" /\ NoneIn(strand') /\ wire # <<>> /\ LastOut = x
  BY WrittenStage DEF HeaderWritten
<1>2. x = Header(received)
  BY <1>1, ItemKinds DEF Orderly, InFlight
<1>3. HeaderOut
  <2>1. Len(wire) \in 1..Len(wire)
    BY <1>1 DEF TypeInv, IsSeq
  <2> QED
    BY <1>1, <1>2, <2>1 DEF HeaderOut, LastOut
<1> QED
  BY <1>1, <1>3, WriteOn DEF HeaderWritten

\* If the wire is not spoilt, a chunk or an end on it comes after its header.
LEMMA ChunkAfterHeader ==
  ASSUME TypeInv, ~Spoilt, NEW m, NEW ok, NEW x, Orderly(m, ok, x), m = "written", ok,
         x.what \in {"chunk", "end"}, wire # <<>>, LastOut = x
  PROVE  HeaderOut /\ headerSent
<1>1. Len(wire) \in Nat /\ Len(wire) \in 1..Len(wire)
  BY DEF TypeInv, IsSeq
<1>2. x.r = received /\ x # Header(received)
  BY ItemKinds DEF Orderly, InFlight, Header
<1>3. PICK h \in 1..(Len(wire) - 1) : wire[h] = Header(received)
  BY <1>1, <1>2 DEF Spoilt, LastOut
<1>4. HeaderOut
  BY <1>1, <1>3 DEF HeaderOut
<1> QED
  BY <1>2, <1>4 DEF Orderly, HeaderInv, Streaming

\* A chunk was written; header_sent_ is still set.
LEMMA ChunkWrittenKeeps ==
  ASSUME TypeInv, ~Spoilt, NEW m, NEW ok, NEW x, Orderly(m, ok, x), ChunkWritten
  PROVE  Kept'
<1>1. m = "written" /\ ok /\ x.what = "chunk" /\ NoneIn(strand') /\ wire # <<>> /\ LastOut = x
  BY WrittenStage DEF ChunkWritten
<1>2. HeaderOut /\ headerSent
  BY <1>1, ChunkAfterHeader
<1>3. FlushStreamingQueue(FALSE, TRUE)
  BY <1>2 DEF ChunkWritten, NextChunk, TypeInv
<1> QED
  BY <1>1, <1>2, <1>3, WriteOn DEF ChunkWritten, NextChunk

\* The end of the stream was written: nothing of it is left, in the queue or to
\* be pushed.
LEMMA EndWrittenKeeps ==
  ASSUME TypeInv, ~Spoilt, NEW m, NEW ok, NEW x, Orderly(m, ok, x), EndWritten
  PROVE  Kept'
<1>1. m = "written" /\ ok /\ x.what = "end" /\ NoneIn(strand') /\ wire # <<>> /\ LastOut = x
  BY WrittenStage DEF EndWritten
<1>2. HeaderOut /\ headerSent
  BY <1>1, ChunkAfterHeader
<1>3. /\ UNCHANGED <<writes, headerSent, queue, link, runs, tokens, producer, received, wire>>
      /\ isWriting' = FALSE
  BY DEF EndWritten, NextRequest, DoRead, DoClose, runVars, peerVars
<1>4. writes = <<>> /\ ~reading /\ StreamInv("written", x)
  BY <1>1 DEF Orderly, ControlInv, SocketIs, OnSocket
<1>5. runs[received] = "finished" /\ Popped = tokens + 1
  BY <1>1, <1>4 DEF StreamInv, Item, Header, Chunk, Streaming, InFlight
<1>6. Len(queue) \in Nat /\ Pushed = tokens + 1
  BY <1>5 DEF Pushed, TypeInv, IsSeq
<1>7. Len(queue) = 0
  BY <1>5, <1>6 DEF Popped, TypeInv
<1>8. queue = <<>>
  BY <1>7 DEF TypeInv, IsSeq
<1>9. \A r \in Requests : runs[r] \in {"none", "finished"}
  BY <1>4, <1>5 DEF StreamInv, Streaming
<1>10. Ready' /\ WireOrdered'
  BY <1>1, <1>3 DEF Ready, LastOut, Orderly, OrderInv, WireOrdered
<1>11. \A j \in 1..Len(wire') : wire'[j].r \in Nat /\ wire'[j].r <= received'
  BY <1>3 DEF Orderly, BoundInv
<1>12. ASSUME NEW n \in {"reading", "over"}, ControlInv(n, ok, x)' PROVE Kept'
  <2>1. RequestInv(n, ok, x)' /\ CalmInv(n)'
    BY <1>2, <1>3, <1>8, <1>9 DEF RequestInv, CalmInv, Streaming
  <2>2. StreamInv(n, x)' /\ HeaderInv(n, ok, x)'
    BY DEF StreamInv, HeaderInv, Streaming
  <2>3. BoundInv(n, ok)'
    BY <1>11 DEF BoundInv, Streaming
  <2>4. OrderInv(n, x)'
    BY <1>10 DEF OrderInv, Streaming, OnSocket
  <2>5. Orderly(n, ok, x)'
    BY <1>12, <2>1, <2>2, <2>3, <2>4 DEF Orderly
  <2> QED
    BY <2>5 DEF Kept
<1>13. CASE req.keep
  <2>1. ControlInv("reading", ok, x)'
    BY <1>1, <1>3, <1>4, <1>13 DEF EndWritten, NextRequest, DoRead, ControlInv, StrandIs, SocketIs, Calm, InFlight, OnSocket
  <2> QED
    BY <1>12, <2>1
<1>14. CASE ~req.keep
  <2>1. ControlInv("over", ok, x)'
    BY <1>1, <1>3, <1>4, <1>14 DEF EndWritten, NextRequest, DoClose, ControlInv, StrandIs, SocketIs, Calm, InFlight, OnSocket
  <2> QED
    BY <1>12, <2>1
<1> QED
  BY <1>13, <1>14

\* The items of a stream follow each other on the wire.
LEMMA ItemsFollow ==
  ASSUME TypeInv, NEW m, NEW x, StreamInv(m, x), m \in Streaming, Popped > 0
  PROVE  MayFollow(Item(Popped - 1), Item(Popped))
<1>1. Len(queue) \in Nat /\ Pushed \in Nat /\ Len(queue) <= Pushed
  BY DEF StreamInv, TypeInv, IsSeq, Pushed
<1>2. Popped \in Nat /\ Popped <= Pushed
  BY <1>1 DEF Popped
<1>3. PICK p \in Nat : p = Popped - 1 /\ Popped = p + 1
  BY <1>2
<1>4. runs[received] = "finished" => p <= tokens
  BY <1>1, <1>2, <1>3 DEF Pushed, TypeInv
<1>5. /\ Item(p).what \in {"header", "chunk"} /\ Item(p).r = received /\ Item(p).k = p
  BY <1>3, <1>4 DEF Item, Header, Chunk, TypeInv
<1>6. Item(p + 1) = Chunk(received, p + 1) \/ Item(p + 1) = End(received, p)
  BY <1>3 DEF Item, TypeInv
<1>7. MayFollow(Item(p), Item(p + 1))
  BY <1>5, <1>6 DEF MayFollow
<1> QED
  BY <1>3, <1>7

\* An item goes onto a wire in order behind the one that it may follow.
LEMMA WireGrows ==
  ASSUME NEW x, Grown(wire, x, wire'), WireOrdered, wire # <<>> => MayFollow(LastOut, x)
  PROVE  WireOrdered'
<1>1. Len(wire) \in Nat /\ Len(wire') = Len(wire) + 1 /\ wire'[Len(wire) + 1] = x
      /\ \A j \in 1..Len(wire) : wire'[j] = wire[j]
  BY DEF Grown, Place
<1>2. ASSUME NEW j \in 1..(Len(wire') - 1) PROVE MayFollow(wire'[j], wire'[j + 1])
  <2>1. CASE j \in 1..(Len(wire) - 1)
    <3>1. wire'[j] = wire[j] /\ wire'[j + 1] = wire[j + 1]
      BY <1>1, <2>1
    <3> QED
      BY <2>1, <3>1 DEF WireOrdered
  <2>2. CASE j = Len(wire)
    <3>1. wire # <<>>
      BY <1>1, <1>2, <2>2
    <3>2. wire'[j] = LastOut /\ wire'[j + 1] = x
      BY <1>1, <1>2, <2>2 DEF LastOut
    <3> QED
      BY <3>1, <3>2
  <2> QED
    BY <1>1, <2>1, <2>2
<1> QED
  BY <1>2 DEF WireOrdered

\* The socket has one write at most, and takes it.
LEMMA WriteCompletes ==
  ASSUME TypeInv, NEW m, NEW ok, NEW x, Orderly(m, ok, x), CompleteWrite
  PROVE  \E y, o :
           /\ (m = "response" /\ y = Response(req.r)) \/ (m \in OnSocket /\ y = x)
           /\ writes' = <<>> /\ strand' = Append(strand, Handler("write_done", o, y))
           /\ \/ o = TRUE /\ link = "up" /\ ~closed /\ wire' = Append(wire, y)
              \/ o = FALSE /\ (link = "down" \/ closed) /\ wire' = wire
<1>1. PICK j \in 1..Len(writes) :
           /\ writes' = SubSeq(writes, 1, j - 1) \o SubSeq(writes, j + 1, Len(writes))
           /\ \/ /\ link = "up" /\ ~closed
                 /\ wire' = Append(wire, writes[j])
                 /\ strand' = Append(strand, Handler("write_done", TRUE, writes[j]))
              \/ /\ link = "down" \/ closed
                 /\ strand' = Append(strand, Handler("write_done", FALSE, writes[j]))
                 /\ wire' = wire
  BY DEF CompleteWrite
<1>2. SocketIs(m, x)
  BY DEF Orderly, ControlInv
<1>3. writes # <<>>
  BY <1>1
<1>4. m = "response" \/ m \in OnSocket
  BY <1>2, <1>3 DEF SocketIs
<1>5. PICK y : writes = <<y>> /\ ((m = "response" /\ y = Response(req.r)) \/ (m \in OnSocket /\ y = x))
  BY <1>2, <1>4 DEF SocketIs
<1>6. j = 1 /\ Len(writes) = 1 /\ writes[1] = y /\ writes \in Seq({y})
  BY <1>1, <1>5
<1>7. writes' = <<>>
  <2>1. SubSeq(writes, 1, 0) = <<>> /\ SubSeq(writes, 2, 1) = <<>>
    BY <1>5
  <2>2. writes' = SubSeq(writes, 1, 0) \o SubSeq(writes, 2, 1)
    BY <1>1, <1>6
  <2>3. <<>> \o <<>> = <<>>
    OBVIOUS
  <2> QED
    BY <2>1, <2>2, <2>3
<1>8. CASE link = "up" /\ ~closed /\ wire' = Append(wire, y) /\ strand' = Append(strand, Handler("write_done", TRUE, y))
  BY <1>5, <1>7, <1>8
<1>9. CASE (link = "down" \/ closed) /\ wire' = wire /\ strand' = Append(strand, Handler("write_done", FALSE, y))
  BY <1>5, <1>7, <1>9
<1> QED
  BY <1>1, <1>6, <1>8, <1>9

\* A response was written, or not.
LEMMA ResponseOut ==
  ASSUME TypeInv, NEW m, NEW ok, NEW x, Orderly(m, ok, x), NEW y, NEW o, m = "response", y = Response(req.r),
         writes' = <<>>, strand' = Append(strand, Handler("write_done", o, y)),
         \/ o = TRUE /\ link = "up" /\ ~closed /\ wire' = Append(wire, y)
         \/ o = FALSE /\ (link = "down" \/ closed) /\ wire' = wire,
         UNCHANGED <<req, reading, isWriting, headerSent, queue, closed, link, runs, tokens, producer, received>>
  PROVE  Orderly("responded", o, x)'
<1>1. Grown(strand, Handler("write_done", o, y), strand') /\ NoneIn(strand)
  BY AppendGrows DEF TypeInv, Orderly, ControlInv, StrandIs
<1>2. OneIn(strand', Handler("write_done", o, y))
  BY <1>1, ControlPosted
<1>3. ControlInv("responded", o, x)'
  BY <1>2 DEF Orderly, ControlInv, StrandIs, SocketIs, Calm, Streaming, InFlight, OnSocket
<1>4. RequestInv("responded", o, x)'
  BY DEF RequestInv, Orderly
<1>5. NoFlush(strand) => NoFlush(strand')
  BY <1>1, NoFlushPost DEF Handler
<1>6. CASE o = FALSE /\ wire' = wire
  BY <1>3, <1>4, <1>5, <1>6, CalmMove DEF Calm
<1>7. CASE o = TRUE /\ link = "up" /\ ~closed /\ wire' = Append(wire, y)
  <2>1. Grown(wire, y, wire') /\ y.r = received /\ y.what = "response"
    BY <1>7, AppendGrows DEF TypeInv, Response, Orderly, RequestInv
  <2>2. /\ Len(wire) \in Nat /\ Len(wire') = Len(wire) + 1 /\ wire'[Len(wire) + 1] = y
        /\ \A j \in 1..Len(wire) : wire'[j] = wire[j]
    BY <2>1 DEF Grown, Place
  <2>3. CalmInv("responded")'
    BY <1>5 DEF CalmInv, Orderly, Calm
  <2>4. StreamInv("responded", x)' /\ HeaderInv("responded", o, x)'
    BY DEF StreamInv, HeaderInv, Streaming
  <2>5. \A j \in 1..Len(wire) : wire[j].r \in Nat /\ wire[j].r < received
    BY DEF Orderly, BoundInv
  <2>6. BoundInv("responded", o)'
    <3>1. \A j \in 1..Len(wire') : wire'[j].r \in Nat /\ wire'[j].r <= received'
      BY <2>1, <2>2, <2>5 DEF TypeInv
    <3> QED
      BY <3>1 DEF BoundInv, Streaming
  <2>7. WireOrdered /\ Ready
    BY <1>7 DEF Orderly, OrderInv, Headed, OnSocket, Calm
  <2>8. wire # <<>> => MayFollow(LastOut, y)
    <3>1. wire # <<>> => LastOut.r < received /\ LastOut.what \in {"response", "end"}
      <4>1. wire # <<>> => Len(wire) \in 1..Len(wire)
        BY <2>2 DEF TypeInv, IsSeq
      <4> QED
        BY <2>5, <2>7, <4>1 DEF LastOut, Ready
    <3>2. wire # <<>> => y.r > LastOut.r
      BY <2>1, <3>1
    <3> QED
      BY <2>1, <3>1, <3>2 DEF MayFollow
  <2>9. WireOrdered'
    BY <2>1, <2>7, <2>8, WireGrows
  <2>10. LastOut' = y
    BY <2>2 DEF LastOut
  <2>11. OrderInv("responded", x)'
    BY <2>1, <2>9, <2>10 DEF OrderInv, Ready, Streaming, OnSocket
  <2> QED
    BY <1>3, <1>4, <2>3, <2>4, <2>6, <2>11 DEF Orderly
<1> QED
  BY <1>6, <1>7

\* An item of the stream was written, or not.
LEMMA ItemOut ==
  ASSUME TypeInv, NEW m, NEW ok, NEW x, Orderly(m, ok, x), NEW o, NEW n, m \in OnSocket,
         n = IF m = "writing" THEN "written" ELSE "init_written",
         writes' = <<>>, strand' = Append(strand, Handler("write_done", o, x)),
         \/ o = TRUE /\ link = "up" /\ ~closed /\ wire' = Append(wire, x) /\ Headed(m, x)
         \/ o = FALSE /\ (link = "down" \/ closed) /\ wire' = wire,
         UNCHANGED <<req, reading, isWriting, headerSent, queue, closed, link, runs, tokens, producer, received>>
  PROVE  Orderly(n, o, x)'
<1>1. /\ m \in {"writing", "init_writing"} /\ m \in Streaming /\ m \notin Calm /\ m \in InFlight
      /\ n \in {"written", "init_written"} /\ n \in Streaming /\ n \notin Calm /\ n \in InFlight /\ n \notin OnSocket
  BY DEF OnSocket, Streaming, Calm, InFlight
<1>2. Grown(strand, Handler("write_done", o, x), strand')
  BY AppendGrows DEF TypeInv
<1>3. ControlInv(n, o, x)'
  <2>1. m = "writing" => OneIn(strand', Handler("write_done", o, x))
    <3>1. m = "writing" => NoneIn(strand)
      BY DEF Orderly, ControlInv, StrandIs
    <3> QED
      BY <1>2, <3>1, ControlPosted
  <2>2. m = "init_writing" => TwoIn(strand', Post("initiate"), Handler("write_done", o, x))
    <3>1. m = "init_writing" => OneIn(strand, Post("initiate"))
      BY DEF Orderly, ControlInv, StrandIs
    <3> QED
      BY <1>2, <3>1, ControlPosted
  <2>3. StrandIs(n, o, x, strand)'
    BY <1>1, <2>1, <2>2 DEF StrandIs
  <2>4. SocketIs(n, x)'
    BY <1>1 DEF Orderly, ControlInv, SocketIs, InFlight, OnSocket
  <2> QED
    BY <1>1, <2>3, <2>4 DEF ControlInv
<1>4. RequestInv(n, o, x)' /\ CalmInv(n)'
  BY <1>1 DEF RequestInv, CalmInv, Orderly
<1>5. StreamInv(n, x)'
  BY <1>1 DEF StreamInv, Item, Pushed, Popped, Orderly
<1>6. HeaderInv(m, ok, x) /\ OrderInv(m, x) /\ BoundInv(m, ok) /\ StreamInv(m, x)
  BY DEF Orderly
<1>7. CASE o = FALSE /\ (link = "down" \/ closed) /\ wire' = wire
  <2>1. HeaderOut' = HeaderOut /\ WireOrdered' = WireOrdered
    BY <1>7 DEF HeaderOut, WireOrdered
  <2>2. HeaderInv(n, o, x)'
    BY <1>1, <1>6, <1>7, <2>1 DEF HeaderInv
  <2>3. BoundInv(n, o)'
    BY <1>1, <1>6, <1>7, <2>1 DEF BoundInv
  <2>4. OrderInv(n, x)'
    <3>1. ~(link' = "up" /\ ~closed')
      BY <1>7
    <3> QED
      BY <1>6, <2>1, <3>1 DEF OrderInv
  <2> QED
    BY <1>3, <1>4, <1>5, <2>2, <2>3, <2>4 DEF Orderly
<1>8. CASE o = TRUE /\ link = "up" /\ ~closed /\ wire' = Append(wire, x) /\ Headed(m, x)
  <2>1. Grown(wire, x, wire')
    BY <1>8, AppendGrows DEF TypeInv
  <2>2. /\ Len(wire) \in Nat /\ Len(wire') = Len(wire) + 1 /\ wire'[Len(wire) + 1] = x
        /\ \A j \in 1..Len(wire) : wire'[j] = wire[j]
    BY <2>1 DEF Grown, Place
  <2>3. x.r = received /\ x.what \in {"header", "chunk", "end"} /\ (x.what = "header" => x = Header(received))
    BY <1>1, <1>6, ItemKinds
  <2>4. LastOut' = x /\ wire' # <<>>
    <3>1. Len(wire') # 0
      BY <2>2
    <3> QED
      BY <2>2, <3>1 DEF LastOut
  <2>5. HeaderOut'
    <3>1. CASE HeaderOut
      BY <2>2, <3>1 DEF HeaderOut
    <3>2. CASE ~HeaderOut
      <4>1. x = Header(received)
        BY <1>8, <2>3, <3>2 DEF Headed
      <4>2. Len(wire) + 1 \in 1..Len(wire')
        BY <2>2
      <4> QED
        BY <2>2, <4>1, <4>2 DEF HeaderOut
    <3> QED
      BY <3>1, <3>2
  <2>6. HeaderInv(n, o, x)'
    <3>1. HeaderOut => m = "writing" /\ headerSent
      BY <1>1, <1>6 DEF HeaderInv
    <3>2. (~HeaderOut) => x = Header(received)
      BY <1>8, <2>3 DEF Headed
    <3> QED
      BY <1>1, <1>8, <2>4, <2>5, <3>1, <3>2 DEF HeaderInv
  <2>7. BoundInv(n, o)'
    <3>1. \A j \in 1..Len(wire') : wire'[j].r \in Nat /\ wire'[j].r <= received'
      BY <1>6, <2>2, <2>3 DEF BoundInv, TypeInv
    <3> QED
      BY <1>1, <2>5, <3>1 DEF BoundInv
  <2>8. WireOrdered'
    <3>1. CASE HeaderOut
      <4>1. Popped > 0 /\ x = Item(Popped) /\ LastOut = Item(Popped - 1)
        BY <1>1, <1>6, <1>8, <3>1 DEF OrderInv
      <4>2. MayFollow(LastOut, x)
        BY <1>1, <1>6, <4>1, ItemsFollow
      <4> QED
        BY <1>6, <2>1, <4>2, WireGrows DEF OrderInv
    <3>2. CASE ~HeaderOut
      <4>1. x = Header(received) /\ Ready
        BY <1>1, <1>6, <1>8, <2>3, <3>2 DEF Headed, OrderInv
      <4>2. wire # <<>> => Len(wire) \in 1..Len(wire)
        BY <2>2 DEF TypeInv, IsSeq
      <4>3. wire # <<>> => LastOut.r \in Nat /\ LastOut.r < received /\ LastOut.what \in {"response", "end"}
        BY <1>1, <1>6, <3>2, <4>1, <4>2 DEF LastOut, Ready, BoundInv
      <4>4. wire # <<>> => MayFollow(LastOut, x)
        BY <4>1, <4>3 DEF MayFollow, Header, TypeInv
      <4> QED
        BY <1>6, <2>1, <4>4, WireGrows DEF OrderInv
    <3> QED
      BY <3>1, <3>2
  <2>9. x = Item(Popped)'
    <3>1. Item(Popped)' = Item(Popped)
      BY DEF Item, Popped, Pushed
    <3>2. CASE HeaderOut
      BY <1>1, <1>6, <1>8, <3>1, <3>2 DEF OrderInv
    <3>3. CASE ~HeaderOut
      <4>1. x = Header(received) /\ Popped = 0
        BY <1>1, <1>6, <1>8, <2>3, <3>3 DEF Headed, OrderInv
      <4> QED
        BY <3>1, <4>1 DEF Item
    <3> QED
      BY <3>2, <3>3
  <2>10. OrderInv(n, x)'
    BY <1>1, <2>4, <2>5, <2>8, <2>9 DEF OrderInv
  <2> QED
    BY <1>3, <1>4, <1>5, <2>6, <2>7, <2>10 DEF Orderly
<1> QED
  BY <1>7, <1>8

\* The socket has taken what was being written, or failed to.
LEMMA CompleteWriteKeeps ==
  ASSUME TypeInv, NEW m, NEW ok, NEW x, Orderly(m, ok, x), CompleteWrite
  PROVE  Kept' \/ Spoilt'
<1>1. PICK y, o :
        /\ (m = "response" /\ y = Response(req.r)) \/ (m \in OnSocket /\ y = x)
        /\ writes' = <<>> /\ strand' = Append(strand, Handler("write_done", o, y))
        /\ \/ o = TRUE /\ link = "up" /\ ~closed /\ wire' = Append(wire, y)
           \/ o = FALSE /\ (link = "down" \/ closed) /\ wire' = wire
  BY WriteCompletes
<1>2. UNCHANGED <<req, reading, isWriting, headerSent, queue, closed, link, runs, tokens, producer, received>>
  BY DEF CompleteWrite, streamVars, runVars
<1>3. CASE m = "response" /\ y = Response(req.r)
  <2>1. Orderly("responded", o, x)'
    BY <1>1, <1>2, <1>3, ResponseOut
  <2> QED
    BY <2>1 DEF Kept
<1>4. CASE m \in OnSocket /\ y = x /\ (o = FALSE \/ Headed(m, x))
  <2>1. PICK n : n = IF m = "writing" THEN "written" ELSE "init_written"
    OBVIOUS
  <2>2. Orderly(n, o, x)'
    BY <1>1, <1>2, <1>4, <2>1, ItemOut
  <2> QED
    BY <2>2 DEF Kept
<1>5. CASE m \in OnSocket /\ y = x /\ o # FALSE /\ ~Headed(m, x)
  <2>1. wire' = Append(wire, x) /\ x.what \in {"chunk", "end"} /\ ~HeaderOut
    BY <1>1, <1>5 DEF Headed
  <2>2. Grown(wire, x, wire')
    BY <2>1, AppendGrows DEF TypeInv
  <2>3. x.r = received
    BY <1>5, ItemKinds DEF Orderly, InFlight
  <2>4. /\ Len(wire) + 1 \in 1..Len(wire') /\ wire'[Len(wire) + 1] = x
        /\ \A h \in 1..((Len(wire) + 1) - 1) : wire'[h] # Header(received)
    BY <2>1, <2>2 DEF Grown, Place, HeaderOut
  <2> QED
    BY <2>1, <2>3, <2>4 DEF Spoilt, Header
<1> QED
  BY <1>1, <1>3, <1>4, <1>5

-----------------------------------------------------------------------------
\* The theorems.

\* A session that has just been created is in order.
LEMMA InitOrderly == Init => IInv
<1> SUFFICES ASSUME Init PROVE IInv
  OBVIOUS
<1>1. /\ strand = <<Post("do_read")>> /\ ~reading /\ writes = <<>> /\ isWriting = FALSE /\ headerSent = FALSE
      /\ queue = <<>> /\ runs = [r \in Requests |-> "none"] /\ tokens = 0 /\ producer = "idle"
      /\ received = 0 /\ wire = <<>>
  BY DEF Init
<1>2. strand \in Seq({Post("do_read")}) /\ Len(strand) = 1 /\ strand[1] = Post("do_read")
  BY <1>1
<1>3. IsSeq(strand)
  BY <1>2 DEF IsSeq
<1>4. IsSeq(<<>>)
  <2>1. <<>> \in Seq({})
    OBVIOUS
  <2> QED
    BY <2>1 DEF IsSeq
<1>5. TypeInv
  BY <1>1, <1>3, <1>4 DEF TypeInv
<1>6. OneIn(strand, Post("do_read")) /\ NoFlush(strand)
  BY <1>2 DEF OneIn, NoFlush, Place, Post, Handler
<1>7. ControlInv("do_read", TRUE, 0)
  BY <1>1, <1>6 DEF ControlInv, StrandIs, SocketIs, Calm, Streaming, InFlight, OnSocket
<1>8. RequestInv("do_read", TRUE, 0) /\ CalmInv("do_read")
  BY <1>1, <1>6 DEF RequestInv, CalmInv, Streaming
<1>9. StreamInv("do_read", 0) /\ HeaderInv("do_read", TRUE, 0)
  BY DEF StreamInv, HeaderInv, Streaming
<1>10. Len(wire) = 0
  BY <1>1
<1>11. BoundInv("do_read", TRUE)
  BY <1>10 DEF BoundInv
<1>12. OrderInv("do_read", 0)
  BY <1>1, <1>10 DEF OrderInv, WireOrdered, Ready, Streaming, OnSocket
<1>13. Orderly("do_read", TRUE, 0)
  BY <1>7, <1>8, <1>9, <1>11, <1>12 DEF Orderly
<1> QED
  BY <1>5, <1>13 DEF IInv

\* A step leaves the session in order, or puts a chunk without its header on
\* the wire.
LEMMA NextOrderly ==
  ASSUME TypeInv, ~Spoilt, NEW m, NEW ok, NEW x, Orderly(m, ok, x), Next
  PROVE  Kept' \/ Spoilt'
<1>1. CASE Strand
  BY <1>1, RunDoReadKeeps, ReadFailedKeeps, RespondKeeps, ChatCompletionKeeps, UnroutedKeeps, FatalRequestKeeps,
    StartResponseKeeps, RunInitiateKeeps, RunFlushKeeps, ResponseWrittenKeeps, HeaderWrittenKeeps,
    ChunkWrittenKeeps, EndWrittenKeeps, WriteFailedKeeps DEF Strand, Kept
<1>2. CASE WorkerThread
  BY <1>2, PostFlushKeeps, StartRunKeeps, PushTokenKeeps, PushEndKeeps, RunThrowsKeeps DEF WorkerThread, Kept
<1>3. CASE CompleteRead
  BY <1>3, CompleteReadKeeps
<1>4. CASE CompleteWrite
  BY <1>4, CompleteWriteKeeps
<1>5. CASE LinkDown
  BY <1>5, LinkDownKeeps DEF Kept
<1> QED
  BY <1>1, <1>2, <1>3, <1>4, <1>5 DEF Next

\* Whatever the worker thread, the network and the strand do, in any order: the
\* session stays in order until a late flush lets a chunk go out before the
\* header of its stream.
THEOREM Invariant == Spec => []IInv
<1>1. Init => IInv
  BY InitOrderly
<1>2. IInv /\ [Next]_vars => IInv'
  <2> SUFFICES ASSUME IInv, [Next]_vars PROVE IInv'
    OBVIOUS
  <2>1. TypeInv /\ TypeInv'
    BY TypeStep DEF IInv
  <2>2. CASE Spoilt
    BY <2>1, <2>2, SpoiltStays DEF IInv
  <2>3. CASE ~Spoilt
    <3>1. PICK m, ok, x : Orderly(m, ok, x)
      BY <2>3 DEF IInv
    <3>2. CASE Next
      BY <2>1, <2>3, <3>1, <3>2, NextOrderly DEF IInv, Kept
    <3>3. CASE UNCHANGED vars
      <4>1. UNCHANGED <<strand, req, reading, writes, isWriting, headerSent, queue, closed, link, runs, tokens,
                        producer, received, wire>>
        BY <3>3 DEF vars, streamVars, runVars, peerVars
      <4>2. StrandIs(m, ok, x, strand)' /\ CalmInv(m)'
        BY <3>1, <4>1 DEF Orderly, ControlInv, StrandIs, CalmInv
      <4>3. Orderly(m, ok, x)'
        BY <2>1, <3>1, <4>1, <4>2, StrandMove
      <4> QED
        BY <2>1, <4>3 DEF IInv
    <3> QED
      BY <3>2, <3>3
  <2> QED
    BY <2>2, <2>3
<1> QED
  BY <1>1, <1>2, PTL DEF Spec

\* As long as every stream begins with its header, no two writes are ever under
\* way on the socket (is_writing_ and the strand, server.cpp:258-263).
THEOREM OneWrite == Spec => []AtMostOneWrite
<1>1. IInv => AtMostOneWrite
  <2> SUFFICES ASSUME IInv, HeaderFirst PROVE Len(writes) <= 1
    BY DEF AtMostOneWrite
  <2>1. PICK m, ok, x : Orderly(m, ok, x)
    BY HeaderFirstUnspoilt DEF IInv
  <2>2. writes = <<>> \/ \E y : writes = <<y>>
    BY <2>1 DEF Orderly, ControlInv, SocketIs
  <2>3. CASE writes = <<>>
    BY <2>3
  <2>4. CASE \E y : writes = <<y>>
    <3>1. PICK y : writes = <<y>>
      BY <2>4
    <3> QED
      BY <3>1
  <2> QED
    BY <2>2, <2>3, <2>4
<1> QED
  BY <1>1, Invariant, PTL

\* As long as every stream begins with its header, what is on the wire is a
\* sequence of whole answers: the tokens in the order of their generation, none
\* missing or doubled, and the answers in the order of the requests.
THEOREM OrderOnWire == Spec => []WireInOrder
<1>1. IInv => WireInOrder
  <2> SUFFICES ASSUME IInv, HeaderFirst PROVE WireOrdered
    BY DEF WireInOrder, WireOrdered
  <2>1. PICK m, ok, x : Orderly(m, ok, x)
    BY HeaderFirstUnspoilt DEF IInv
  <2> QED
    BY <2>1 DEF Orderly, OrderInv
<1> QED
  BY <1>1, Invariant, PTL

\* As long as every stream begins with its header, the next request is read only
\* when nothing is being written and no token waits (server.cpp:121-125).
THEOREM QuietReads == Spec => []ReadsOnlyWhenQuiet
<1>1. IInv => ReadsOnlyWhenQuiet
  <2> SUFFICES ASSUME IInv, HeaderFirst, reading PROVE writes = <<>> /\ ~isWriting /\ queue = <<>>
    BY DEF ReadsOnlyWhenQuiet
  <2>1. PICK m, ok, x : Orderly(m, ok, x)
    BY HeaderFirstUnspoilt DEF IInv
  <2>2. m = "reading" /\ SocketIs(m, x) /\ CalmInv(m)
    BY <2>1 DEF Orderly, ControlInv, SocketIs
  <2> QED
    BY <2>2 DEF SocketIs, CalmInv, Calm, InFlight, OnSocket
<1> QED
  BY <1>1, Invariant, PTL

=============================================================================
