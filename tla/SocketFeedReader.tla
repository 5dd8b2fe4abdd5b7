--------------------------- MODULE SocketFeedReader ---------------------------
(***************************************************************************)
(* SocketFeedReader: a thread that polls a socket, feeds what it receives  *)
(* to its ItchParser and hands the messages to a callback, and the thread  *)
(* that owns the reader and calls start(), stop() and join().              *)
(*                                                                         *)
(* Between them is the kernel: the bytes of PeerStream that the peer has   *)
(* sent and the reader has not received yet, the end of the peer's side    *)
(* (fin), a broken connection (reset), the shutdown() of stop(), and the   *)
(* descriptor, which another part of the process may get again once the    *)
(* reader has closed it.  bytesReceived_ is Len(stream).  The callback is  *)
(* ItchSocketPipeline's: ParityChecker::process() and ++messagesDecoded_.  *)
(***************************************************************************)
EXTENDS ItchParser

CONSTANTS PeerStream,   \* all the peer has to say
          RecvBuffer    \* config_.recvBufferSize

ASSUME SocketAssumption ==
    /\ PeerStream \in Seq(Byte)
    /\ Len(PeerStream) <= MaxStream
    /\ RecvBuffer \in Nat \ {0}

VARIABLES
    rpc,          \* where recvLoop() is
    opc,          \* where the owner is
    stop,         \* stop_
    socketFd,     \* is a descriptor in socketFd_? FALSE stands for -1
    running,      \* running_
    handled,      \* how many of the frames recvLoop() has gone through
    sent, fin, reset, shut, fdOwner,
    interrupted,  \* poll() has failed
    hungUp        \* poll() has reported a hang-up

ownerVars == <<opc, stop>>
pollVars == <<interrupted, hungUp>>
kernelVars == <<sent, fin, reset, shut, fdOwner>>
socketVars == <<parserVars, rpc, socketFd, running, handled, pollVars, ownerVars, kernelVars>>

SocketInit ==
    /\ ParserInit
    /\ rpc = "none" /\ opc = "new"
    /\ stop = FALSE /\ socketFd = FALSE /\ running = FALSE
    /\ handled = 0
    /\ sent = 0 /\ fin = FALSE /\ reset = FALSE /\ shut = FALSE /\ fdOwner = "none"
    /\ interrupted = FALSE /\ hungUp = FALSE

-----------------------------------------------------------------------------
\* start(), once connect() has succeeded; before, it changes nothing.
Start ==
    /\ opc = "new"
    /\ socketFd' = TRUE /\ running' = TRUE /\ fdOwner' = "reader"
    /\ rpc' = "loop" /\ opc' = "running"
    /\ UNCHANGED <<parserVars, stop, handled, sent, fin, reset, shut, pollVars>>

\* The test of stop_.
CheckStop ==
    /\ rpc = "loop"
    /\ rpc' = IF stop THEN "close" ELSE "poll"
    /\ UNCHANGED <<parserVars, ownerVars, kernelVars, socketFd, running, handled, pollVars>>

Pending == sent - Len(stream)
HangUp == reset \/ shut
Readable == Pending > 0 \/ fin

\* poll() sees nothing for 200ms, fails (a signal), or sees an event.
PollTimeout ==
    /\ rpc = "poll" /\ ~Readable /\ ~HangUp
    /\ rpc' = "loop"
    /\ UNCHANGED <<parserVars, ownerVars, kernelVars, socketFd, running, handled, pollVars>>

PollFails ==
    /\ rpc = "poll"
    /\ rpc' = "close" /\ interrupted' = TRUE
    /\ UNCHANGED <<parserVars, ownerVars, kernelVars, socketFd, running, handled, hungUp>>

\* Mutant: a peer that has closed its side is taken for a hang-up.
PollEvent_PeerClosed ==
    /\ rpc = "poll" /\ (Readable \/ HangUp)
    /\ \E hup \in {HangUp, HangUp \/ fin} :
          /\ rpc' = IF hup \/ fin THEN "close" ELSE "recv"
          /\ hungUp' = hup
    /\ UNCHANGED <<parserVars, ownerVars, kernelVars, socketFd, running, handled, interrupted>>

\* Mutant: an event without input is ignored.
PollEvent_InputOnly ==
    /\ rpc = "poll" /\ (Readable \/ HangUp)
    /\ rpc' = IF Readable THEN "recv" ELSE "loop"
    /\ UNCHANGED <<parserVars, ownerVars, kernelVars, socketFd, running, handled, pollVars>>

\* POLLIN, with or without POLLHUP.  A broken connection and a shutdown() are reported
\* as a hang-up; whether a peer that has only closed its side is, next to the input
\* that is still there, depends on the system: Linux does not, others do.
PollEvent ==
    /\ rpc = "poll" /\ (Readable \/ HangUp)
    /\ \E hup \in {HangUp, HangUp \/ fin} :
          /\ rpc' = IF hup THEN "close" ELSE "recv"
          /\ hungUp' = hup
    /\ UNCHANGED <<parserVars, ownerVars, kernelVars, socketFd, running, handled, interrupted>>

\* recv() returns bytes, which feed() gets.
Receive(n) ==
    /\ rpc = "recv" /\ n <= Pending
    /\ Feed(SubSeq(PeerStream, Len(stream) + 1, Len(stream) + n))
    /\ rpc' = "feed"
    /\ UNCHANGED <<ownerVars, kernelVars, socketFd, running, handled, pollVars>>

\* recv() returns 0 or fails; after shutdown() or a reset it may do so with bytes left.
ReceiveEnd ==
    /\ rpc = "recv" /\ (reset \/ shut \/ (Pending = 0 /\ fin))
    /\ rpc' = "close"
    /\ UNCHANGED <<parserVars, ownerVars, kernelVars, socketFd, running, handled, pollVars>>

\* feed() runs, and returns.
FeedStep ==
    /\ rpc = "feed" /\ Scan
    /\ UNCHANGED <<rpc, ownerVars, kernelVars, socketFd, running, handled, pollVars>>

FeedDone ==
    /\ rpc = "feed" /\ FeedReturn
    /\ rpc' = "deliver"
    /\ UNCHANGED <<ownerVars, kernelVars, socketFd, running, handled, pollVars>>

\* onMessage_ for the next result, if it is ok.
Deliver ==
    /\ rpc = "deliver"
    /\ IF handled < Len(frames) THEN handled' = handled + 1 /\ UNCHANGED rpc
       ELSE rpc' = "loop" /\ UNCHANGED handled
    /\ UNCHANGED <<parserVars, ownerVars, kernelVars, socketFd, running, pollVars>>

\* The end of recvLoop(): close(fd), socketFd_ = -1, running_ = false.
CloseFd ==
    /\ rpc = "close"
    /\ fdOwner' = "none" /\ rpc' = "clear"
    /\ UNCHANGED <<parserVars, ownerVars, sent, fin, reset, shut, socketFd, running, handled,
                   pollVars>>

ClearFd ==
    /\ rpc = "clear"
    /\ socketFd' = FALSE /\ rpc' = "finish"
    /\ UNCHANGED <<parserVars, ownerVars, kernelVars, running, handled, pollVars>>

Finish ==
    /\ rpc = "finish"
    /\ running' = FALSE /\ rpc' = "exited"
    /\ UNCHANGED <<parserVars, ownerVars, kernelVars, socketFd, handled, pollVars>>

ReaderStep ==
    \/ CheckStop \/ PollTimeout \/ PollFails \/ PollEvent
    \/ \E n \in 1..RecvBuffer : Receive(n)
    \/ ReceiveEnd \/ FeedStep \/ FeedDone \/ Deliver \/ CloseFd \/ ClearFd \/ Finish

-----------------------------------------------------------------------------
\* stop(), which may be called again, and the destructor.
CallStop ==
    /\ opc \in {"running", "joined"}
    /\ stop' = TRUE /\ opc' = "load"
    /\ UNCHANGED <<parserVars, rpc, kernelVars, socketFd, running, handled, pollVars>>

LoadFd ==
    /\ opc = "load"
    /\ opc' = IF socketFd THEN "shutdown" ELSE "join"
    /\ UNCHANGED <<parserVars, rpc, stop, kernelVars, socketFd, running, handled, pollVars>>

\* Mutant: shutdown() is tried until it succeeds.
Shutdown_Retry ==
    /\ opc = "shutdown"
    /\ shut' = (shut \/ fdOwner = "reader")
    /\ opc' = IF shut' THEN "join" ELSE "shutdown"
    /\ UNCHANGED <<parserVars, rpc, stop, sent, fin, reset, fdOwner, socketFd, running, handled,
                   pollVars>>

\* shutdown() of what the descriptor stands for now; of a closed one it fails.
Shutdown ==
    /\ opc = "shutdown"
    /\ shut' = (shut \/ fdOwner = "reader")
    /\ opc' = "join"
    /\ UNCHANGED <<parserVars, rpc, stop, sent, fin, reset, fdOwner, socketFd, running, handled,
                   pollVars>>

CallJoin ==
    /\ opc = "running"
    /\ opc' = "join"
    /\ UNCHANGED <<parserVars, rpc, stop, kernelVars, socketFd, running, handled, pollVars>>

\* Mutant: the thread is not waited for once it is known to have been told.
JoinReturn_Unjoined ==
    /\ opc = "join" /\ (rpc = "exited" \/ stop)
    /\ opc' = "joined"
    /\ UNCHANGED <<parserVars, rpc, stop, kernelVars, socketFd, running, handled, pollVars>>

JoinReturn ==
    /\ opc = "join" /\ rpc = "exited"
    /\ opc' = "joined"
    /\ UNCHANGED <<parserVars, rpc, stop, kernelVars, socketFd, running, handled, pollVars>>

OwnerReturns == LoadFd \/ Shutdown \/ JoinReturn

-----------------------------------------------------------------------------
\* The peer, and the rest of the process.
PeerSends ==
    /\ opc # "new" /\ ~fin /\ ~reset /\ sent < Len(PeerStream)
    /\ sent' = sent + 1
    /\ UNCHANGED <<parserVars, rpc, ownerVars, fin, reset, shut, fdOwner, socketFd, running,
                   handled, pollVars>>

PeerCloses ==
    /\ opc # "new" /\ ~fin
    /\ fin' = TRUE
    /\ UNCHANGED <<parserVars, rpc, ownerVars, sent, reset, shut, fdOwner, socketFd, running,
                   handled, pollVars>>

PeerResets ==
    /\ opc # "new" /\ ~reset
    /\ reset' = TRUE
    /\ UNCHANGED <<parserVars, rpc, ownerVars, sent, fin, shut, fdOwner, socketFd, running,
                   handled, pollVars>>

OtherOpens ==
    /\ opc # "new" /\ fdOwner = "none"
    /\ fdOwner' = "other"
    /\ UNCHANGED <<parserVars, rpc, ownerVars, sent, fin, reset, shut, socketFd, running,
                   handled, pollVars>>

SocketNext ==
    \/ Start \/ ReaderStep
    \/ CallStop \/ CallJoin \/ OwnerReturns
    \/ PeerSends \/ PeerCloses \/ PeerResets \/ OtherOpens

\* The threads run; poll() returns after 200ms at the latest.
SocketSpec ==
    /\ SocketInit /\ [][SocketNext]_socketVars
    /\ WF_socketVars(ReaderStep)
    /\ WF_socketVars(OwnerReturns)

-----------------------------------------------------------------------------
\* recvLoop() hands over a beginning of what the peer sent, cut into records the way
\* the parser cuts it, and nothing while feed() is still at work.
ReceivedInOrder ==
    /\ Len(stream) <= sent /\ stream = SubSeq(PeerStream, 1, Len(stream))
    /\ handled <= Len(frames)
    /\ rpc # "feed" => fpc = "idle"
    /\ rpc \notin {"feed", "deliver"} => handled = Len(frames)

\* "server closes after sending -> EOF -> reader loop exits", with every message
\* decoded: a reader nobody stopped, whose connection did not break, has handled every
\* record of what it received, and has received all that the peer sent before it
\* closed, unless the system reported the close as a hang-up: then recvLoop() breaks
\* off (socket_feed.cpp:79) and the input that was still there is lost.
OrderlyCloseLosesNothing ==
    rpc = "exited" /\ ~stop /\ ~reset /\ ~interrupted =>
        /\ handled = Len(frames) /\ ~Complete(stream, Reached)
        /\ ~hungUp => Len(stream) = sent

\* Once stop() or join() has returned the reader thread is gone: the counts are final
\* ("only safe to read after stop()/join()"), each message that was parsed has been
\* through the callback, and the callback is not running.
JoinedIsFinal ==
    opc = "joined" => /\ rpc = "exited" /\ ~running /\ ~socketFd
                      /\ handled = messagesDecoded + messagesSkipped

\* The shutdown() of stop() "unblocks a pending recv/poll": the descriptor is the
\* reader's, or closed, when it is called.
ShutdownHitsOwnSocket == opc = "shutdown" => fdOwner # "other"

\* stop() returns, whatever the peer does.
SocketStopReturns == opc = "load" ~> opc = "joined"

\* The reader thread ends, and with it join(), when the peer closes or the connection
\* breaks, without anybody calling stop().
EndsWithPeer == (fin \/ reset) ~> rpc = "exited"
=============================================================================
