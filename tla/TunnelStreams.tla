--------------------------- MODULE TunnelStreams ---------------------------
(***************************************************************************)
(* The logical streams of one established Relay tunnel: run_tunnel and     *)
(* relay_reader of the Server (relay/mod.rs), relay_tunnel and             *)
(* spawn_target_reader of the Relay (owlmux-relay/src/main.rs), and the    *)
(* WebSocket between them.                                                 *)
(*                                                                         *)
(* A stream joins a caller on the Server (the OpenSSH bridge of ssh.rs) to *)
(* one connection to the loopback sshd.  Bytes are counted in chunks of    *)
(* one data frame.  A handler that awaits (a send, a write, a connect) is  *)
(* one step: its loop does nothing else meanwhile, and the frame it is     *)
(* handling can be thought of as still in the socket until it completes.   *)
(* The timeouts that end a blocked send or write are separate outcomes.    *)
(***************************************************************************)
EXTENDS Naturals, Sequences, FiniteSets

CONSTANTS MaxStreams,  \* MAX_STREAMS, the same number on both sides
          DuplexCap,   \* chunks tokio::io::duplex holds in each direction
          QueueCap,    \* capacity of the outbound mpsc channels
          WireCap,     \* frames the WebSocket takes before a send blocks
          PingLimit,   \* unanswered pings that end the tunnel
          MaxId,       \* bound on the streams opened
          MaxChunks,   \* bound on the chunks a party writes to a stream
          MaxPings     \* bound on the pings sent

ASSUME TunnelAssumption ==
    /\ {MaxStreams, DuplexCap, QueueCap, WireCap, PingLimit} \subseteq Nat \ {0}
    /\ {MaxId, MaxChunks, MaxPings} \subseteq Nat

Id == 1..MaxId

VARIABLES
    server, relay,      \* "run", or why the loop returned
    nextId,             \* next_stream_id
    writers, targets,   \* the stream maps of the Server and of the Relay
    reading,            \* streams with a live relay_reader
    targetReading,      \* streams with a live target reader
    serverOut, relayOut,   \* the outbound channels
    toRelay, toServer,     \* the WebSocket, one FIFO in each direction
    caller,             \* the caller's end of each stream
    sshd,               \* sshd's end of each stream
    fromCaller, toCaller,  \* chunks in the two directions of the duplex
    fromSshd,           \* chunks sshd has written that are not read yet
    wrote, sent,        \* chunks written by the caller, and by sshd less any lost in a reset
    atSshd, atCaller,   \* chunks written to sshd, to the caller's duplex
    nonce, pings        \* ping_nonce and outstanding_pings

maps == <<nextId, writers, targets>>
queues == <<serverOut, relayOut, toRelay, toServer>>
tasks == <<reading, targetReading>>
ends == <<caller, sshd, fromCaller, toCaller, fromSshd, wrote, sent, atSshd, atCaller>>
heart == <<nonce, pings>>
vars == <<server, relay, maps, queues, tasks, ends, heart>>

Frame(t, i) == [type |-> t, id |-> i]
Eof == Frame("eof", 0)     \* the peer dropped the socket

ServerFrames == [type : {"open", "data", "half", "ping", "eof"}, id : Nat]
ClientFrames == [type : {"opened", "data", "half", "closed", "pong", "eof"}, id : Nat]

TypeOK ==
    /\ server \in {"run", "route", "socket", "timeout", "broken", "protocol"}
    /\ relay \in {"run", "shutdown", "disconnected", "transport", "limit", "protocol"}
    /\ nextId \in 1..(MaxId + 1)
    /\ writers \subseteq Id /\ targets \subseteq Id
    /\ Cardinality(writers) <= MaxStreams /\ Cardinality(targets) <= MaxStreams
    /\ reading \subseteq Id /\ targetReading \subseteq Id
    /\ serverOut \in Seq(ServerFrames) /\ Len(serverOut) <= QueueCap
    /\ relayOut \in Seq(ClientFrames) /\ Len(relayOut) <= QueueCap
    /\ toRelay \in Seq(ServerFrames) /\ toServer \in Seq(ClientFrames)
    /\ caller \in [Id -> {"none", "open", "shut", "gone"}]
    /\ sshd \in [Id -> {"none", "refused", "open", "shut", "gone"}]
    /\ \A f \in {fromCaller, toCaller, fromSshd, wrote, sent, atSshd, atCaller} :
          f \in [Id -> 0..MaxChunks]
    /\ \A i \in Id : fromCaller[i] <= DuplexCap /\ toCaller[i] <= DuplexCap
    /\ nonce \in 0..MaxPings /\ pings \subseteq 1..MaxPings
    /\ Cardinality(pings) <= PingLimit

Init ==
    /\ server = "run" /\ relay = "run"
    /\ nextId = 1 /\ writers = {} /\ targets = {}
    /\ reading = {} /\ targetReading = {}
    /\ serverOut = <<>> /\ relayOut = <<>> /\ toRelay = <<>> /\ toServer = <<>>
    /\ caller = [i \in Id |-> "none"] /\ sshd = [i \in Id |-> "none"]
    /\ fromCaller = [i \in Id |-> 0] /\ toCaller = [i \in Id |-> 0]
    /\ fromSshd = [i \in Id |-> 0]
    /\ wrote = [i \in Id |-> 0] /\ sent = [i \in Id |-> 0]
    /\ atSshd = [i \in Id |-> 0] /\ atCaller = [i \in Id |-> 0]
    /\ nonce = 0 /\ pings = {}

Plus(f, i) == [f EXCEPT ![i] = @ + 1]
Minus(f, i) == [f EXCEPT ![i] = @ - 1]

-----------------------------------------------------------------------------
(* The two ends of a stream: the OpenSSH bridge and the loopback sshd.     *)

CallerWrites(i) ==
    /\ caller[i] = "open" /\ server = "run"
    /\ fromCaller[i] < DuplexCap /\ wrote[i] < MaxChunks
    /\ fromCaller' = Plus(fromCaller, i) /\ wrote' = Plus(wrote, i)
    /\ UNCHANGED <<server, relay, maps, queues, tasks, heart,
                   caller, sshd, toCaller, fromSshd, sent, atSshd, atCaller>>

CallerReads(i) ==
    /\ caller[i] \in {"open", "shut"} /\ toCaller[i] > 0
    /\ toCaller' = Minus(toCaller, i)
    /\ UNCHANGED <<server, relay, maps, queues, tasks, heart,
                   caller, sshd, fromCaller, fromSshd, wrote, sent, atSshd, atCaller>>

\* copy_bidirectional saw ssh close its write side
CallerShuts(i) ==
    /\ caller[i] = "open"
    /\ caller' = [caller EXCEPT ![i] = "shut"]
    /\ UNCHANGED <<server, relay, maps, queues, tasks, heart,
                   sshd, fromCaller, toCaller, fromSshd, wrote, sent, atSshd, atCaller>>

\* The bridge is dropped: ssh ended, the attachment closed, or a timeout.
CallerDrops(i) ==
    /\ caller[i] \in {"open", "shut"}
    /\ caller' = [caller EXCEPT ![i] = "gone"]
    /\ toCaller' = [toCaller EXCEPT ![i] = 0]
    /\ UNCHANGED <<server, relay, maps, queues, tasks, heart,
                   sshd, fromCaller, fromSshd, wrote, sent, atSshd, atCaller>>

SshdWrites(i) ==
    /\ sshd[i] = "open" /\ relay = "run" /\ sent[i] < MaxChunks
    /\ fromSshd' = Plus(fromSshd, i) /\ sent' = Plus(sent, i)
    /\ UNCHANGED <<server, relay, maps, queues, tasks, heart,
                   caller, sshd, fromCaller, toCaller, wrote, atSshd, atCaller>>

\* sshd stops writing
SshdCloses(i) ==
    /\ sshd[i] = "open" /\ relay = "run"
    /\ sshd' = [sshd EXCEPT ![i] = "shut"]
    /\ UNCHANGED <<server, relay, maps, queues, tasks, heart,
                   caller, fromCaller, toCaller, fromSshd, wrote, sent, atSshd, atCaller>>

\* The connection is reset: nothing more can be written to it, and a chunk
\* that the Relay has not read may be lost.
SshdResetsIt(i) ==
    /\ relay = "run" /\ sshd[i] \in {"open", "shut"}
    /\ sshd' = [sshd EXCEPT ![i] = "gone"]
    /\ \E k \in 0..fromSshd[i] :
          /\ fromSshd' = [fromSshd EXCEPT ![i] = @ - k]
          /\ sent' = [sent EXCEPT ![i] = @ - k]
    /\ UNCHANGED <<server, relay, maps, queues, tasks, heart,
                   caller, fromCaller, toCaller, wrote, atSshd, atCaller>>

-----------------------------------------------------------------------------
(* The Server: relay_reader tasks and the branches of run_tunnel's select. *)

\* relay_reader: a chunk, or the end of the caller's writes
ReadCaller(i) ==
    /\ i \in reading /\ server = "run" /\ Len(serverOut) < QueueCap
    /\ \/ /\ fromCaller[i] > 0
          /\ serverOut' = Append(serverOut, Frame("data", i))
          /\ fromCaller' = Minus(fromCaller, i)
          /\ UNCHANGED reading
       \/ /\ fromCaller[i] = 0 /\ caller[i] \in {"shut", "gone"}
          /\ serverOut' = Append(serverOut, Frame("half", i))
          /\ reading' = reading \ {i}
          /\ UNCHANGED fromCaller
    /\ UNCHANGED <<server, relay, maps, relayOut, toRelay, toServer, targetReading, heart,
                   caller, sshd, toCaller, fromSshd, wrote, sent, atSshd, atCaller>>

\* run_tunnel returns and the socket is dropped with the maps and channels.
EndServer(why) ==
    /\ server' = why
    /\ toRelay' = Append(toRelay, Eof)
    /\ writers' = {} /\ reading' = {} /\ serverOut' = <<>>
    /\ UNCHANGED <<relay, nextId, targets, relayOut, targetReading, ends, heart>>

\* Mutant: data that does not fit is dropped.
ServerTriesToSend(f) ==
    /\ Len(toRelay) < WireCap \/ f.type = "data"
    /\ toRelay' = IF Len(toRelay) < WireCap THEN Append(toRelay, f) ELSE toRelay

\* send_frame, when the socket takes the frame in time
ServerSends(f) == Len(toRelay) < WireCap /\ toRelay' = Append(toRelay, f)

\* Mutant: a stream that is closing does not count.
RoomForStreamByReaders == Cardinality(reading) < MaxStreams

\* writers.len() < MAX_STREAMS
RoomForStream == Cardinality(writers) < MaxStreams

\* Mutant: a freed identifier is used again.
LowestFreeId == IF 1 \in writers THEN nextId + 1 ELSE 1

\* next_stream_id.checked_add(1)
FollowingId == nextId + 1

\* TunnelCommand::Open; the requester may have given up on the response, and
\* then the caller's end is dropped unsent.
OpenStream ==
    /\ server = "run" /\ nextId <= MaxId /\ RoomForStream
    /\ ServerSends(Frame("open", nextId))
    /\ nextId' = FollowingId
    /\ writers' = writers \cup {nextId}
    /\ reading' = reading \cup {nextId}
    /\ \E c \in {"open", "gone"} : caller' = [caller EXCEPT ![nextId] = c]
    /\ UNCHANGED <<server, relay, targets, serverOut, relayOut, toServer, targetReading, heart,
                   sshd, fromCaller, toCaller, fromSshd, wrote, sent, atSshd, atCaller>>

\* outbound_rx.recv() and send_route_frame
ForwardToRelay ==
    /\ server = "run" /\ serverOut # <<>>
    /\ ServerSends(Head(serverOut))
    /\ serverOut' = Tail(serverOut)
    /\ UNCHANGED <<server, relay, maps, relayOut, toServer, tasks, ends, heart>>

\* heartbeat.tick()
Heartbeat ==
    /\ server = "run"
    /\ \/ /\ Cardinality(pings) >= PingLimit
          /\ EndServer("timeout") /\ UNCHANGED toServer
       \/ /\ Cardinality(pings) < PingLimit /\ nonce < MaxPings
          /\ ServerSends(Frame("ping", nonce + 1))
          /\ nonce' = nonce + 1 /\ pings' = pings \cup {nonce + 1}
          /\ UNCHANGED <<server, relay, maps, serverOut, relayOut, toServer, tasks, ends>>

\* The barrier or the fence, three silent heartbeats, or a send that blocked
\* for SEND_TIMEOUT.
ServerStops ==
    /\ server = "run"
    /\ \/ EndServer("route")
       \/ toServer = <<>> /\ EndServer("timeout")
       \/ Len(toRelay) >= WireCap /\ EndServer("timeout")
    /\ UNCHANGED toServer

\* StreamData: the writer must be known, and its caller must take the chunk.
ServerData(i) ==
    IF i \notin writers THEN EndServer("protocol")
    ELSE \/ caller[i] = "gone" /\ EndServer("broken")
         \/ caller[i] # "gone" /\ toCaller[i] >= DuplexCap /\ EndServer("timeout")
         \/ /\ caller[i] # "gone" /\ toCaller[i] < DuplexCap
            /\ toCaller' = Plus(toCaller, i) /\ atCaller' = Plus(atCaller, i)
            /\ UNCHANGED <<server, relay, maps, serverOut, relayOut, toRelay, tasks, heart,
                           caller, sshd, fromCaller, fromSshd, wrote, sent, atSshd>>

\* Mutant: any Pong answers every ping.
AllAnswered(n) == {}

\* outstanding_pings.remove(position)
Answered(n) == pings \ {n}

ServerPong(n) ==
    IF n \notin pings THEN EndServer("protocol")
    ELSE /\ pings' = Answered(n)
         /\ UNCHANGED <<server, relay, maps, serverOut, relayOut, toRelay, tasks, ends, nonce>>

\* Mutant: the writer stays until the caller is done too.
KeepWriterOfOpenCaller(i) == IF i \in reading THEN writers ELSE writers \ {i}

\* writers.remove(&stream_id)
WritersWithout(i) == writers \ {i}

\* A frame from the Relay.
ServerReceives ==
    /\ server = "run" /\ toServer # <<>>
    /\ toServer' = Tail(toServer)
    /\ LET f == Head(toServer) IN
       \/ /\ f.type = "opened"
          /\ UNCHANGED <<server, relay, maps, serverOut, relayOut, toRelay, tasks, ends, heart>>
       \/ f.type = "pong" /\ ServerPong(f.id)
       \/ f.type = "data" /\ ServerData(f.id)
       \/ /\ f.type \in {"half", "closed"}
          /\ writers' = WritersWithout(f.id)
          /\ UNCHANGED <<server, relay, nextId, targets, serverOut, relayOut, toRelay,
                         tasks, ends, heart>>
       \/ f.type = "eof" /\ EndServer("socket")

-----------------------------------------------------------------------------
(* The Relay: target readers and the branches of relay_tunnel's select.    *)

\* Mutant: the end of sshd's data is announced as soon as sshd has closed.
DrainedEarly(i) == sshd[i] \in {"shut", "gone"}

\* reader.read returns 0 or an error
Drained(i) == fromSshd[i] = 0 /\ sshd[i] \in {"shut", "gone"}

\* spawn_target_reader: a chunk, or the end of the connection
ReadTarget(i) ==
    /\ i \in targetReading /\ relay = "run" /\ Len(relayOut) < QueueCap
    /\ \/ /\ fromSshd[i] > 0
          /\ relayOut' = Append(relayOut, Frame("data", i))
          /\ fromSshd' = Minus(fromSshd, i)
          /\ UNCHANGED targetReading
       \/ /\ Drained(i)
          /\ relayOut' = Append(relayOut,
                                Frame(IF sshd[i] = "gone" THEN "closed" ELSE "half", i))
          /\ targetReading' = targetReading \ {i}
          /\ UNCHANGED fromSshd
    /\ UNCHANGED <<server, relay, maps, serverOut, toRelay, toServer, reading, heart,
                   caller, sshd, fromCaller, toCaller, wrote, sent, atSshd, atCaller>>

EndRelay(why) ==
    /\ relay' = why
    /\ toServer' = Append(toServer, Eof)
    /\ targets' = {} /\ targetReading' = {} /\ relayOut' = <<>>
    /\ UNCHANGED <<server, nextId, writers, serverOut, reading, ends, heart>>

RelaySends(f) == Len(toServer) < WireCap /\ toServer' = Append(toServer, f)

\* outbound_rx.recv()
ForwardToServer ==
    /\ relay = "run" /\ relayOut # <<>>
    /\ RelaySends(Head(relayOut))
    /\ relayOut' = Tail(relayOut)
    /\ UNCHANGED <<server, relay, maps, serverOut, toRelay, tasks, ends, heart>>

\* ctrl_c, TUNNEL_INBOUND_TIMEOUT without a frame, or a send blocked for
\* IO_TIMEOUT.
RelayStops ==
    /\ relay = "run"
    /\ \/ EndRelay("shutdown")
       \/ toRelay = <<>> /\ EndRelay("disconnected")
       \/ Len(toServer) >= WireCap /\ EndRelay("transport")
    /\ UNCHANGED toRelay

\* The check of OpenStream, then the connect and its outcome.
RelayOpen(i) ==
    \/ /\ Cardinality(targets) >= MaxStreams \/ i \in targets
       /\ EndRelay(IF i \in targets THEN "protocol" ELSE "limit")
    \/ /\ Cardinality(targets) < MaxStreams /\ i \notin targets
       /\ RelaySends(Frame("opened", i))
       /\ targets' = targets \cup {i}
       /\ targetReading' = targetReading \cup {i}
       /\ sshd' = [sshd EXCEPT ![i] = "open"]
       /\ UNCHANGED <<server, relay, nextId, writers, serverOut, relayOut, reading, heart, caller,
                      fromCaller, toCaller, fromSshd, wrote, sent, atSshd, atCaller>>
    \/ /\ Cardinality(targets) < MaxStreams /\ i \notin targets
       /\ RelaySends(Frame("closed", i))
       /\ sshd' = [sshd EXCEPT ![i] = "refused"]
       /\ UNCHANGED <<server, relay, maps, serverOut, relayOut, tasks, heart, caller,
                      fromCaller, toCaller, fromSshd, wrote, sent, atSshd, atCaller>>

\* StreamData: an unknown stream is a protocol error, a failed write a
\* transport error.
RelayData(i) ==
    \/ i \notin targets /\ EndRelay("protocol")
    \/ i \in targets /\ sshd[i] = "gone" /\ EndRelay("transport")
    \/ /\ i \in targets /\ sshd[i] # "gone"
       /\ atSshd' = Plus(atSshd, i)
       /\ UNCHANGED <<server, relay, maps, serverOut, relayOut, toServer, tasks, heart,
                      caller, sshd, fromCaller, toCaller, fromSshd, wrote, sent, atCaller>>

\* A frame from the Server.  Shutting the write side down makes sshd see the
\* end of its input.
RelayReceives ==
    /\ relay = "run" /\ toRelay # <<>>
    /\ toRelay' = Tail(toRelay)
    /\ LET f == Head(toRelay) IN
       \/ f.type = "open" /\ RelayOpen(f.id)
       \/ f.type = "data" /\ RelayData(f.id)
       \/ /\ f.type = "half"
          /\ targets' = targets \ {f.id}
          /\ UNCHANGED <<server, relay, nextId, writers, serverOut, relayOut, toServer,
                         tasks, ends, heart>>
       \/ /\ f.type = "ping" /\ RelaySends(Frame("pong", f.id))
          /\ UNCHANGED <<server, relay, maps, serverOut, relayOut, tasks, ends, heart>>
       \/ f.type = "eof" /\ EndRelay("disconnected")

-----------------------------------------------------------------------------
ServerSteps ==
    \/ OpenStream \/ ForwardToRelay \/ ServerReceives
    \/ \E i \in Id : ReadCaller(i)

RelaySteps ==
    \/ ForwardToServer \/ RelayReceives
    \/ \E i \in Id : ReadTarget(i)

Ends ==
    \E i \in Id :
        \/ CallerWrites(i) \/ CallerReads(i) \/ CallerShuts(i) \/ CallerDrops(i)
        \/ SshdWrites(i) \/ SshdCloses(i) \/ SshdResetsIt(i)

Next == ServerSteps \/ RelaySteps \/ Ends \/ Heartbeat \/ ServerStops \/ RelayStops

Spec == Init /\ [][Next]_vars

-----------------------------------------------------------------------------
Running == server = "run" /\ relay = "run"

\* The chunks of stream i in a queue of frames.
Chunks(q, i) == Len(SelectSeq(q, LAMBDA f : f.type = "data" /\ f.id = i))

(* While both loops run, every chunk the caller has written is in its      *)
(* duplex, in run_tunnel's channel, on the wire or written to sshd, and    *)
(* every chunk sshd has written is likewise accounted for: no branch of    *)
(* either select loses or repeats one.                                     *)
NothingLost ==
    Running =>
        \A i \in Id :
            /\ wrote[i] = fromCaller[i] + Chunks(serverOut, i) + Chunks(toRelay, i) + atSshd[i]
            /\ sent[i] = fromSshd[i] + Chunks(relayOut, i) + Chunks(toServer, i) + atCaller[i]

(* A caller is shown the end of its stream only after all that sshd wrote: *)
(* run_tunnel removes the writer on the frame the target reader sends      *)
(* last, however the two channels and the socket interleave streams.       *)
EndIsLast ==
    Running =>
        \A i \in Id : (i < nextId /\ i \notin writers) => atCaller[i] = sent[i]

(* run_tunnel never meets a frame it must refuse from a Relay that follows *)
(* relay_tunnel: neither data of a stream it has forgotten nor a Pong it   *)
(* is not waiting for.                                                     *)
ServerNeverRefuses == server # "protocol"

(* run_forever retries whatever ends a tunnel except a protocol error,     *)
(* which ends the Relay process.  Apart from a stream it has no room for,  *)
(* a Relay meets one only after sshd refused a connect: no order of data,  *)
(* half-closes and reopened streams leads to it otherwise.                 *)
RelayNeverRefuses == relay = "protocol" => \E i \in Id : sshd[i] = "refused"

(* Closing one caller ends its own stream and not the tunnel that carries  *)
(* the others.                                                             *)
DropIsLocal == server # "broken"

Under(way, types, i) == \E k \in DOMAIN way : way[k].type \in types /\ way[k].id = i

(* No stream slot is leaked: while both loops run, the Relay keeps a       *)
(* target only until the reader of its caller, or the half-close that the  *)
(* reader sent, ends it, and the Server keeps a writer only until the      *)
(* connect, the target reader or that reader's last frame does.            *)
SlotsReturn ==
    Running =>
        \A i \in Id :
            /\ i \in targets => i \in reading \/ Under(serverOut \o toRelay, {"half"}, i)
            /\ i \in writers => \/ i \in targetReading
                                \/ Under(toRelay, {"open"}, i)
                                \/ Under(relayOut \o toServer, {"half", "closed"}, i)

=============================================================================
