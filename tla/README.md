# hexing-open-live-server: a TLA+ project

The repository is an RTSP server for Windows, with a sample client.  It reads an H.264
file again and again, cuts it into NAL units, and sends them as RTP packets over UDP to
whoever asked for the stream over an RTSP connection.  These modules model the parts of it
that decide something, TLC checks them on small instances, and TLAPS proves what matters
most about the shared stream, the life of sessions and what they answer, the requests on the
control connection, the end of the process, the packets of all six kinds of stream, the pace of
the feeder, the pools of buffers and the paced sender, for every value of the constants.

## The system

| component | source | state | operations | models |
|---|---|---|---|---|
| shared stream | `Rtsp/MediaStream.cpp` | `m_bInit`, `m_bSetup`, `m_bRun`, `m_pRtpTransport`, `m_tlockRun` | `Init`, `TransportSetup`, `Start`, `Stop`, `Teardown` | `MediaStream`, `OrderlyClients`, `StreamGate` |
| H.264 packetizer | `Rtsp/MediaStreamH264.cpp` | the frame, the unit, the fragment | `TransportData`, `TransportH264Nal` | `MediaStream` (threads), `H264Packets` (bytes) |
| RTSP transport | `Rtsp/RtspTransport.cpp` | list of sessions, listen thread, stop event | `Open`, `Close`, listen loop | `RtspTransport` |
| session | `Rtsp/RtspSession.cpp`, `RtspResponse.cpp` | thread, stop event, names, URLs | one handler per method | `RtspTransport` (life), `RtspSession` (requests) |
| media sessions | `Rtsp/MediaSession.cpp` | names and streams | look-ups | `RtspSession` |
| control connection | `Rtsp/Rtsp.cpp`, `Network/Socket.cpp` | the line being read, `m_CSeq` | `Read`, `Write` | `RtspExchange` |
| client | `Rtsp/RtspRequest.cpp` | `m_State`, `m_CSeq`, responses | `Request...`, `GetResponses`, `GetDescribe` | `OrderlyClients`, `RtspExchange` |
| feeder | `RtspService/RtspService.h`, `h264.h` | file position, three buffers, parameter sets, pacing | one thread | `Feeder`, `AnnexB` |
| other packetizers | `Rtsp/MediaStreamMP4V.cpp`, `MP4A`, `MP4ALatm`, `AMR`, `H263` | the frame, what is left of it, the packet | `TransportData` | `Packetizers` |
| buffer pool | `Include/VBuffer.h`, `VBufferT.h` | two lists and three counters | `Add...`, `Get...`, `SetData`, `GetData` | `VBuffer`, `ByteQueue` |
| service | `RtspService/RtspService.cpp` | the objects and their order of deletion | `main`, `Open`, `Release` | `RtspService` |
| paced sender | `Rtsp/RtpTransport.cpp` | pool, thread, stop event, pace | `Setup`, `Run`, `Stop`, `SetRtpData` | `RtpTransport` |

How they interact.  `main` makes one stream, puts it in one media session, and starts two
threads: the feeder and the listen thread.  The listen thread makes a session, with a
thread of its own, for every connection.  Session threads call the stream's
`Transport...` methods for their clients while the feeder calls `TransportData`; the
stream's `m_tlockRun` guards `m_bRun` and the packet loop, but not the delete and new of the
transport.  `Close` and the listen loop delete sessions, whose destructors signal the session's thread
and join it, however long it reads.  An `RtpTransport`, which this build never makes (`MediaStream.cpp` 47 is
commented out), would stand between the stream and the socket, with a thread that empties a
pool of buffers at a limited pace.

What is hard: the unlocked transport under several sessions; stop against the packet loop;
the life of session objects between three kinds of threads; one auto-reset event that two
parties set; reads that give up after half a second in the middle of a message; buffers
that are reused, and change hands between threads; a clock that wraps; clients that vanish;
boundaries of reads and of packets.  `PROJECT.json`
lists these hazards at their lines, with the properties that would catch each.

What makes each component correct:

* stream: no packet outside start and stop, no unit cut, no wild pointer, packets for the
  client being served only, every request returns;
* packetizers: the receiver has the frame, each byte once and in order, headers that say what
  its format wants, the marker with its end, and no packet too long;
* transport and sessions: no thread without its object, nothing lost or deleted twice,
  nothing served after TEARDOWN; and, if requests end, `Close` returns and a client that is
  gone is forgotten;
* requests: an answer of 200 is true, silence only where there is no way to succeed;
* connection: no request served twice or answered with another's number, and a client that
  knows what became of each request, be it an answer, an error or silence;
* feeder: frames have their units, follow `Init`, are not early, have times of their own; a
  unit cut by a read costs no other; the thread stops;
* paced sender: one owner for each buffer, packets in order, a bounded queue that moves, and
  nothing sent once `Stop` has returned;
* process: nothing used behind its deletion, nothing left behind, a key ends it (the code has
  exceptions to each, and the properties name them);
* pool: a first-in first-out queue of bytes with true counters.

## The modules

**`StreamGate`** says what a stream promises: start and stop are atomic, packets leave only
in between, and never a part of a unit.

**`MediaStream`** has the shared object at the grain of one access to what threads share.
Each session is at a place `pc[s]` in one of the four methods; the feeder is in
`TransportH264Nal`.  `TransportSetup` is the steps `SetupDelete`, `SetupNew`, `SetupOpen`,
`SetupConnect`, `SetupDone`; `SetupOpen` and `SetupConnect` may fail.  The `Rtp` objects
live at `Address`es, so that a pointer may dangle: an access through such a pointer either
goes unnoticed or kills the process (`Crash`, after which `fault` holds).  The lock is
`Lock` and `UnLock`; `TransportStart` is `StartLock` and `StartRun`, the packet loop is
`NalLock`, `NalSplit`, `LoadTransport`, `WritePacket`, `NalUnlock`.

**`OrderlyClients`** composes it with clients that behave like `RtspClient.cpp` and come one
after the other: SETUP, PLAY and PAUSE any number of times, TEARDOWN.  Under these, and
these only, the unlocked delete and new are harmless, and that is proved.  A client may also
be gone at any moment between two requests (`Vanish`): its session ends without a word to the
stream (`RtspSession.cpp` 54-58), which goes on running if it ran.  `abandoned` says that it
does; then the feeder may meet the transport that the next SETUP deletes, until a stop takes
the stream from it.  For clients that do not take turns `MediaStream` keeps the crash as an
outcome, and `MediaStream`'s own run shows what holds even so.

**`RtspTransport`** has the thread that calls `Open` and `Close`, the listen thread and one
thread per session.  A session is named by its client, who connects once.  `ReapClosed` is
the erase with its `i--` and `i++` on an unsigned index; `DeleteSignal` and `DeleteJoin` are
the destructor; the two auto-reset events are Booleans that a wait clears.  A thread that has
seen its event unset is in `GetRequests`, which takes line after line (`ReadLine`) until it
meets an empty one, half a second without a byte (`ReadEnd`), or the end of the connection
(`ReadClosed`), and looks at nothing else meanwhile.  Clients send lines for ever if they like; a
line that has no end is like lines that have none.
The constructor leaves the socket as memory was, and an `Open` that fails may leave its own behind
(`stale`), which `Close` does not close.  What a request
does is left out, except that a TEARDOWN sets the session's own event.

**`RtspService`** has `_tmain` from place to place, with the deletions that a deletion
brings: `delete` of the transport closes it (`Close`, `JoinListener`, `DeleteSession`,
`Closed`), and then its base class deletes the media session and that the stream: first
`~MediaStreamH264`, which frees `m_Packet` without the lock (`FreePacket`), then
`~MediaStream`, which stops the stream under it (`StopStream`), then the memory (`FreeStream`).
`delete` of the service is `Release` and `JoinFeeder`.  The
other threads are there as far as they use these objects.  The states of `stream` say what is
left of it, and each step of the feeder what it needs of that (`Uses`) and what becomes of it
without (`Misuses`): in `Init` the strings and the class itself, at `TransportData` the class,
whose own is pure virtual by then and ends the process, in a fragment `m_Packet`, for the lock the memory.
A misuse goes unnoticed, gets stuck on the lock, or ends the process; the second deletion of
both objects (`DeleteAgain`) goes unnoticed or ends it.  `audio` is the other stream that
`_tmain` makes (line 33) and, line 37 being commented out, gives to nobody.

**`RtspSession`** has what a request does.  A URL is a sequence of segments, of which the last
stands for all that is behind the second '/' of the path; a stream is its name; `thread[s]` is the
request in progress with the streams still to call, and a call of a stream is one step, so that the calls of two sessions interleave.  `Scan` is the loop over
ports.  `Udp::Open` sets `SO_REUSEADDR`, so only a port another program holds exclusively is
`taken`; `Udp::Connect` fails only for client port 0.  As in the code, GET_PARAMETER is not
answered, PLAY is answered 200 though `TransportStart` may refuse, and a TEARDOWN that is
refused ends the session too.

**`RtspExchange`** has `Rtsp::Read` one `Socket::Read` at a time, on both ends.  A byte of
the model stands for a part of a line that nothing cuts in a way that matters.  A read that
gives up ends a line, and an empty line ends a message, whether it was sent or not.  The
variable `c` is uninitialised in the code until a byte arrives: it is any member of
`garbage`.  A world is timely if bytes under way arrive before a read gives up.  `Serve` is the
dispatch with its handler: what the streams decide (`RtspSession` has how) is here any of an
answer of 200, an error and silence that the kind of the request allows (`Outcomes`).  Behind a
TEARDOWN, refused or not, the session ends and its socket is closed (`HangUp`), and what the client
asks then comes to a read that fails (`ReadFails`); TCP may also drop answers not read yet (`Reset`).  The client
asks for what its `m_State` allows; GET_PARAMETER, which it can ask and the server never
answers, is not among it, since the sample client does not.  `Close` of the server in the middle
of a request is in `RtspTransport` only.  `ReadBody` leaves out what a failing read does to the
heap (a zero in front of the buffer, `RtspRequest.cpp` 193).

**`AnnexB`** has the functions on bytes that `H264Packets` and `Feeder` share: start codes,
types, the split into units.  **`H264Packets`** is `TransportData` for one frame while the
stream runs, packet by packet, with single units and FU-A fragments.  **`Feeder`** is
`H264File_Read2SendThread`: the outer loop reads and splits (`Read`, `Rewind`, or a `ReadFile`
that fails and is ignored), the inner one
takes a unit (`Take`), waits (`Leave`) or restarts its count when the tick count went back
(`Restart`).  `SendFrame` gives the frame its time (`h264_get_pts_rtp`), counted in fields of
half a frame; a byte of the unit stands for what the head of a slice says.  The history
variables `first` and `held` say which units of the file the frame buffer ought to have, and
`shown` which times have been given since the count began.

**`Packetizers`** is `TransportData` of the five streams that do not look for start codes.
They are one loop with different headers, so the model is one loop over the places of the
bytes of a frame, with an operator for each thing they differ in (`Reserved`, `Begin`,
`Length`, `Counted`, `Header`, `Skipped`).  For AAC the size of the argument and the length in
the ADTS header are one number, as they are for a caller that hands over one whole frame; nothing
in this repository calls it.  What a receiver makes of the packets
(`ReceivedAs`) is written from the payload formats.  **`MCPackets`** puts it beside
`H264Packets` in a program that sends one frame at a time through a stream of any kind.

**`RtpTransport`** is the paced sender: the thread that calls `Setup`, `Run`, `Stop` and the
destructor, the feeder in `SetRtpData` (`FeederGet`, `FeederFill`, `FeederAdd`), and the
sending thread.  An operation of the pool holds its lock (`VBufferT.h`) and is one step; a
buffer between two of them belongs to the thread that took it; there is memory for what the
limit lets in (`MemoryAssumption`).  `Setup` and the destructor
begin with a `Stop`, so `after` says where it goes on.  `Tick` and `Wrap` are the clock.

**`VBuffer`** is the pool: the two lists, the three counters, and every operation on them;
each buffer has memory, the place where its data begin, and how many they are, since
`FillData` writes at one place and readers read at the other.  **`ByteQueue`** is what it
promises.

Modules that begin with `MC` give the constants their values for TLC.  An operator whose
comment stands in parentheses, `(The buffer not cleared after a frame.)`, is the code with a
mistake in it; nothing uses it, and `PROJECT.json` names the property that finds it.
The types are part of the invariant whose name ends in `Inv`.

## The runs

| run | instance | what it shows |
|---|---|---|
| `media_stream` | 2 sessions, 2 addresses, 2 units of 2 fragments, symmetry | the lock excludes, `m_bRun` stays TRUE while a unit is sent, and `StreamGate` is implemented, whatever the sessions ask for |
| `orderly_clients` | 3 clients, 2 addresses, 2 units of 3 fragments | no wild pointer, no leak, no packet for somebody else, every request returns; and what is left of this after a client vanished |
| `rtsp_transport` | 2 clients that send any lines, 1 at a time under way, room for 1 or 2 sessions | the life of sessions; if reads end, `Close` returns and sessions of clients that left are deleted |
| `rtsp_service` | 2 clients | what is being deleted is misused in the known ways only; if reads end, and nothing is misused, a key ends the process |
| `rtsp_session` | a media session of 2 streams, 2 ports; 1 client with every form of URL and any ports taken, or 2 clients that interleave | a 200 is true of the streams nobody else called since; RTP-Info, silence and port scan |
| `packets` | H.264: every frame of up to four pieces out of nine, payload of 4; the others: every size up to 600, payload of 100 | the receiver's frame, the marker, the packet size |
| `feeder` | a file read in one piece or in pieces of 35 bytes, 2 ticks for a frame, ticks modulo 12, 21 ticks | frames have their units, come after `Init`, are not early, have times of their own; reading resumes behind a cut; a stop ends the thread |
| `rtp_transport` | 4 buffers, packets of 6, 1400 and 1600 bytes, 3 packets, 3 ticks, one wrap | one owner, order, the limit, quiet after `Stop`, `Stop` returns, the queue moves |
| `rtsp_exchange` | DESCRIBE, TEARDOWN, SETUP; a timely world and one where any read may give up and `c` is CR | no request served twice or answered for another; each call returns; in time each call tells what the server did |
| `vbuffer` | strings of 1 and 2 bytes, 4 bytes of memory | a queue of bytes, true counters |
| `feeder_stale`, `exchange_body` | a file of a long and a short frame; a description in pieces | disagreements of the code with its comments, below |

The bounds and why they are enough.  Two sessions and the feeder are all the roles there are
on one stream; the third orderly client shows that a turn passes on past the first two, and
two addresses let a new object lie where the old one did or not.  Two fragments have a first
and a last, three a middle.  Two sessions in the list are needed to skip one.  Clients of
`rtsp_transport` send as many lines as they like, so a request may follow a TEARDOWN; one line under
way at a time (`MaxInbox`) is enough to keep a thread in its read or to let it pause.  `Limits` has a limit both below and at
the number of clients, so that the full list is met.  Two ports let the scan meet a taken
port before a free one and after it.  The pieces of a frame are start codes of three and four
bytes, headers of slices, SEI and parameter sets, and bytes that look like parts of a start
code; a payload of 4 makes units of one, two and more packets and units right at the limit.
Sizes up to 600 with a payload of 100 make up to seven packets of each kind, every size right at
a packet's limit, and LATM lengths of one, two and three bytes.
The file of `feeder` has an unusable and a usable SPS, SEI, an access unit delimiter, frames
of one and of several units, a B picture behind the P picture it is shown before; pieces of 35
bytes cut it in the middle of a unit, and elsewhere each time round; the clock passes its range.
With limits of 10 bytes and of 1000 bytes a tick, packets of 6, 1400 and 1600 bytes fill the queue
by twos, pass its limit at once, are too long, and go too fast; three of them and four buffers let
a buffer be used again.  Three requests of `rtsp_exchange` have one that is followed by a
description, one that ends the session, and one made when the server is gone or about to go; a first
request cut by a read has a second behind it, and a `c` that is CR may do what any other does, by
giving up once more.  Pool memory of 4 lets a
string lie across two buffers and in part of one.  `MaxUrls`, `MaxClock`, `MaxInbox`,
`MaxAsks`, `MaxBytes`, `MaxNals`, `MaxFragments`, `MaxPackets`, `MaxElapsed` and `MaxWraps` are
bounds of the models only.

Runs without deadlock check are those whose system may stop: every session ended, the file
read until the clock's bound, all requests made.

Fairness.  `RtspTransport`, `RtspExchange`, `RtspSession`, `Feeder` and `RtpTransport` assume weak
fairness of each thread's steps and nothing of clients: the operating system runs a thread that can
run.  `RtpTransport` assumes it of the clock's ticks too, which the pace waits for, and of the
caller only that it comes back from its wait.  `RtspService` does too, except of the end of a read,
which is up to the client, and adds strong fairness where it has left out why a loop
ends: that the feeder comes out of a frame and out of its inner loop (the bytes of a frame
are finite; `StopEnds` of `Feeder`), and that `~MediaStream` gets the lock.
No fairness could say that a read ends: `GetRequests` has no bound (`RtspResponse.cpp` 150-157), and a
client that never pauses keeps the session's thread from its event, and so `Close`, the listen
thread's other work and the end of the process.  So `CloseReturns`, `DisconnectedIsReaped` and
`ShutdownEnds` have it for a hypothesis that every session is outside its read again and again.  With
clients that pause for half a second now and then it is true, and TLC meets both.
`OrderlyClients` assumes in addition strong fairness of the steps that take `m_tlockRun`: a
Windows critical section is not first-come first-served, but the feeder sleeps outside it between frames (`RtspService.h` 76-79), so a waiter finds it free again
and again.

## The proofs

| module | is about | besides types |
|---|---|---|
| `MediaStreamProofs` | `MediaStream`, `OrderlyClients` | the gate and `StreamGate`; no wild pointer, no leak, no packet for somebody else |
| `RtspTransportProofs` | `RtspTransport` | threads keep their objects, the list is complete, quiet behind `Close`, nothing after TEARDOWN |
| `RtspSessionProofs` | `RtspSession` | answers hold, RTP-Info, silence |
| `RtspProofs` | `RtspExchange` | the server reads in order; each request is answered once at most, with its number; in a world in time the client knows what became of it |
| | `RtspService` | what is being deleted is misused in the known ways only; what is left when `_tmain` returns |
| `PacketizersProofs` | `Packetizers` | the receiver's frame, the marker, the packet size |
| | `H264Packets`, `AnnexB` | the same of H.264, and the lemmas on the split of bytes into units |
| | `Feeder` | no frame is early, or before `Init`; frames have their units; only reads cut units |
| `RtpTransportProofs` | `RtpTransport` | quiet behind `Stop`; one owner, order, the limit |
| `VBufferProofs` | `VBuffer`, `ByteQueue` | the counters are sums; `ByteQueue` is implemented |
| `ListLemmas` | `Sums`, lists | sums of lists, induction, elements, flattening |

What they assume is only what the modules' `ASSUME`s say.  Of `MediaStream`: the feeder is not a
session, nobody is not a thread, NULL is not an address, the two bounds are positive.  The sets of
sessions, clients, addresses, buffers and requests are arbitrary, infinite ones included; so are
the streams of a media session, as long as none is in it twice, the range of ports, as long as it
has one, and who may ask for what.  Of a frame `Packetizers` assumes only that its length is one
its format has, and that a packet has room for more than 12 bytes.  Of an H.264 frame
`H264Packets` assumes bytes and, where a start code is not at the very end, a header behind it whose
first bit is 0 and whose type is one of H.264's (`H264WellFormed`: what a coder makes; a type of 24 or
more, or that bit, would be read by RFC 6184 as something else), and of the MTU room for a fragment
with a byte in it.  The file of `Feeder` may be any for its types and its pace; what is said of its units
supposes what a coder makes, in the theorem and not in the module: behind a start code is a header,
which is no zero (`Coded`), for `FramesFollowInit` that a file which is read in parts has its parameter sets
in the first (`SetsAreRead`), and for `FramesHaveTheirUnits` that nothing is left of the file
when it has been cut, and that behind both sets comes a slice which ends a frame (`PlayableFile`), and
for `CutUnitsAreWhole` that the file begins with a start code and does not end with a zero, and that
its units have headers also where it follows itself (`RepeatableFile`).
`MCFeeder` has TLC evaluate that the files of the runs are like that.  `RtspExchange` assumes nothing of the world but that its fields are what they
are.  `RtpTransport` assumes that
packets have sizes, and that the memory (the set `Buffer`) suffices for a full queue of the smallest
ones and one each in the hands of the two threads: a failing `new` is not modelled.  The bounds that
are for TLC are constants in the proofs, with any value.

*The gate.*  `Inv` is `TypeOK`, `LockOwner`, `GateHeld` and `InFlight`.  `LockOwner` is
inductive with types: each step stays on its side of the lock, takes it as it enters, or
gives it up as it leaves (`StepKeeps`, `StepEnters`, `StepLeaves`).  `GateHeld` needs it: the
only step that clears `m_bRun`, `StopRun`, holds the lock, so the feeder is not inside.
`InFlight` ties the last packet to the fragment counter.  From the three, every step is a
step of `StreamGate` or leaves it alone (`GateRefinesStep`, `ImplementsGate`).  Nothing is
assumed of the order of requests, so this is true also where pointers dangle.

*Orderly clients.*  `NoWildAccess` is not inductive: it must be known why a pointer is
whole.  `OrderlyInv` says that at most one client has the stream, what the object looks like
at each place of that client's session (`Progress`), that the stream runs only for a playing
client or for one that vanished, and that the pointer the feeder has loaded is the current one,
unless one vanished.  Its proof goes by the
one session that has its turn (`OwnerView`, `OwnerSuffices`), for which it has no quantifier
left that its steps disturb, and uses `GateHeld` where the transport is replaced: the feeder
is not in the middle of a `Write` then.  `NoWildPointer`, `RunningStreamIsConnected`,
`NothingLeaks` and `PacketsServeTheClient` follow.

*Packets.*  `LoopInv` gives the state of the loop in closed form: after `i` turns there are `i`
packets, the k-th begins `(k - 1) * i_max` bytes behind the first, and what is left is what the
frame had less that, or nothing.  That the next turn keeps it needs products of unknowns, so the
arithmetic stands in lemmas of its own (`RoundedUp`, `SentNext`, `SentAll`).  At the end the count of packets says
that nothing is left; for AAC, counted from 7 bytes more than are sent, the lemma is that one packet
too many is the most, and `PacketSizes` has it.  `FramesArrive` reads the receiver's frame off
the closed form; for LATM it adds up the bytes of the length.

*H.264.*  What the code finds unit by unit and what the reference finds by positions (`Units`) are two
scans of the same bytes, so the proof begins with lemmas on both: the units of data are those that
start before a start code and those that start from it on (`UnitsSplit`), a start code has three
bytes that no other shares, so the next one past the header is the next at all, and the zero that
`Size` leaves out is the one that the reference leaves out (`FirstUnit`).  `H264Inv` then says, between
any two packets: what is not looked at yet begins with a unit, and its units are the last of the
frame's (`Ahead`); the fragments to come are those of what is left of the unit (`UnderWay`); what a
receiver has made of the packets, with the unit under way completed (`Complete`), and what is to be
sent of the rest are together what is to be sent of the frame (`Arrived`); a marker is where the frame
ends (`Marked`).  `Arrived` is inductive since `Received` looks at packets one by one (`ReceivedNext`).
At the end nothing is left, and `H264FramesArrive` is `Arrived` and `Marked` read there.

*The pace.*  That a frame is not early is an action property (`NotEarly`), and follows from what the
tick count shows: it began its count at the time `began`, so `i_begin_time` is `began % TickRange`
(`PaceInv`), and as long as the count has not gone back it shows no more time than has passed
(`NotMoreThanPassed`), also if it went round and past where it was.  The file may be any, and so may
its frames.

*The feeder.*  `h264_split_nal` cuts by what comes next, `NalsOf` says by positions what the units of
a file are.  `SplitIs` brings them together: what is cut off are the first units, and what stays
in `h264_buff` is an end of the bytes, of four at the most.  It is an induction over the places where
the function cuts (`CutsExist`, from the end of the bytes to their beginning; then `OneCutMore` from the
beginning on, `AllCutsWell`), and rests on the lemmas of *H.264*.  The theorems stand on it and on the
types, which are inductive (`FeederTypes`).  That no frame is sent before `Init` is so since
nothing is sent before a PPS was met and the PPS that is met first finds the SPS known; until that
PPS is taken the list begins with the sets, or nothing has been read yet (`SetsInv`).  This is why
the first read matters, and no other: what it cuts goes behind what is there.  For the units of
frames, the file being read whole, `WholeFileInv` numbers what has been taken: `q` turns of the file
and `r` units of the next.  What is in the list is at the places from there on, round and
round (`Places`), so the unit that is taken is the one behind `r` (`PlacesTail`); `first` and `held`
add up to the gathered units of `q` turns and `r` units (`Gone`, `NextIs`), so it is the one
that the frame has to have next (`FrameData`).  That a frame never has more than one turn is in none of
these: it needs that the last frame to end did so behind the last closing slice passed (`FramesEnded`), for which
both sets must be known from there on (`SetsSeen`).  In a file without such a slice nothing is ever
sent, and the frame's buffer grows without bound.

*Cuts.*  A file that is longer than a read comes in pieces, and goes round: what there is to split
is always a piece of the file with the file behind it (`PieceAt`, of `Twice`), since what is left in
`h264_buff` ends where the next read begins, also past the end of the file (`BuffIsPiece`).  A unit that
a read cuts, if it is not the last, has another start code behind it in that piece
(`UnitHasPlace`), and then it is the same unit in the file, up to the same start code or to the
file's end (`UnitOfPiece`): no start code lies across the end, and none of the file's own bytes is
taken for the zero in front of the next one.  So `CutUnitsAreWhole`, wherever reads end.

*The connection.*  A message is over for the server when a read gives up, so it may take a part of a
request for a request and the rest for the next.  That nothing is answered twice all the same, and
with no other request's number, is in the bytes: each request is nine of them, of which one names the
method and one the number.  The invariant (`IInv` in `RtspProofs`) goes by the place in the stream of
requests that the server has read to (`Position`): what is under way to it is the rest
(`RequestsUnderWay`); at each place what it keeps, in the line or in the lines, is of one request, and
without its method if that was answered (`ServerReads`, `MessageOf`); only what has been read was
answered (`Answered`); and no number is larger than the requests made (`ClientCounts`).  The places
matter: behind the bytes that end a line the line is empty, or what is kept of one request could be
joined with the next.  The one hard step is a read that takes the CR in `c` for one it has just read
and with it the first byte of the next request: it loses the method, so that request stays unanswered.

`TheAnswerFits` is about the worlds without any of this, and has an invariant of its own (`InTimeInv`,
under the hypothesis `InTime` that the property states): one request at a time is under way.  Where
it is read, `RequestIsRead` says, the client has nothing; where its answer is, 200 or an error,
`ReplyIsRead`, the server waits, which it does by giving up reads of nothing and serving what is no
request, or it has left; where it has said nothing, or is gone, `NoReply`, the client has nothing either
and gives up, or its read fails.  The first two say
with tables what an end has in hand behind each byte (`RequestStates`, `ReplyStates`); that
the tables are what `Rtsp::Read` makes of the bytes (`RequestFollows`, `ReplyFollows`) is computed once,
without a state, and one lemma goes from each entry to the next (`ReadsMessage`).  That no read gives up
in between is the hypothesis at work: bytes are there (`RestTail`), or, for the client, the server is
not idle (`ClientWaitsForReply`).  So what a call returned is what became of the request
(`ResultFits`), and an error, a silence and the end of the session are told from an answer.

*The life of sessions.*  Whether a session may be deleted depends on three threads, so the invariant
of `RtspTransport` is in four parts.  `Turns` says where the caller and the listen thread can be at a
time (`Close` walks the list only behind the end of the listen thread); `Waiting`, that a client is
once in the backlog and has no session yet; `Lives`, what a session's thread may still do by what has
become of its object, where a thread that served a TEARDOWN and has not ended finds its own event set;
`ListInv`, that what is in the list is alive and there once, which the walk with `i--` and `i++` must
keep for the ones it has not seen.  `NothingAfterTeardown` is an action property and follows from
`Lives`: the auto-reset event is also set by the destructor, but taken by nobody else.
None of this supposes that a read ends; only what is model-checked of `Close` and of clients that are gone does.

*Requests.*  What an answer of 200 says comes about stream by stream, and other sessions' calls come
in between, so the invariant (`IInv`) says it of every request in progress: the streams that are not
left to call have what the answer will say (`Done`), as long as no other session calls them, whereupon
they are no longer `mine`.  `Working` keeps that what is left of a SETUP ends with the last stream that
it names, so that the port in the answer is that stream's.  For the silence of a SETUP the scan is the
induction: all ports below the one to try were taken, unless the SETUP must fail anyhow (`Scanned`),
and two further is the next port or there is none (`NextPort`).  The proof has one lemma for a session
that others disturb (`OthersKeep`), one for a session that gets a request, of whatever method
(`ArrivalKeeps`), and one for each step of a request.

*The pools.*  The counters of `VBuffer` are sums over its lists, and `PoolInv` is inductive only with
what `IInv` adds: an empty buffer begins at its memory, since `FillData` does not set `m_pData`; no
buffer in a list is without memory, and no full one without data, or `GetData` and `SetData`, which
work out first how many buffers they need, would take one off an empty list.  Each operation takes
buffers from the front of one list and puts them at the end of another, which `ListLemmas` has for
sums and for the bytes in a row; so `GetData` of n bytes is `Take` of n bytes, and the others are
`Put`, `Clear` or a stutter (`ImplementsByteQueue`).  `ListLemmas` proves what it says of sums by
induction, which it proves first, as a statement about sets (`Induction`): a set of numbers with 0
and every successor has them all, since the numbers up to one that is missing, 0 left out, would be
as many as with it.

*The paced sender.*  `StoppedIsQuiet` holds since `m_bRun` is set behind the making of the thread
and cleared behind its end, and is set only while the caller is out of every method or waits
(`QuietInv`); the thread comes to life in one place, where `m_bSetup` says that the Rtp is open, and
`m_bSetup` goes before the Rtp does.  `RtpTransportProofs` has one case for each step of the caller,
and shows that the feeder and the thread itself disturb nothing.  For the pool the invariant says who
has each buffer (`HeldWhile`, `Owned`), what the feeder is about to add (`Incoming`), that the counter
is the sum of what is queued, and the numbers of the packets from the last one sent over the one in
hand to the newest (`Ordered`).  The limit is checked before a packet is added and there is one feeder,
so the queue exceeds it by a packet at most; that bounds how many buffers are queued, and so how many
are ever made (`QueueInv`), for an empty one is used again before another is made.

*The process.*  `Phases` says what there is at each place of `_tmain`, and is inductive with
`TypeOK` (`ServiceInv`).  The chain that matters: a thread of a session means an open transport, an open
transport means a live stream, and `Closed` waits for the threads before it says otherwise;
likewise `JoinFeeder` before the service is freed.  `ThreadsHaveTheirObjects`
(`NothingDangles`) and `ReturnsClean` (`ProcessEndsClean`) follow in a step each; the latter says that the
audio stream is what is left of the objects, always.  `FaultsOnlyThere` (`NoOtherFault`) follows since
`Phases` ties what is left of the stream to the place of `_tmain`, and the feeder's steps go wrong by what is left: so the
property names the places of the feeder for each place of the destruction, from `~MediaStreamH264` on.

Proved and not checked by a run of its own: `GateHeld` (a part of `Inv`), `RunningIsConnected`,
`ServiceInv` and `ReturnsClean`.  The inductive invariants of `RtspTransport`, `RtspSession`,
`RtspExchange`, `H264Packets`, `Feeder`, `RtpTransport` and `VBuffer` were tried with TLC too, on the
instances of their runs.  Model-checked only:

* liveness and `ENABLED`, which are out of the prover's reach;
* `TimesFollowTheFrames`: it is about files whose orders count from each I picture, and that is a
  property of the whole sequence of its pictures.

## Where the code does not do what it says

Checked, each with a run that finds it:

* `feeder_stale`: `TransportData` is given the size of the frame's buffer, not of its data
  (`RtspService.h` 156), so behind a long frame every shorter one carries its tail.
* `exchange_body`: a description that arrives in pieces is taken for whole, since the check
  compares a variable with itself (`RtspRequest.cpp` 188).

Seen while modelling, described by the models' definitions, and not given a run:

* `Init` of the stream is called only if a usable SPS came before the first PPS
  (`RtspService.h` 123-133); otherwise frames are sent to a stream that refuses every SETUP.
* The restart after a wrap of the tick count takes a small `i_begin_time`; the next wrap is
  noticed only if it falls below that, and else the feeder waits for most of a turn.
* Every slice that ends a frame by its bytes does so, so a picture of several slices is sent
  as several frames (`h264.h` 105).
* An empty line ends a message (`Rtsp.cpp` 47), and so does a read that gives up before the
  first byte of a line: a request that arrives slowly is served by its first lines, and its
  rest is taken for another.
* If what is left on the stack in `c` is CR, a read that gives up takes one more byte, the
  first of the next request, and that request goes unanswered.  `TheAnswerFits` is
  conditional on that not happening; `AnsweredOnce` and `AsksEnd` are not.
* `_tmain` deletes the transport, and with it the stream, before it stops the feeder
  (`RtspService.cpp` 63-64).  The destructor begins with `m_Packet`, which it frees without the
  lock while a fragment may be copied into it (`MediaStreamH264.cpp` 13, 189), and leaves an object
  whose `TransportData` is pure virtual (`MediaStream.h` 37) until it is freed.  And when the
  transport cannot be opened `_tmain` goes on, says that the service is working, and deletes both
  objects again (lines 52-64).  `FaultsOnlyThere` names what of these can be met where, and excludes
  every other.
* The stream for the audio (`RtspService.cpp` 33) is put in no media session, since line 37 is
  commented out, and nobody deletes it; `ReturnsClean` says so.
* `GetRequests` and `Rtsp::Read` go on for as long as a client sends (`RtspResponse.cpp` 150-157,
  `Rtsp.cpp` 28-38), and the destructor of the session waits without a limit (`RtspSession.cpp`
  28): such a client keeps `Close` from returning and the process from its end.  `CloseReturns`,
  `DisconnectedIsReaped` and `ShutdownEnds` are conditional on it.
* A DESCRIBE of a session without streams, a SETUP that finds no port or whose stream is not
  initialised, and every GET_PARAMETER get no answer (`RtspSession.cpp` 103-155); the client gives up
  after half a second and takes it for a refusal.
* `Init` writes the parameter sets that a DESCRIBE on another thread may be reading
  (`MediaStreamH264.cpp` 21, 50).
* A client that goes away without TEARDOWN leaves the stream running (`Vanish`); if it played,
  the next SETUP deletes the transport while the feeder may be about to write through it
  (`NoWildAccess` says that this is all).  The connection that exceeds the limit of sessions is
  neither served nor closed.
* The unit at the end of a read is taken to end there (`h264.h` 30), and what the next read has
  of it is dropped.  `ResumesAfterCut` says that this is all that is lost.  The sample file is
  smaller than one read.
* A unit behind a slice, an SEI say, ends the frame if the slice had no byte of 0x80 or more, and
  a frame that does not end in a slice gets time 0 (`h264.h` 129); a picture in a sequence whose
  `poc_type` is not 0 gets the time of the last I picture unless it is one (`h264_slice.h` 45).
* The offset of the last I picture is kept when the count of frames restarts (`RtspService.h`
  70-74): up to the next I picture the times go on from the old count.
* `MediaStreamMP4A.cpp` 124 says of a checksum "skip it", and takes two from the length, but not
  from the data: the checksum is sent and the frame loses its last two bytes.  A frame whose ADTS
  header makes for one more packet ends with an empty one, which has the marker.
* `MediaStreamMP4ALatm.cpp` 115 sets two bytes aside for a length of one byte for each 255 and
  one more: a frame of 510 bytes or more that fills its first packet makes it longer than the MTU.
* `MediaStreamAMR.cpp` 98 (FIXME): each further packet of a frame takes a byte of sound for its type.
* `RtpTransport.cpp` 152 says "only 5 seconds of data" and compares bytes with ten times the
  kilobits of a second; lines 122 and 124 compare bytes per millisecond with bits per second, so
  the pace is 8000 times what it says, and is in fact no limit.
* `MediaStream.cpp` 27 counts one packet a second at most, since `?:` binds weaker than `+`; the
  bandwidth in the SDP is a little too low for it.

## Not modelled, and why

* The bytes of the RTP header, SDP (with the MPEG-4 configuration of `MediaStreamMP4V.cpp`
  142-387) and the text of replies: formats, in which nothing is decided.
* The search for a method's name in the whole request line (`RtspResponse.cpp` 177-190), which
  a media session named like a method would mislead; the model's requests have a type.
* `MediaStreamTransport`: a second list of streams that nothing uses; the receive loop of the
  sample client, which prints what it gets.
* The bit readers and base64: pure functions, which tables of examples test better.
* Command line, character sets, logging: input and output.

## The plan

Done: all modules, their runs and their proofs as above.  What would come next is
`TimesFollowTheFrames`, for files whose orders are described picture by picture.
