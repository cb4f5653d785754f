# A TLA+ model of the ntrip library

The repository is a small C++ implementation of NTRIP: a caster that relays
correction data by mount point, a server (a base station's end), a client (a
receiver's end), and examples that wire them together. This directory models the
library with its examples, checks the models with TLC on small instances, and proves
with TLAPS, for instances of any size, the safety properties those runs check.

Paths below are relative to `src/`; `caster.cc` is `src/ntrip_caster.cc`, and so on.

## 1. Inventory

### NtripCaster (`caster.cc`, `ntrip_caster.h`, `mount_point.h`)

*State.* `mount_point_infos_`, a list of records (server descriptor, mount point,
user, password, list of client descriptors); `ntrip_str_list_`, the source table,
one line per record by intention only; the listening and epoll descriptors; the
array `epoll_events_` of the current batch.

*Operations.* `ThreadHandler` waits for events and handles each: `AcceptNewConnect`;
or `recv`, then `ParseData` (`ServerConnectRequest` for a POST,
`ClientConnectRequest` for a GET, `TryToForwardServerData` for anything else) or
`Disconnect`. `Run` opens everything and starts the thread, `Stop` closes
everything, frees the array and joins.

*Hard.* A descriptor is all the caster knows of a connection, and the kernel reuses
it at once. Events of one batch are handled after earlier ones have closed and
accepted descriptors. One server's end closes many connections. Some closes go
through `Disconnect`, which updates the list, and one (line 230) does not. Two
structures are kept in step by a substring search. Sends fail, or kill the
process. `Stop` works on all of it from another thread.

*Correct means.* Descriptors in the list denote the peers they were stored for; data
goes from a mount point's server to that mount point's clients, in order, from a
single server; a mount point has one server; nobody is dropped for somebody
else's fault; who has gone is forgotten, in the source table too.

### NtripClient (`client.cc`, `ntrip_client.h`)

*State.* `service_is_running_`, `socket_fd_`, `gga_buffer_`, `gga_is_update_`,
position, interval, callback, `thread_`; in the thread, the count of silent
intervals.

*Operations.* `Run` (stop what runs, connect, send the GET, poll 30 times for the
answer, greet with a GGA sentence, start the thread), `Stop` (flag, close, join),
the setters, and `ThreadHandler` (receive and call back, report a GGA sentence per
interval, give up after silence, close).

*Hard.* Application and service thread share all fields with no lock: the flag is
stored by both, the descriptor is tested, closed and reset by both, the sentence
is written by both.

*Correct means.* Stop returns and is final; a Run never shares anything with the
thread of the one before; no descriptor leaks; silence is tolerated for exactly
the period; the user's sentence is the one sent.

### NtripServer (`server.cc`, `ntrip_server.h`)

As the client, with a POST and `SendData` instead of reports and the callback; no
count of silence. `PushData` and `data_list_` are declared and unused. *Correct
means* the same of Run and Stop; a connection is served only when it was accepted;
data SendData says it sent went to a caster that had accepted the request; a
caster that hangs up is noticed.

### Caster lifecycle

`Run` creates the sockets and `epoll_events_` and starts the thread, `Stop` (all the
destructor does) tears them down, `service_is_running()` is what the application
polls. *Hard.* `Stop` clears the list, closes the epoll descriptor and frees the array
under a thread that may be using all of them, and joins only then; the thread never
reads the flag. *Correct means.* Stop returns; nothing is left of the thread, the list
and the source table when it has; the undefined part is met only by a Stop that was
called before the application had seen the service run and end.

### Relay (`examples/ntrip_client_to_ntrip_server_exam.cc`)

A client and a server in one process. The client's callback, on the client's thread,
calls the server's `SendData` while `main` re-Runs either of the two when its
`service_is_running()` is false. *Hard.* Both objects take their descriptors from one
table: a number one of them has closed and not yet forgotten may already be the
other's. *Correct means.* Each object closes, receives from and serves its own
connections; what SendData says it sent went to the server's caster.

### Utilities (`util.cc`, and the parsing of requests in `caster.cc`)

Base64, the split of a request into lines, the credentials, the checksum of a GGA
sentence and its coordinates. Pure functions. *Correct means.* What is sent is what
others read: the encoding is Base64, two logins are confused by nobody, a sentence's
checksum passes and one with an error does not, a position is read as it was set.

### The rest

- `thread_raii.h`: `join` returns when there is nothing to join; `reset` joins first.
- the server, client and caster examples: straight-line programs whose calls are
  among those the application makes in the models.
- `SendSourceTableData` (`caster.cc:341`): never called.

### How the parts interact

Server and client talk to the caster over TCP: one request, one line of answer,
then payloads one way each. The caster's thread talks to itself through the list,
to the peers through descriptors, to `Run` and `Stop` through the fields they free.
Inside a client or server object the application's thread and the service thread
interact through the shared fields. In the relay the client's thread also reads the
server's `socket_fd_`, and the objects meet in the descriptor table.

### Hazards

`PROJECT.json` lists them all at their lines. Those the properties were written for:

| Hazard | Where | Property |
| --- | --- | --- |
| stale event of a batch, descriptor reused | `caster.cc:225-233` | `DroppedOnlyForCause`, `MembersDroppedOnlyForCause`, `TableDenotesPeers` |
| registered descriptor closed, record kept | `caster.cc:230` | `RoutedToSubscribers` |
| servers that come back under one name | `caster.cc:401-441` | `MountPointsUnique`, `ImplementsBroker` |
| two stations spliced, repeated, reordered | `caster.cc:371-382` | `OneSourceInOrder` |
| source table out of step | `caster.cc:270-279, 441` | `SourceTableMatches` |
| a peer that goes is never forgotten | `caster.cc:232` | `GoneIsForgotten` |
| Stop frees what the thread uses | `caster.cc:177-192` | `BrokenOnlyInHaste` |
| a request handled after Stop has cleared the list | `caster.cc:436` | `StopEmpties` |
| Stop joins a thread that reads no flag | `caster.cc:192` | `StopReturns`, `StopIsFinal` (lifecycle) |
| Stop's false overwritten by the thread's true | `client.cc:219, 240` | `StopReturns`, `StopIsFinal` (session) |
| check, close and reset of `socket_fd_` by two threads | `client.cc:227-230, 284-287` | `NoLeak`, `ThreadServesItsRun` |
| a closed number that is the other object's by now | `server.cc:219, 262` | `ClosesItsOwn`, `ThreadsKeepApart`; after it has happened `NoLeak`, `ImplementLinks` |
| answer at the last poll | `client.cc:188`, `server.cc:176` | `InTimeIsAccepted`, `ServesOnlyGranted` |
| silence counted one off | `client.cc:268` | `SilenceTolerated`, `SilentEnds` |
| sentence overwritten between flag and buffer | `client.cc:270-271` | `UserGgaIsSent` |
| send on a replaced descriptor | `server.cc:207` | `SentToService` |
| caster that hangs up | `server.cc:242` | `HangupNoticed`, `EitherHangupNoticed` |
| padding, appended zero byte, cut lines | `util.cc:98-110`, `caster.cc:127` | `EncodesBits`, `AdmitsIffEqual`, `LinesKept` |
| sign and rounding of coordinates, range of the checksum | `util.cc:38-58, 133-141` | `PositionExact`, `ChecksumGuards` |

## 2. Modules

| Module | Models |
| --- | --- |
| `Broker` | what a caster promises, without descriptors: publishers, subscribers, deliveries |
| `Caster` | the service thread of NtripCaster, the descriptor table and the connections behind it, and the peers |
| `CasterMC` | the requests of the instances, and symmetry |
| `CasterLifecycle` | Run, Stop and `service_is_running()` of NtripCaster against its service thread |
| `Session` | what NtripClient and NtripServer share: Run, Stop, the polls and the service thread, for any number of objects on one descriptor table, and their casters |
| `NtripClient` | one client: a session with the greeting, the reports, the count of silence and `set_gga_buffer` |
| `NtripServer` | a server's part of a session, and `SendData` from a third thread |
| `Relay` | a client and a server on one descriptor table, as the relay example builds them |
| `Link` | what a client or a server promises the application that calls it, without flag, descriptors and threads' steps |
| `Util` | the pure functions |
| `CasterProofs`, `OrderProofs`, `BrokerProofs`, `LifecycleProofs`, `SessionProofs`, `ClientProofs`, `RelayProofs`, `UtilProofs` | the theorems (section 4) |

`NtripClient` and `NtripServer` EXTEND `Session`; `Relay` EXTENDS `NtripServer` and adds
the client's half. `Caster` is composed with `Broker` by
`Promise == INSTANCE Broker WITH ...`, `NtripClient` with `Link` in the same way, `Relay` with
two of them, one per object. `Caster` (one thread, many connections) and
`CasterLifecycle` (two threads, the connections reduced to accepted, listed, refused and
closed) are two views of the same class.

### Caster

One action is one iteration of the event loop, since only this thread touches the
list. `infos` and `strs` are the two lists. `sock` maps a descriptor to the
connection behind it: it is what the code does not have, and it makes "the
descriptor denotes the wrong peer" expressible. `accept()` returns the lowest free
descriptor, as POSIX requires, and leaves the backlog alone when there is none.
`batch` is the rest of `epoll_events_`: `EpollWait` fills it with any sequence of
distinct ready descriptors, all of them unless `MaxEvents` is reached, and the
handlers consume it one by one. A stale event is an event whose descriptor is no
longer ready when it is reached: closed (`recv` fails with EBADF) or reused
(EAGAIN); the code calls `Disconnect` either way.

| Action | Code |
| --- | --- |
| `EpollWait`, `EpollError` | `caster.cc:206-216`, `211-213` |
| `AcceptNewConnect` | `caster.cc:217-222, 244-262` |
| `Disconnect` (server, client, unknown) | `caster.cc:232-233, 264-301` |
| `ServerConnectRequest` | `caster.cc:384-446`, and 229-231 on refusal |
| `ClientConnectRequest` | `caster.cc:448-497`, and 229-231 on refusal |
| `Forward` / `TryToForwardServerData` | `caster.cc:371-382` |
| `NotAServer` | `caster.cc:322-336`, and 229-231 |
| `KilledBySigPipe` | any `send()` to an aborted connection |
| `PeerConnect`, `PeerSend`, `PeerClose`, `PeerReset` | the peers |

A request is a record of what the parsers extract: mount point, credentials, the
mount point the Ntrip-STR names, and whether that string passes the comparison of
lines 430-433. A chunk is what one `recv()` returns. Fragmented or coalesced
requests are not built from bytes: a fragment is an arbitrary payload ("data") and
is refused as such. Forwarding loses any subset of the copies (full buffers).

Peers come in two kinds. Under `Spec` any peer sends anything at any time. Under
`ConformingSpec` they do what this library's `NtripServer` and `NtripClient` do:
one request, then, once answered 200 OK, only corrections or only GGA sentences
(`client.cc:134-273`, `server.cc:130-208`), as long as the application hands
`set_gga_buffer` a GGA sentence and `SendData` corrections: either would send any other
bytes too. Both kinds close or reset at any time.

`grants` and `got` are history variables (who was answered 200 OK for what, who
received what); nothing in the code reads them.

### CasterLifecycle

Every access to a field both threads use is a step of its own: `StopFlag`, `StopClear`,
`StopListen`, `StopEpoll`, `StopDelete`, `StopNull`, `StopLines`, `Join` are Stop's
lines in order, `Begin`, `EpollWait`, `Returns`, `ReadEvent` and the handlers the
thread's. Writing into or reading from `epoll_events_` after `delete`, and using the
list or the source table while Stop clears it, is undefined behaviour: `process` may
become "broken" there, or the step goes on as if nothing had happened. A handler reads
its event in the array again (lines 220-233), so it may break as `ReadEvent` may. `seen`
is what the application has read from `service_is_running()` since Run, and `hasty` says
that the last Stop was called on a service it had not seen run and end. The caster
example's may be one: it polls for `false` only, one second after Run, and takes a thread
that has not started yet for one that has ended (`ntrip_caster_exam.cc:33-38`).

Stop resets neither `listen_sock_` nor `epoll_fd_`, so the next one (the destructor's, say)
closes the two numbers again. They are nobody's then, since nothing else in the process
opens descriptors; a process in which something does is not covered. A connection
`ParseData` refuses is closed and keeps its record and its line (`Refuse`); who gets its
number next is `Caster`'s matter.

| Action | Code |
| --- | --- |
| `Run`, `RunExits` | `caster.cc:146-175` |
| `LooksUp`, `LooksDown`, `CallStop` | `examples/ntrip_caster_exam.cc:32-38` |
| `StopFlag` ... `StopLines`, `Join` | `caster.cc:177-193` |
| `Begin`, `EpollWait`, `TimesOut`, `Interrupted`, `Returns`, `ReadEvent`, `End` | `caster.cc:199-242` |
| `AcceptNewConnect`, `Register`, `Relayed`, `Refuse`, `Disconnect` | `caster.cc:217-236, 244-301, 322-336, 436-446` |

### Session, NtripClient, NtripServer

Every access to a shared field is a step of its own, so that the threads interleave
between any two.

| Action | Code (`client.cc`; `server.cc` has the same) |
| --- | --- |
| `CallRun`, `CallStop` | 72-74, 218 |
| `StopFlag`, `StopCheck`, `StopClose`, `StopForget`, `Join` | 219, 227, 228, 230, 232 |
| `Connect` | 75-149: no shared field is touched, and every failure closes what was opened |
| `Accepted`, `Refused`, `HungUp`, `GreetFails`, `Unanswered`, `GiveUp` | one turn of `while (timeout--)`, 151-187 |
| `DecideFailed`, `DecideStarted` | 188-216 |
| `Begin`, `Loop`, `RecvChunk`, `RecvNothing`, `RecvEnd`, `Work` | 239-276 |
| `LeaveCheck`, `LeaveClose`, `LeaveForget`, `End` | 284, 285, 287, 290 |

In the client `Greet` is the sentence sent on 200 OK, `Data` and `Called` the callback,
`Report`, `Generate` and `SendGga` split a report where `gga_is_update_` is read, where
`gga_buffer_` is written and where it is sent, and `SetGgaBuffer` and `SetGgaFlag` split
`set_gga_buffer`. In the server `CallSendData` is the caller's test of
`service_is_running()`, `ReadSocket` the evaluation of the argument `socket_fd_`, and
`Send` the system call.

`desc` is the process's descriptor table, which the code does not have: it tells which
connection a number in some `socket_fd_` denotes now. `made` tells which object made a
connection, `granted` which ones were answered 200 OK.

As a `Link`, an object is in the call it is in (`CallOf`: `wait` from the request to the
end of the polls), has dialed last the `Latest` connection it has made, holds those it
has made that are open (`HeldBy`), and has a worker while its thread is not done.

Assumed of the application: Run, Stop and the setters are called from one thread,
which is not a service thread; no other part of the process opens descriptors;
SIGPIPE is ignored. The plain `int socket_fd_` is read and written by two threads
without synchronisation, which is undefined behaviour in C++; the model gives it
the outcome compilers produce for an aligned int, some value that was stored.

### Relay

`MainLoop(o)` Runs an object whose flag is false, as the example's loop does;
`MainStop(o)` Stops one at any time, which the example does only at its end.
`Callback`, `InSendData` and `NoCallback` are the callback on the client's thread. What
else that thread does between two receptions touches nothing of the server's and is one
step. `crossed` remembers a Stop of an object whose `socket_fd_` was `Outdated`: its thread
had closed the number and not reset the field yet (lines 285-287), and a Run of the other
object had been given the number in between. Such a Stop may close the other's connection, and from
then on the two may close each other's; every other Stop of a live thread, also one that
meets it in its close and reset, leaves `crossed` as it is.

### Util

`text` grows byte by byte (`Type`) through every text of up to `MaxLen` bytes, `position`
is any whole number of minutes of arc. The loops of Base64 and of the checksum, whose
iterations do not depend on each other, are functions given element by element: the k-th
character of the code, the k-th byte decoded, each bit of the exclusive or. That of
`StringSplit` is a loop: once called on a text (`StringSplit`), `CutItem` is one turn of
`while` (`caster.cc:117-126`) and `LastItem` the fragment after it (127-131); the search
for the next divider is `std::string::find`, the least place at which it occurs. Nothing
is recursive and no bitwise operator is used, so that the prover can reason about it.
Each property compares a function with a definition of what it should yield:
`EncodesBits` speaks of bits, `AdmitsIffEqual` of a login that went through encoding,
decoding and splitting, `LinesKept` of what the loop has cut when it is done.

## 3. Runs

Two workers are enough; the longest run, `CasterRouting`, takes two to three minutes.
`Caster...` configurations are run on `CasterMC`, `Client...` on `NtripClient`,
`Relay...` on `Relay`, `CasterLifecycle` and `Util` on the modules of that name:
`tlc -workers 2 -config CasterRouting.cfg CasterMC`.

| Run | Instance | Shows |
| --- | --- | --- |
| `CasterRouting` | conforming; 3 connections, 3 descriptors, 2 mount points, batches of 3, 2 chunks each; 1.1 M states | `TableDenotesPeers`, `RoutedToSubscribers`, `SourceTableMatches`, `MembersDroppedOnlyForCause` |
| `CasterBroker` | conforming; 3 connections, 2 descriptors, 1 mount point, batches of 3, 3 chunks each; 544 k states | `OneSourceInOrder`, `ImplementsBroker` |
| `CasterAny` | any peers; 2 connections, 2 descriptors, all requests, batches of 2, 1 chunk each; 44 k states | `TypeOK`, `MountPointsUnique`, `GoneIsForgotten` |
| `CasterLifecycle` | 3 connections, 2 runs, finite timeout; 221 k states | `LifecycleTypeOK`, `BrokenOnlyInHaste`, `StopIsFinal`, `StopEmpties`, `StopReturns` |
| `ClientSession` | 2 connections, 2 polls, period 2, 2 chunks waiting; 233 k states | `ClientTypeOK`, `NoLeak`, `ThreadServesItsRun`, `ServesOnlyGranted`, `StopIsFinal`, `ImplementsLink`, `SilenceTolerated`, `StopReturns`, `HangupNoticed`, `SilentEnds` |
| `Relay` | 2 objects, 2 connections, 2 polls, 1 chunk waiting; 270 k states | `RelayTypeOK`, `NoLeak`, `ThreadsKeepApart`, `StopIsFinal`, `ImplementLinks`, `ClosesItsOwn`, `StopReturns`, `EitherHangupNoticed` |
| `Util` | texts of up to 6 bytes over 5 of them, positions of up to 180 degrees; 84 k states | `EncodesBits`, `AdmitsIffEqual`, `LinesKept`, `ChecksumGuards`, `PositionExact` |
| `CasterStaleEvent` | violated | `DroppedOnlyForCause`: a stale event disconnects a connection just accepted |
| `CasterStaleDescriptor` | violated | `RoutedToSubscribers` for peers of any kind: the close at line 230 leaves the record |
| `ClientLastPoll` | violated | `InTimeIsAccepted`: an answer at the last poll is a timeout |
| `ClientGga` | violated | `UserGgaIsSent`: set_gga_buffer loses against a report in progress |
| `RelayStaleSocket` | violated | `SentToService`: SendData in the callback against the server's own end |

**Why the bounds are enough.** *Caster.* Three connections are a server, its client and
one that takes over a descriptor of either, and a batch of three is the least in which
a close, an accept of the same number and the stale event for it fit (all three are
what `CasterStaleEvent` needs; the same batches occur in `CasterRouting`, where the
members survive them). Two mount points are the least for misrouting. With two
descriptors for three connections, `accept()` meets a full table. Two chunks are a
request and a payload, three make order visible. *Lifecycle.* Two runs are the least
for one to meet the remains of another; three connections are one in each of the
backlog, the array and the list. *Session and Relay.* Two connections are two runs of
one object or one of each, with two descriptors so that a number is handed on or not;
with one poll before the last, polls are before, at and after the boundary, and a
period of 2 puts the boundary of the silence count at its third report. In the Relay a
third connection lets a number come back to the object that had it before. That instance
is too large for the run. For the safety properties and the refinements the theorems,
which hold for any number of connections, stand in for it; for the two liveness properties
nothing does, so `Relay` shows them for two connections only. `EitherHangupNoticed` needs
its exception for the third: once a Stop has closed the other object's number and a Run
has got it again, the other's thread may receive from the wrong connection for ever.
(With `MaxRuns = 3` and `MaxInbox = 0`, a CONSTRAINT that admits the third connection only
after such a Stop makes TLC find `HangupNoticed` violated, and with CONSTRAINTs that cut
the behaviours off at such a Stop, one for each object that may Run first, it finds
`EitherHangupNoticed` to hold, in about a million states each.) *Util.* Six
bytes are two groups of Base64, with every padding, before or after a full one; the five
bytes are both of the line ends, the colon, a letter and one with the top bit set.

**Refinement.** `ImplementsBroker` maps a mount point's `publisher` to the connection
behind the record's server descriptor and its `subscribers` to those behind its
client descriptors. Every step of the caster is then a step of `Broker` or a stutter.
The delivery step demands that a payload be new to its receiver and of the source it
has had all along. `ImplementsLink` and `ImplementLinks` map an object to the five things
an application can tell of it. Each of its steps is then a step of `Link` or a stutter: at
most one connection is held; Run dials a new one only when none is held and no worker is
left; a worker is started only for a connection that was granted, and ends only when the
connection is closed; Stop, and a Run that cannot connect, return with nothing held. In
the relay the other object's steps are steps of this link only where they cut it (`Lose`).

**Fairness.** `Caster!Fairness`: the service thread is scheduled (weak fairness of
handling an event), and every descriptor that is ready again and again is reported
again and again (strong fairness of `EpollWait` per descriptor). The second is how
epoll works: its ready list is a queue, and a level-triggered descriptor that was
reported goes to its end. Nothing is assumed of the peers. In `CasterLifecycle` Stop and
the thread are scheduled, and `Finite` says that `epoll_wait` times out by itself (the
example passes 2000 ms). A signal may interrupt `epoll_wait` but does not have to:
`Interrupted` is not among the fair steps (`Progress`). With an infinite timeout a thread
that is already in `epoll_wait` when its descriptor is closed may therefore stay there,
and TLC finds `StopReturns` violated when `Finite` is set to FALSE in the configuration.
In `NtripClient` and `Relay` each thread is scheduled; `SilentEnds` states its own
further assumption, a clock that runs (`SF_vars(Report)`). The caster at the other end
owes nothing. `GoneIsForgotten` excuses a service that has ended, because an epoll error
or SIGPIPE ends it (`EpollError`, `KilledBySigPipe`).

`CHECK_DEADLOCK FALSE` where the system may stop: in the caster's configurations the
service may have ended and all bounded peers said what they had to say, in
`CasterLifecycle` the process may have exited, in `Util` a text is complete. The client
and the relay never deadlock, since Stop can always be called, and their runs check it.

## 4. Theorems

All of them hold for any number of connections, descriptors, objects, mount points,
requests, polls and runs, from the assumptions on the constants each module names
(`CasterAssumption`, `LifecycleAssumption`, `SessionAssumption`, `ClientAssumption`,
`RelayAssumption`: finite sets where the caster's need be, descriptors are numbers, the
`No...` values are outside their sets, requests are well-formed; `UtilAssumption`: bytes
are 1 to 255, since a C string has no zero byte), and those of `UtilProofs` for texts of
any length.

| Module | Theorems |
| --- | --- |
| `CasterProofs` | `TypeCorrect`, `MountPointsAreUnique` (any peers); `DescriptorsDenotePeers`, `DataReachesSubscribersOnly`, `MembersAreDroppedForCause` (conforming peers); `SourceTableFollows` (any peers whose Ntrip-STR names their mount point) |
| `OrderProofs` | `OneSourceAndInOrder` (conforming) |
| `BrokerProofs` | `CasterImplementsBroker` (conforming) |
| `LifecycleProofs` | `LifecycleTypeCorrect`, `NeverBrokenInPatience`, `StopLeavesNothing`, `StopLeavesListsEmpty` |
| `SessionProofs` | the invariant of a session and the steps that keep it, for the two below |
| `ClientProofs` | `ClientTypeCorrect`, `ClientNeverLeaks`, `ClientThreadServesItsRun`, `ClientServesOnlyGranted`, `ClientStopIsFinal`, `ClientToleratesSilence`, `ClientIsALink` |
| `RelayProofs` | `RelayTypeCorrect`, `RelayNeverLeaks`, `RelayStopIsFinal`, `RelayThreadsKeepApart`, `RelayClosesItsOwn`, `RelayObjectsAreLinks` |
| `UtilProofs` | `EncodingIsBase64`, `LoginsDiffer`, `AdmissionIsExact`, `CutsIntoLines`, `ChecksumDetects`, `PositionsAreExact` |

**The caster's inductive invariant.** `MountPointsUnique` rests on `InfosStep`: every
action leaves the sequence of mount points, removes one record, or appends one whose
mount point was not there. `TableDenotesPeers` is not inductive: closing a descriptor
removes one mention of it, and if it had two, the other would survive it. So
`ConformingInv` adds `DescriptorsApart` (no two descriptors denote one connection, and
one in the backlog has none and was granted nothing), `OneGrant` (a connection is
answered 200 OK for one place at most) and `ClientsOnce` (no list of clients repeats a
descriptor): with `MountPointsUnique` they leave a listed descriptor one mention. To
keep that, a request must never come from a connection that is already listed:
`InboxConforms` says that what waits in an inbox is one request from a connection not
yet answered, or payloads of the kind its grant allows. `GrantedIsListed` says that an
open connection that was granted a place is listed in it, so its payload always finds
its record and line 230 is never reached by a registered peer. With these, closing an
unlisted descriptor (a stale event's, or a refused connection's) touches nothing in
the list, and `RoutedToSubscribers` follows from whose descriptors
`TryToForwardServerData` walks. `CasterStaleDescriptor` shows that conformity is needed.

**Stale events.** `MembersAreDroppedForCause` adds `EventsCurrent`: the events of a batch
are for different descriptors, and one whose descriptor denotes a connection with a grant
is not stale. A number can be closed and accepted again within a batch, but the
connection behind it then has no grant before the next batch, since its own request is
one more event for the same number.

**Order.** `OrderInv` adds where the numbers of a source's payloads stand: those
delivered come before those that wait (`GotBefore`), those that wait are in order and
none is beyond what was sent (`InboxInOrder`), and all that a listed client has received
came from the server it is listed under (`FromItsServer`). A client's list never
repeats a descriptor, so a chunk is appended once.

**Refinement.** `BrokerProofs` first states the mapping record by record (`View`), which
`MountPointsUnique` makes possible, and that descriptors open before and after a step
denote the same connection (`SockStays`). Then each handler is one step of the broker:
the end of a server `Retire`s, of a client `Unsubscribe`s, an accepted POST `Register`s,
an accepted GET `Subscribe`s, a chunk that reaches anybody `Deliver`s, and what changes
neither the list nor what was received is a stutter (`SameLists`).

**The source table.** `SourceTableFollows` is by induction on the records, the lines and
what waits in the connections together: a line is added with its record, and the first
line equal to a mount point is that of its only record.

**Lifecycle.** `LifecycleInv` ties what the threads share to where they are: the flag
tells whether the thread is in its loop until Stop clears it (`FlagTold`), what the
application has seen is true (`SeenRight`), a thread has its array until Stop frees it
and outside Stop its descriptors (`Equipped`), and Stop has torn down what lies behind it
(`TornDown`, `Emptied`). `BrokenOnlyInHaste` then says that where something undefined may
happen the thread is in its loop during Stop, which `SeenRight` excludes unless this Stop
was hasty. `hasty` is about the last Stop only: `Join` has taken the thread away when a
hasty Stop returns, so that the next Run starts with as clean an array as the first, and
what such a Stop has left in the lists the next one in order clears (`Emptied`).

**Sessions.** A number in `socket_fd_` is in one of three conditions (`Sockets`): closed
and about to be reset by the one who closed it (`Closed`), the connection its Run made
(`Own`), or, after it was closed, another object's by now (`Stale`), which only an object
whose thread is about to reset it, and which is not being stopped, may hold. Every step
keeps `SessionInv` except a call on an object that holds a stale number. One client
alone has no stale numbers. In the relay the main loop Runs an object only when its flag
is false, and `FlagTold` says that it is not while a thread is about to reset; so
of `SessionInv` the relay keeps `crossed \/ SessionInv`, and `RelayThreadsKeepApart` and
`RelayClosesItsOwn` have that exception. A Stop meets a stale number exactly when it is
called on an `Outdated` object (`OutdatedOrNotStale`), and this is the only step that
does not keep `SessionInv`. After it a thread or a Stop may close a number that is the
other object's by now. What no call can break is `SturdyInv`, the
other half of `RelayInv`: it lets the connection that Run sets up be lost to such a close
(`SetupOrLost`), but still has every open descriptor in the hands of Run or of the object
that made it (`Accounted`), nothing of an object open once it is about to reset
`socket_fd_` (`ForgetsClosed`), the flag false without a thread (`FlagOff`), and a Stop
that has joined (`Joined`, `Quiet`). `RelayNeverLeaks` and `RelayStopIsFinal` follow
without the exception. `ClientToleratesSilence` rests on `ClockInv`: while the thread goes on,
the count is the period less the silent intervals.

**Links.** `LinkInv` adds to `SturdyInv` that a Run about to start its thread was answered
(`Answered`), that only connections that were made are answered, and that an object that
has made connections has a latest one (`LatestMade`). Then nothing is held of an object
whose thread is over and whose Run has not dialed (`NothingHeld`), at most one connection
is held otherwise (`OneOpen`), in Run the latest (`WaitingHolds`), and a close, by
whichever object and of whatever number, takes all that an object holds or leaves it as
it was (`CloseLoses`). `LinkKeeps` says of every step of a session what it is for each
object's link (`LinkStep`). Since `LinkInv` needs no more than `SturdyInv`,
`RelayObjectsAreLinks` has no exception.

**Utilities.** `EncodingIsBase64` computes each sextet from the three bytes of its group,
a byte past the end being zero (`Filled`), and reads its bits back one by one
(`SextetBits`, `DigitsEnd`, `TextBit`). `RoundTrip` decodes what was encoded: the text,
followed by one zero byte unless its length is a multiple of three, since the first padded
group is the last and its length is known (`DecodedLenOfCode`). The text has no zero, so
two logins that decode alike are the same (`LoginsDiffer`); `Found` and `FindIs` say of
`find` that it is the least place, which exists because every set of naturals has a least
member (`Least`). For the checksum, a byte that was changed differs in some bit, the
number of bytes with that bit set changes by one, and so does its parity
(`ChangeChangesSum`); `FrameIs` and `ComparisonIs` say where the star of a generated
sentence is, so that the terminating zero the generator sums up too adds nothing.
`CutsIntoLines` is by the invariant `CutInv` of `StringSplit`'s loop: the items so far
follow each other, with one end of line between any two and none inside (`Chained`),
`pos_begin` is behind the divider of the last (`Ahead`), and after the loop nothing, a
divider, or one byte is left (`Behind`).

**Only model-checked:** all liveness (`GoneIsForgotten`, the three `StopReturns`,
`HangupNoticed`, `EitherHangupNoticed`, `SilentEnds`), which is beyond the prover, as is anything about ENABLED.
Every other property of a passing run is a theorem.
The theorems about conforming peers are limited to them
because the properties fail for others.

## 5. Not modelled

- A payload cut short by a partial `send()`; requests split over or joined in chunks (a
  fragment is an arbitrary payload, and is refused as such).
- `SendSourceTableData`, `PushData` with `data_list_`, `Thread::detach`: never called.
- The Windows branches, and the build files.
- A callback that calls Stop (the thread would join itself); two threads that call Run
  and Stop of one object; other code of the process that opens descriptors.
- Caster `Stop` with an infinite `time_out_`, for which `StopReturns` is false (see
  Fairness).
- What `Base64Decode` makes of texts that `Base64Encode` does not yield: the -1 for one
  that is empty or whose length is no multiple of four (`util.cc:95`), and characters
  outside the table.
- Data that arrives in the chunk of the 200 OK: `Greet` stands for any chunk with a
  200 OK in it, whatever follows is dropped, and nothing in the source promises
  otherwise.
- The time of day and the altitude of a GGA sentence, which are part of its text.
  Positions in the south and west with minutes are modelled and excluded from
  `PositionExact`, which is false for them; a chunk that names $GPGGA and has no star
  makes the checksum loop read past its end, which has no outcome to model.

## 6. Plan

Done: all modules of section 2. What could follow:

1. The caster with the bytes of its requests: a stream per connection instead of chunks,
   so that fragments and joined requests are read as `recv()` cuts them.
2. `Caster` and `CasterLifecycle` in one module, so that a hasty Stop meets the real list.
