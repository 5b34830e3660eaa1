# A verification project for libmocha-ipc

`libmocha-ipc` and `libmocha-ril` make Samsung bada phones (Wave S8500 and
S8530) work under Android. The first speaks the packet protocol of the AMSS
modem; the second is the vendor RIL that the Android daemon `rild` loads. This
directory holds TLA+ models of the parts that keep state and wait for somebody,
the TLC configurations that check them, and proofs for TLAPS.

    tlc -config MCRilCall.cfg MCRilCall.tla      a model-checking run
    tlapm RilCallProofs.tla                      the proofs of a module

`PROJECT.json` lists every run, every property with a mutant of the code that
breaks it, the source lines each definition stands for, the hazards and the
theorems.

## 1. The system

    Android framework --RIL_Token--> ril_on_request       (mocha-ril.c)
                                      | RIL_LOCK
             call.c sms.c gprs.c sim.c pwr.c misc.c network.c ss.c   state: ril_data
                                      | tapi_*, proto_*, sim_*       (mocha-ipc)
                                      v
                      ipc_send -> jet/wave_ipc.c -> modem device
    modem device -> ipc_recv (read loop thread, client.c)
                 -> ipc_dispatch, RIL_LOCK -> ipc_parse_* -> callback table
                 -> a handler of the files above -> ril_request_complete / unsolicited

A request carries a token. The library must give every token back exactly once
through `ril_request_complete`; most handlers store it in `ril_data`, send the
modem a command and complete it in the handler of some later indication. The
framework has many requests open at once, the modem answers when it likes, and
nothing in a packet names the request that it answers. Nearly all that can go
wrong follows from this.

Threads: rild's main loop (`ril_on_request`), one read loop for each client
(`client.c`), the accept and read loops of the SRS server, and one tunnel
thread for each data connection. Locks: `RIL_LOCK` (`ril_data.mutex`) is held by
every request handler and by the dispatch of every packet; `RIL_CLIENT_LOCK` by
`ipc_send` and `ipc_recv`; `gprs_connection->mutex` by a tunnel thread while it
looks for a frame; `SRS_CLIENT_LOCK` in `srs.c`. `ril_on_cancel` takes none.

### Inventory

| Component | Keeps | Operations | Hard behaviour | Correct if | Module |
|---|---|---|---|---|---|
| Request interface (`mocha-ril.c`) | tokens, registry of requests | dispatch, complete, cancel, `ril_tokens_check` | double completion, a request while the modem is away | each token given back once | `RilRequests`, parts of `RilRadio` and `RilClient` |
| Voice calls (`call.c`) | six contexts: call id, state, token | dial, hang up (3 ways), answer, switch; ten indications | the far end acts while commands are under way | table agrees with the modem, no token lost or completed twice | `RilCall` |
| DTMF (`call.c`) | two tokens, pending tone | start, stop, send | tokens overwritten, tones that outlive their call | each answered, none left on | `RilTones` over `RilCall` |
| Outgoing messages (`sms.c`) | list, token in flight | send, report | error path of one request meets the message of another | one at a time, in order | `RilSms`, `RequestLine` |
| Incoming messages (`sms.c`) | nothing | deliver | - | conversion | not modelled |
| Data connections (`gprs.c`) | list of connections: cid, context, token | set up, deactivate, fail cause; seven indications | context known only after set-up; both ends stop | contexts, connections and tokens matched | `RilGprs` |
| Tunnel threads (`gprs.c`) | thread state, mutex | start, stop, carry a frame | lock order, freeing under a running thread | no frame on its way when a stop returns; the stop returns | `GprsTunnel` |
| SIM files (`sim.c`) | list, current token, SMSC number | request, answer, number | wait for the number; answers routed elsewhere | one at a time, in order, each its own answer | `RilSimIo`, `RequestLine` |
| PIN and PUK (`sim.c`) | four tokens | verify, unblock, lock, change; one answer handler | overlapping requests share the handler | enough answers; a lone request gets its own | `RilChv` over `RilRadio` |
| Power, SIM and radio state, identities (`pwr.c`, `misc.c`) | power, SIM and radio state, three tokens | power on/off, modem start, SIM reports, three identity requests | any order of all of these | radio state follows; tokens answered once, none lost | `RilRadio` |
| Network (`network.c`, `util.c`) | two tokens, list of networks, selection mode and its file, network mode | select, search, report, modes | two indications complete one token; restarts, also in the middle of a write | each token its answer; settings survive, or are the default after a write that was cut off | `RilNetwork` |
| Supplementary services (`ss.c`) | one state | USSD send, cancel, receive | - | state follows | not modelled |
| Client (`mocha-ril.c`, `client.c`, `ipc.c`) | client states, inner objects, two locks | `RIL_Init`, read loop, send, destroy, create | recreation under a sender; a reader that runs before the client is known | no use after free; requests completed once; handlers return | `RilClient` |
| Framing (`ipc_dispatch.c`, `jet_ipc.c`, `wave_ipc.c`) | one buffer for a packet in pieces | fragment, reassemble | a fragment as long as a header, other packets in between | what is sent arrives whole | `IpcFraming` |
| File service (`fm.c`) | directory handles, descriptors, last error | 20 file operations | index wraps over open directories; a request is used again | a handle stays its owner's until then; each request answered | `FileService` over `IpcFraming` |
| SRS server (`srs.c`, `srs-client.c`, `gps.c`) | list of clients, descriptors | accept, read, send, close, end | three threads on one list, one of them without its mutex; descriptors used again | list, descriptors and connections match; pings answered | `SrsServer` |
| Drivers, sound, test mode, location, bluetooth | device files | encode, decode | - | conversion | not modelled |
| Bootstrap (`jet_ipc.c`, `wave_ipc.c`, `modemctrl.c`) | device files | ioctl, mmap | - | - | not modelled, a creation that fails in `RilClient` |
| Helpers (`util.c`) | nothing | convert | - | conversion | not modelled, except the configuration file |

Handlers of the request interface and of the packets exclude each other through `RIL_LOCK`;
components meet in `ril_data`. The calls that cross components are `ipc_lock_status` ->
`ipc_sim_status` -> `ril_state_update` -> `ril_tokens_check` (PIN, SIM, radio, identities),
and in the opposite direction none. That chain is why `RilChv` is built over `RilRadio`.
Data connections and tunnel threads meet in `gprs_start_tunneling_thread` and
`gprs_stop_tunneling_thread`; tones go to the active call of the call table; the file
service lives on the frames of the transport; the GPS indications reach the clients of the
SRS server.

## 2. How the modules are built

`RilRequests` has the two variables every module shares: `pending`, the tokens
the framework waits for, and `stray`, which says that a token was completed that
nobody waited for. Every handler is one action that ends in `Answer(new, done)`:
the requests that came in with it and the tokens it completes. A handler that
gives back a token twice, or gives back `RIL_TOKEN_NULL`, sets `stray`; one that
drops a token leaves it in `pending` with nobody holding it. The registry of
requests in `mocha-ril.c` is left out: `ril_request_get_id`, which alone fills it, is
not called, so looking a request up in it always fails.

**Atomicity.** A handler runs under `RIL_LOCK` from its first line to its last
(`ril_on_request`, `ipc_dispatch`, `srs_dispatch`), so it is one action. The exceptions are
`GprsTunnel`, `RilClient` and `SrsServer`: there the threads, their locks and what one
handler does in between are the subject, and each step is its own action. Where a lock
surrounds nothing but one read or write (`RIL_CLIENT_LOCK` of the SRS client), the step is
that read or write.

**The modem.** The modem is not in this repository. It is modelled from what the
handlers expect: it takes commands in the order they were sent and answers in
that order. Commands wait in a queue (`cmds`, `sent`). The modem's step and the
handler of the indication it sends are *one* action. This loses nothing:
indications are handled in the order they are sent, so a modem step may be
moved to the moment its indication is handled without changing the order of
modem steps or of handlers; a command queued in between stands behind it in the
queue in both readings. In return the states hold one queue, not two. What the
far end and the network do is a step of theirs joined with its handler in the same way,
at any time.

**History variables.** Some properties hold unless somebody did not wait: two
commands on one call under way, a set-up while another is under way, one PIN request before
the last was answered, an error path behind a message in flight. A history
variable records it (`crossed`, `mixed`, `doubled`, `dropped`, `unready`,
`excused`, `mistaken`, `stale`, `late`, `cut`, `haunted`) and the property is stated for behaviours in
which it did not happen; next to it stands what holds always. The protocol with the framework does not rule those cases out, so
they are in the model and every unconditional property is checked through them.

**Left out everywhere.** Contents of packets, wording, logs; failing `calloc` except where
the code's error exit is a free choice of the model; `ril_modem_check`, which `RilClient`
models and behind which the other modules begin. A modem that restarts is in `RilRadio` and
`RilNetwork`; for calls and connections it is not modelled.

## 3. The modules

**`RilCall`** (`call.c`, `tapi_call.c`). `calls` is `ril_data.calls` with id, state and
token; `net` is what the modem knows about each call; `cmds` what it has yet to do. The requests
`Dial`, `Hangup`, `HangupWaitingOrBackground`, `HangupForegroundResumeBackground`, `AnswerCall`
and `SwitchWaitingOrHoldingAndActive` follow the C functions branch by branch; the
indications `CallSetupInd`, `CallAlert`, `CallConnected`, `CallIncoming`,
`CallEnd`, `CallError`, `CallHold`, `CallActivate`, `CallSwap` are operators that the
modem's and the far ends' actions call. `Find` is `find_ril_call_context`, the first match.
`ipc_call_activate` and `ipc_call_swap` drop a confirmation whose
call holds no token, state change included; that the table stays
right all the same (`ViewAgrees`) is the property this module is about.
`AnswerCall` with no incoming call and the switch with a waiting call alone neither
keep nor complete the token, as in the code; so no liveness property speaks of them.

**`RilTones`** (`call.c`) over `RilCall`. `DtmfStart` and `DtmfStop` put their commands into
the line of the calls' commands, for the active call; `tone` is whether `dtmf_tone` is set,
`start` and `stop` are the two tokens, which the code never clears; `playing` is what the
modem plays. A start that finds a tone sends a stop first, and the confirmation of that stop
completes whatever `dtmf_stop` holds. The model stops there (`doubled`). This is not only
the framework's doing: `ril_request_dtmf_stop` without an active call leaves `dtmf_tone`
set, so a call that ends during a tone makes the first tone of the next call complete an old
token.

**`RilSms`** (`sms.c`) over **`RequestLine`**. `queue` and `inflight` are the list and
`tokens.outgoing_sms`; `sent` is what the modem has to report on. `RejectSms` is the
error label of `ril_request_send_sms`, which sends the next message whatever is in flight.
`RequestLine` is the abstract specification: requests join a line at the end and leave at the front.
`OutboxSafety` is the refinement, with `<<inflight>> \o queue` for the line.

**`RilGprs`** (`gprs.c`, `proto.c`). Each cid's record has the context, token and active
flag of a `ril_gprs_connection`, and `ahead`, the connections before it in the C list, because
`ril_gprs_connection_find_contextId(0xFFFFFFFF)` takes the first match. `up`
are the contexts of the modem, `attempts` the set-ups it is busy with. A
set-up that fails after the modem has said yes sends STOP, keeps the
connection in the list and marks it active.

**`GprsTunnel`** (`gprs.c`, the thread). Program places for the loop of
`gprs_tunneling_thread` and for a handler that registers connections, starts and stops their
threads and frees them; both locks. A connection is a piece of memory: `live` are those that
are connections, and a registration takes any that is not. `Free` sets `thread_state` back to 0,
as the `memset` does (gprs.c:176). A thread that has not exited by then is `Astray`: it finds any
value of `thread_state`, the mutex lets it in, it may read and send frames, it may be lost for
good (`Lost`), and when the memory is a connection again it works on that one, with a thread that
is rightly there, and gives back a mutex that the other holds. `haunted` records the memory where
that can happen. `StoppedQuiet` states what the stop is for, that the free meets no frame on its
way; `FreedQuiet` what the code does not keep.

**`RilSimIo`** (`sim.c` of both libraries) over `RequestLine`. `queue`,
`current` and `smsc` are the list, `tokens.sim_io` and whether the SMSC number is known.
`ForSmsc` is the test of `sim_parse_event` that gives answers about file 0x6F42 to the SMSC
handler, also when the framework asked. `InOrder` is the refinement.

**`RilRadio`** (`pwr.c`, `misc.c`, `sim.c`, `syssec.c`, `ril_tokens_check`). Power, SIM and
radio state, and the tokens of the version, IMEI and IMSI requests. `TokensCheck(rad, kn,
new, done)` is `ril_tokens_check` at the end of a handler that leaves the radio in `rad`.
`ipc_sim_open` copies an IMSI that was read only if the card is ready; otherwise the buffer
is uninitialised, and the model lets it be empty or not.

**`RilChv`** (`sim.c`), which EXTENDS `RilRadio` and composes with its power requests and
indications. `chv` are the four tokens; `LockStatus` is `ipc_lock_status`, which completes the first
of them, in a fixed order, that is set. `EnterSimPinTooLong` is the length test of
`ril_request_enter_sim_pin`, which measures the pointer and goes on after it
refused.

**`RilNetwork`** (`network.c`, `tapi_network.c`, `util.c`). `sel` and `qry` are the two
tokens, `cmds` what the modem has to confirm, `nets` the list that `ipc_network_search_cnf`
builds and a manual selection chooses from. `NetworkSelect` is the registration report,
which comes at any time and completes a selection that waits; `SelectCnf` is the
confirmation, which completes whatever is there. A search keeps its token after it was
completed (`spent`). `auto`, `file`, `mode` and `modem` are the selection mode in memory and
in its file, and the network mode in memory and in the modem; power, a restart of the modem
(`CpSystemStart`), of the process (`Restart`) and one in the middle of `save_ril_config`
(`RestartInSave`) act on them. The last loses the selection mode: `cut` records it until the
framework asks for one again, and `SettingsKept` says that the mode is the default then.

**`RilClient`** (`mocha-ril.c`, `client.c`, both `ipc.c`). The steps of three threads, one
action for each: `RIL_Init` and then the requests, the reader (`ril_client_thread`,
`ipc_read_loop`), and the reader of the local server. `ril` and `mutex` are RIL_LOCK and
RIL_CLIENT_LOCK. An inner object is a number; `ipc_destroy` removes it from `live`, and
using one that is not live puts the thread into `hurt`. Handlers are reduced to one packet
sent or none, a token completed or kept.

**`IpcFraming`** (`ipc_dispatch.c` and the send and receive functions of both devices) has
no specification of its own: it gives the fragments of a packet (`Fragments`, `Sent`) and
what `ipc_dispatch` does with one frame (`Header`, `Part`, `LastPart`, `Single`). A frame
remembers which part of which packet it is, so that "whole and as it was sent" can be said;
the code sees only type and length.

**`FileService`** (`fm.c`) over `IpcFraming`: the modem asks (`Ask`), the reader gets frame
after frame (`IpcRecv`, with others in between, and on the jet a short read), `ParseFm` does
the operation and answers, the modem takes the answer (`Take`) and learns the handle. Files
are opaque: an opening is a number, `fds` and `dirArray` say which opening a descriptor or
an entry of the table stands for, and `streams` which directories are open. `FmCloseDir` closes
what the entry holds, which can be a newer directory than the handle was given for, and leaves
the entry as it is; when that is closed already (`Freed`), the `closedir` fails, closes another
directory or a descriptor that has the memory or the number by now, or ends the process.

**`SrsServer`** (`srs.c`, `srs-client.c`, `srs_dispatch`, `find_srs_gps_client`). The
acceptor, the reader and the handler of a GPS indication are three threads with a program
place each; `srs` is the mutex of the server, `ril` RIL_LOCK. `owner` says whose connection
a descriptor is, `clients` and `fdOf` are the list; when a freed client is read
(`srs_client_send` after a failure, `Means`), what comes out is any client or none. Peers
connect, say what they are, ping, read or do not, and close.
The handler removes a client without the mutex of the server (srs.c:281), so the steps of the
list are those that this tells apart. Its removal is `GpsDrop`, the free of the client, and
`GpsUnlink`, the free of the entry. A registration is `Register`, the walk to the end of the
list, and `Link`, the write behind the entry it found, which may be freed by then or about to
be: the client is in the list or lost. A walk of the reader sees the whole list or only what is
before the entry that is being freed (`Views`). Where a walk reads freed memory, or two threads
free at once, anything may follow: `Astray`, which excuses everyone. The other removals have
both locks, or the mutex of the server, and are one step.

## 4. The runs

| Run | Instance | States | Shows |
|---|---|---|---|
| `calls` | 3 identifiers, 3 slots, 2 tokens, 2 commands; symmetry | 187 593 | no token completed twice, one dialled call, the table agrees with the modem, each kept token has a command under way |
| `tones` | 2 identifiers, 2 slots, 2 tokens, 2 commands, until commands on one call cross | 381 454 | each confirmation completes its own request, no tone is forgotten, every kept request of a call or a tone is answered |
| `sms` | 5 tokens, 5 messages | 22 846 | list, token in flight and reports aligned; FIFO line; every message is sent |
| `gprs` | 2 cids, 2 contexts, 3 tokens, 3 commands and set-ups | 270 939 | tokens, contexts and connections matched; no context orphaned; every kept request completed |
| `tunnel` | memory for 2 connections, 3 threads | 257 800 | no frame on its way when a stop returns; the stop returns, or the two locks embrace |
| `sim_io` | 3 tokens, all commands, both files, 2 SMSC reads | 39 595 | order, own answer, reason to wait; answered unless the list was stopped |
| `radio` | 4 tokens; symmetry | 1 344 | radio follows power and SIM; identities answered once, none lost |
| `chv` | 4 tokens, 3 commands; symmetry | 310 508 | enough answers; a lone request gets its own |
| `network` | 2 tokens, 2 networks, reports of up to 2 entries, 2 commands | 321 844 | each token meets its answer; the list is the last report's; settings survive restarts, or are the default after a cut-off write; a selection is answered |
| `client` | 2 tokens, 2 loops, 2 tries | 124 654 | objects live while used; nothing handled before the start is over; requests completed once; handlers return |
| `files` | 2 descriptors, 3 directory entries, 3 openings, packets of up to 3 parts | 495 807 | packets arrive as they were sent; handles mean what was opened until the table has wrapped over them; requests answered in order |
| `srs` | 2 peers, 2 descriptors, one message in a socket, one indication | 734 742 | list, descriptors and connections match; pings answered |

Bounds, and why they are enough:

- *Call slots.* Three slots and three identifiers give an active, a held and a waiting call
  at once (the largest configuration any branch of the requests tests) and a full table for
  the next one; MAX_CALLS is 6, and the theorems of section 6 hold for any number.
- *Commands.* The longest burst of one handler is two, and with room for two every reaction
  of the far ends can fall between the two and before a confirmation. The bound is a guard on
  sending (`Len(cmds) + Len(q) <= MaxCmds`). With three a burst can stand behind an earlier
  command: everything holds then too (2 010 695 states, minutes), and the theorems say so for
  any number.
- *Tones.* Two commands in the line that tones and calls share: the longest burst of a start
  or a switch, and enough for a confirmation to meet a change of the call it is about. Once
  tones are doubled nothing is claimed, and the model stops. With `MayCross = FALSE` it stops
  as well once commands on one call crossed; with `TRUE` everything holds too (1 073 274
  states, minutes), and the two invariants are proved for both.
- *Tokens.* Two calls' tokens are enough because a third request on busy calls is refused at
  once, with its token free again. SMS has five, so that the error path meets a list of
  several. The radio has one for each kind and one for a duplicate or a power request.
- *Contexts.* Commands are processed in order, so a set-up behind the STOP of a failed
  context starts after it: unless set-ups crossed, two connections never have the modem keep
  three contexts. With `ContextId = {x1, x2, x3}` the same configuration holds too (1 192
  212 states, three minutes).
- *Tunnel.* Two pieces of memory and three threads: two connections that run at once, and a
  connection that is freed under its thread, registered again in the same memory and given the
  third thread. A thread is started once.
- *CHV.* Three commands under way, so that more than two requests overlap.
- *Network.* Two entries are the shortest report in which one network can be listed twice;
  two networks let one be listed and the other not. Two commands let a registration report
  come before, between or after two confirmations.
- *Client.* Two loops are one recreation and one end, two tries one failed and one last; all
  further turns repeat these. The theorems hold for any number.
- *Files.* A frame of 4 units and a header of 3 give packets of 7 units, whose last part has
  the length of a header, and of 9, whose has not; three openings reach the wrap of a table
  of three, of which the code uses two, so that the third directory takes the entry of the first,
  and both are closed.
- *SRS.* Two peers and two descriptors: one client can be dropped while the other is read or
  registered, and its descriptor used again. The model stops when every peer is excused, as
  nothing is claimed from there on; with two peers a registration that is lost excuses both. That
  a third goes on unharmed is proved (`SrsClientsKept`, for any number of peers); a run of three
  peers is too large to finish.
- *Deadlock* is checked where the system can always move. Others may stop: `gprs`, `tunnel`
  and `sim_io` when all tokens are kept for ever after a crossing, in the lock embrace, when
  all threads were stopped, or when the SIM I/O list is stopped; `tones` when tones were
  doubled or commands crossed; `files` when the process has ended or is in a state of which nothing is claimed;
  `srs` when the server has ended and the peers are through, or every peer is excused.

Every property of these runs is broken by at least one small change of the code listed in
`PROJECT.json` under `mutants`; those changes are the operators marked "Mutant" in the modules.

### Where the code and its text disagree

Four sentences of the source are stated as definitions that no run checks, because the code
does not satisfy them. With `INVARIANT` and the name in the configuration, TLC shows a
behaviour.

| Definition | The text | The code |
|---|---|---|
| `OneOutstanding` (`RilSms`) | "Another outgoing SMS is being processed, adding to the list" (sms.c:337) | the error path sends the next message while one is with the modem (sms.c:364) |
| `FailedCid` (`RilGprs`) | "No GPRS connection was reported to have failed" (gprs.c:628) | `gprs_last_failed_cid` outlives its connection; the cid is used again and a good connection is freed with its token (gprs.c:632) |
| `BeingProcessed` (`RilSimIo`) | "Another SIM I/O is being processed, adding to the list" (sim.c:834) | an unknown command sends nothing and completes nothing (sim.c:773), and answers about 0x6F42 go to the SMSC handler: the list stops |
| `KnownIsAnswered` (`RilRadio`) | "this should be called after syssec data loading and after receiving system info from modem" (mocha-ril.c:254) | it is not called after the loading (pwr.c:63), and at system start it runs with the radio just set to off (pwr.c:44) |

### What else came to light

These are in the models, as excuses of a property or as choices of an action:

- A request that comes while the client is not READY is completed and then dispatched all
  the same (mocha-ril.c:343), so it is completed twice or stored after its completion; a
  client is READY also after a creation that failed (client.c:145), and after the last turn
  `ril_data` points to freed memory.
- `ipc_send` reads the inner object before it has the lock (ipc.c:54); a handler that
  overlaps an error of the reader may use a freed one.
- The confirmation of a search completes its token again if the modem reports twice; the
  confirmation of a selection completes it without looking (network.c:407, network.c:421),
  so RIL_TOKEN_NULL is completed when a registration report came first.
- The selection mode is sent as 1 by a search and 0 by an automatic selection, although the
  enumeration calls 0 manual and 1 automatic (include/device/wave/tapi_network.h:104).
  Nothing reads it back, so it is left out.
- A file that is being written is empty until it is written (util.c:330): a process that
  ends in between starts with the default, whatever the framework had asked for.
- A tunnel thread that is before its test when its connection is freed (gprs.c:175) reads
  `thread_state` as 0, not 2, does not exit, and can read and send frames under RIL_LOCK; when
  the memory is a connection again it stays for good, as a second thread of it. With `INVARIANT
  FreedQuiet` in `MCGprsTunnel.cfg` TLC shows it.
- `FmMoveFile`, `FmRemoveDir` and `FmGetQuotaSpace` fill no answer in (fm.c); what is sent
  and freed then is not known.
- On the jet the header of a packet in pieces is freed before it is sent, and a short read
  dispatches the previous frame again.
- The index of directories wraps over open ones and never uses the last entry (fm.c:528). Closing
  the older of two that had the same entry closes the newer one (fm.c:552), and closing the newer
  one is then a second `closedir` of freed memory.
- The SRS server joins a detached thread, lists a client after its descriptor is open to the
  reader's select, and closes descriptors read from freed memory (srs.c:281); the descriptor of
  an entry left over from that may be another client's when the reader closes it (srs.c:442);
  two messages read at once are one message to it (srs.c, `srs_client_recv`).
- The handler of a GPS indication removes a client without the mutex of the server (srs.c:281). A
  client that is registered meanwhile can be linked behind the freed entry and is then never read
  (srs.c:53-60): its descriptor stays open and its pings are not answered.

## 5. Fairness

Safety runs state none. Liveness assumes as little as the code needs:

- `RilTones`, `RilGprs`, `RilSms`, `RilSimIo`, `RilNetwork`: weak fairness of the steps of
  the modem that process a command or conclude a set-up. The modem is a separate processor,
  and the library has no timeout, so without an answer nothing could ever be completed.
- `GprsTunnel`: each thread, and a handler that has begun, is scheduled. No strong fairness
  is assumed of the mutex: a pthread mutex does not promise it. The stop returns without it,
  because `thread_state` is 2 before the handler waits and the thread exits at its next
  test.
- `RilClient`: the reader and the handlers that have begun are scheduled. Weak fairness is
  enough: the reader cannot take the mutex of the client twice while a handler has
  `RIL_LOCK`.
- `FileService`: the library reads and answers; the modem takes its answers.
- `SrsServer`: the reader and the handler of an indication are weakly fair. The acceptor
  (accepting, registering, linking, and the end of the server) is strongly fair, as one thread: the
  reader takes the mutex of the server again and again, but is without it for up to three
  milliseconds in `select` each time. Peers need not do anything, and `accept` need not fail.
- Liveness is stated of one token or peer (`AnyToken`, `AnyPeer`) wherever the module tells
  none from another: what comes to be for one comes to be for every one, by renaming.
- Nothing is assumed of the framework, the network, the far ends, the peers or the SIM's
  state.

## 6. What is proved

For every value of the constants (any number of tokens, slots, identifiers, connections,
commands under way), under the named assumptions on constants in each module. `RilCallProofs`
(calls and tones), `RilSmsProofs`, `RilSimIoProofs`, `RilGprsProofs` (data connections and
tunnel threads), `RilRadioProofs` (power, SIM state, PIN and PUK), `RilNetworkProofs`,
`RilClientProofs` and `ServiceProofs` (local server and file service) have an inductive
invariant for each specification, a lemma for each kind of step and the theorems. Every
invariant a run checks is one of them:

| Theorem | Says |
|---|---|
| `CallTypes`, `CallTokensOnce`, `CallDialSlot`, `CallIdsDistinct` | `Spec => []` of the safety invariants of the call table |
| `CallNeverForgotten` | a request kept in the table leaves it only by being completed |
| `CallViewAgrees`, `CallTokenBacked` | unless commands crossed on one call, the table shows what the modem has, and each kept token has a command under way on its call |
| `TonesRequestsAwaited`, `TonesForgotten` | while starts and stops alternate and each waits for its confirmation, the two tone requests are pending, distinct and kept by no call; unless the stop went to another call, a tone the library has forgotten is off or a stop is the last tone command under way |
| `SmsQueueBehind`, `SmsAwaited`, `SmsInFlight` | the invariants of the outgoing list |
| `SmsOutboxSafety` | `Spec => OutboxSafety`: `sms.c` implements the FIFO line |
| `SimIoFirstIsCurrent`, `SimIoWaits`, `SimIoOwnAnswer` | the oldest request is the current one, one that waits does so behind a request that is with the modem or for the service center number, and the answer that comes is its own |
| `SimIoInOrder` | `Spec => InOrder`: SIM access implements the same FIFO line |
| `GprsTokensHeld`, `GprsContextsDistinct` | each connection's token is pending and its own; no two connections share a context, and the modem has it |
| `GprsNoOrphan`, `GprsTokenBacked`, `GprsNoStray` | while everyone waits their turn: no context is left running in the modem that the library forgot, each kept token has something that will complete it, and none is completed twice |
| `TunnelTypes`, `TunnelStopped` | types, and no frame on its way when a stop returns, as long as no thread has outlived an earlier connection in the same memory |
| `RadioTypes`, `RadioFollowsSim`, `RadioTokensOnce`, `RadioNoneLost`, `RadioWaits` | types and all invariants of the radio run |
| `ChvTypes`, `ChvEnoughAnswers`, `ChvRightRequest`, `ChvRadioFollows` | as many answers are under way as PIN and PUK requests wait, and each is the right one if the framework waits; the radio state follows the SIM |
| `NetworkListedBest` | for every report, the list that `ipc_network_search_cnf` builds has each network once, with its best system |
| `NetworkAwaited`, `NetworkListFromReport`, `NetworkSettingsKept` | all invariants of the network run; the last says that the selection mode is what was asked for, or the default after a write of its file was cut off |
| `ClientInvariant` | `IInv`, the invariant from which the next three follow |
| `ClientLifetimes`, `ClientInitFirst`, `ClientCompletedOnce` | all invariants of the client run, for any number of turns and tries |
| `SrsTypes`, `SrsClientsKept` | types, and a client that did nothing wrong and met no removal without the lock keeps its entry, its descriptor and its connection, for any number of peers |
| `FileTypes`, `FilePacketsWhole`, `FileOwnHandle` | types, also after a short read; a packet of any length is dispatched whole; a handle means what was opened with it, and nobody else has closed that, until the table may have wrapped over it |

*Calls.* `CallInv` is the conjunction of the type, `TokensOnce`, `DialSlot`, `IdsDistinct`
and `OneIncoming`. None is inductive alone: `TokensOnce` needs `OneIncoming`, because the
loop of `ril_request_answer` puts the same token into every incoming call; `OneIncoming` and
the lookups by identifier need `IdsDistinct`; naming the dialled call needs `DialSlot`. The
lemmas `KeepInv`, `SettleInv` and `DropInv` carry the three things a handler can do with a
slot, and the actions cite them.

*Commands on calls.* That the table agrees with the modem is not inductive on top of that:
what a handler does depends on what is still on its way. `LineInv` adds two facts, both while
nothing has `crossed`: no two commands in the queue name the same call (`Apart`), and each
command still finds what it presupposes (`AllFit`): a call to be answered rings as long as
its request waits, and the two calls of a swap are as they were when it was sent. Every step
is then one of two kinds: it changes one call and the command that names it (`Touches`,
`Settled`, `HandledLine`), so the other commands stay apart from it, or it sends a command on
calls that no other names (`SendLine`).

*Tones.* The steps of the calls leave the tones and their requests untouched (`Spared`,
`Untouched`), so `ToneInv` is `CallInv` and four facts about the tones. `OneEach` says that
one start and one stop at most are on their way until a request was `doubled`; `StopLast`
strengthens `ToneKnown`: it also says which tone the stop names and that every start before
it starts the same tone, without which a stop could be for another tone than the one that
plays. The theorems hold with `MayCross` TRUE too, which the run leaves out for its size.

*Messages.* `SmsInv` adds `Awaited`, that the waiting requests and the one in flight are
distinct and pending: without it a report could complete a token that also waits in the
list. The refinement maps `SendStatus` to `Leave`, `SendSms` to `Join` and the error path to
`Leave` or to a stutter.

*SIM files.* `ipc_sim_io_response` completes the current request without looking at which
command was answered. What makes that right is `OneOut`: at most one command whose answer
goes to this handler is under way; the others are the library's own question for the service
center. With `FirstIsCurrent` (the current token is the oldest in the list) the answer belongs
to it. The refinement of `RequestLine` is the same line as that of the messages.

*Data connections.* `ListInv` (types, `TokensHeld`, `ContextsDistinct`) holds in any case,
`TurnInv` while everyone waits their turn. The modem names a context only when it confirms
the set-up, so the handler looks for a connection without one. `OneStart` says why it finds
the right one: one set-up at most is under way, and its connection is the only one with no
context. `StopsNamed` says that no stop is sent for a connection that has no context yet, and
`FailedStopped` that a connection the framework may still take off the list never got a
context or is being stopped; `NoOrphan` needs it at that step.

*Tunnel.* All of it is said of memory that no thread has outlived (`haunted`): who holds each
mutex (`MutexHeld`), how `thread_state` follows the handler (`StateFollows`) and what the
handler knows of the connection it works on (`HandlerKnows`). When the handler has passed the
mutex, a thread of this connection is at `lock`, `select` or `check` with 2 in `thread_state`, or
has exited. Once the connection is freed that is lost: the state is 0 again, and the memory is
`haunted` if the thread had not exited. A second connection there may find its mutex given back by
the first one's thread, and its stop may return with a frame on its way; therefore the exception
in `StoppedQuiet`, which TLC shows to be needed.

*Radio.* The conjunction of the five invariants is inductive. The step that needs an
argument is `ril_tokens_check` (lemma `CheckKeepsTokens`): it clears the token of the
version without testing whether it was answered. That loses nothing because it does so only
with the radio on, the radio is on only with power, and there is no power before
`ipc_cp_system_start` has named the version.

*PIN and PUK.* `EnoughAnswers` compares two counts. A request adds a command and one waiting
kind at most; an answer takes one command off and `ipc_lock_status` completes a request
whenever one waits (`SomeActive`), so the count of those that wait goes down with it.
`RightRequest` follows because without overlap there is one command at most.

*Network.* `Awaited` says of both tokens that they are pending and that the last command of
their kind is theirs. The framework may use the token of an answered search, which is not
cleared, for a selection; `Apart` says that only then are the two the same. `SettingsKept` needs
the file: `FileKept` says that it holds the selection mode asked for last, or nothing after a
write that was cut off, so that a restart takes nothing else back. `Listed` is a recursive
function over the report; that it agrees with `Best` on every prefix is proved by taking the
least prefix on which it does not (`BuildsBest`), which needs no theorem of induction.

*Client.* `IInv` has five parts. `StartOrder` says whose `RIL_LOCK` is: that of the start
until it is over, then of the one handler that runs, so a frame waits until the start is
over. `Objects` says in which steps the reader has an object and that the pointer it sends
with is the one to it. `Senders` is the part that `Lifetimes` needs and no lock gives: a
handler that began while the client was READY and that the reader has not excused finds the
reader between `select` and `destroy`, with the object its pointer names. `TokensOpen` says
that the token of the running request is pending and kept nowhere yet. The mutex of the
client appears in none of them: none of these properties depends on it.

*SRS server.* The claim is about the end of a long story: a client is dropped, its descriptor
is closed or is not, `accept` gives the number away, and the reader still has it in its set.
`Matched` follows it. `Entries` and `Met` say who is in the list, in the backlog, or accepted
and not listed yet. `Owned` says that a connection has one descriptor, the one of its entry,
or its client is freed and the entry not yet; the converse does not hold, an entry can name a
descriptor that is another's by now. `Kept` is the property for the client that is not listed
yet, too. `Turn` is what the reader needs: of each descriptor it is going to read there is
something to read or its peer is excused, although neither the list nor the descriptors stand
still between `select` and the read. A walk that meets the handler's removal sees clients of
the list, perhaps not all of them (`Seen`), and the descriptor that is closed because its
client was not seen excuses its peer. A registration that meets the removal is linked at the
end of the list (`LinkMatched`), or its client is excused. All of it is claimed until the
acceptor fails; the types hold after that as well. The proof found a case that two peers do
not show: a descriptor closed for a client that had it before is given to a third, and the
entry left over makes `srs_client_read_loop` close it again (srs.c:442). The third is excused
now (`RecvFails`); the run still has two peers, and the theorem covers any number.

*Frames and files.* `Line` says that one request at most is asked, under way or answered, and
that the frames to come are a rest of its fragments (`Rest`), with just the parts before them
gathered and `multiFramePosition` at their length. That the position meets the length of the
packet at the last part and at no earlier one is arithmetic (`PartsCover`, `PartPosition`): it
is where an off-by-one would be. For the handles, `Stands` strengthens `OwnHandle`: the index
has moved no further from the entry of a directory (`Distance`) than there were openings
since, so it comes back to it only after MAX_OPEN_DIRS - 1 of them, and what an entry holds is
still open (`streams`), so `closedir` closes the directory it is asked for and no other
(`CloseDirStands`); a descriptor is free before it is opened. A handle that is being closed
and one that is being given count as well. `late` is the modem's opening one directory too
many: it depends on nothing the library does, and after it nothing is said of handles, only of
packets. After a short read nothing of either is claimed; `FileTypeInv` carries the types over
both.

No run checks what `CallTypes`, `CallIdsDistinct`, `CallNeverForgotten`, `SmsQueueBehind`,
`SimIoFirstIsCurrent`, `GprsContextsDistinct`, `GprsNoStray`, `TunnelTypes`, `RadioTypes`,
`ChvTypes`, `ChvRadioFollows`, `NetworkListedBest`, `SrsTypes` and `FileTypes` state: for a
small instance too it follows from the theorem.

**Model-checked only.** All liveness (and `ENABLED`), which is out of the prover's reach. No
module uses a recursive operator: the fragments of a packet are a function of the number of the
part, so no induction over them is needed.

## 7. What is not modelled

- The loop that lists the current calls, the last fail cause and the signal and battery
  reports: they read state and send it on. So do registration, operator, cell and time
  values of `network.c`.
- USSD (`ss.c`): one state field that each request and indication sets; its requests are
  answered at once.
- Drivers, sound, test mode, location, bluetooth, bootstrap, PDU and number conversions:
  functions of one packet, or device access, with nothing to order. Encodings that a guard
  depends on are reduced to the guard.
- Cancellation (`ril_on_cancel`): it marks an entry of a registry that nothing fills, so it
  has no effect.
- Names and contents of files, and the errors the operating system gives; the commands to
  sound and GPS that a message of a local client stands for.
- The kernel side of a descriptor closed while a thread selects on it (gprs.c:289).
- Failing allocations, where no error exit is taken.
- A modem that restarts with calls or connections open (pwr.c:35): the code resets nothing
  there.

## 8. Plan

The modules were ordered by what would hurt a user of the phone most: calls, messages, data,
SIM, then the requests that keep two tokens, then the transport. All of them are there, and
the invariants of all are proved. What is left:

| Step | Where | About |
|---|---|---|
| 1 | `RequestLedger` | an abstract specification of all request modules: a request is open, then answered once; each module refines it until a history variable says otherwise |
| 2 | `RilCall`, `RilGprs` | a modem that restarts with calls or connections open (pwr.c:35) |
