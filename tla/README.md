# A TLA+ model of libpgen

libpgen (`src/pgen`) is a header-only C++ library for building, parsing, sending
and recording network packets. This directory holds TLA+ modules translated from
its source, TLC configurations that check them on small instances, and proofs
that TLAPS checks. `PROJECT.json` lists the runs, the source lines behind each
definition, the hazards and the theorems.

## 1. The system

| part | state | operations | modelled in |
|---|---|---|---|
| packet objects and `data_container` (`core/packet.h`, `core/data_container.h`) | header members, the vector of pointers to them, the raw vector (128 cells of header area, then the contents), `_type` | construct (empty, from a buffer, by copy), assign, write a member, `clear`, `compile`, `analyze`, `set_contents`, destroy; `raw`, `length`, `contents` read | `Packet` |
| protocol headers (`core/protocol/*.h`) | the public members; ipv4's private option array | `write`, `read`, `length`, `clear`, `set_option` | `Headers`, `Protocols` |
| `module::check` (`module.h`) | a packet object and a capture | analyze, compile, compare, again until the end of the file | action `Check` of `Packet`; its loop is the fairness of `PcapStream` |
| `file_stream` (`io/file_stream.h`) | a stdio `FILE` | `open`, `close`, `read`, `write`, `eof`, `flush` | `FileStream` |
| `pcap_stream` (`io/pcap_stream.h`) | a `file_stream` | `open`, `send`, `recv` | `PcapStream` |
| `pcapng_stream` (`io/pcapng_stream.h`) | a `file_stream`, block objects | `open`, `send`, `write_block`, `recv`; `write`, `read`, `set_packet` of blocks | `PcapngBlock`, `PcapngStream` |
| `net_stream` (`io/net_stream.h`) | a descriptor; on BSD a buffer of frames | `open`, `send`, `recv`, `close` | `NetStream` |
| addresses (`core/macaddress.h`, `core/ipaddress.h`) | octets and a cached string | `clear`, `set_str`, `set_octet`, `setbydev`, `setbyarray`, `setbcast`, assignment | `Addresses`, in headers: `HeaderSeal` |
| `checksum`, `hex`, `bin` (`util.h`) | none | pure | `Checksum`; `calc_checksum()` of ipv4 and udp in `HeaderSeal` |
| zundoko example (`example/zundoko`) | the server's `state`, datagrams in flight | `client_hanle`, `send_zundoko` | `Zundoko` |
| arping tools (`example/tools`) | a counter, a `net_stream` | request, wait for replies | `Arping` |
| tmp protocol example (`example/tmp`) | a message number | send, print | not modelled: no state depends on what arrives |
| other examples, tests, umbrella headers | none of their own | straight-line calls | not modelled: evidence of how the library is called |

How they interact:

- A program calls packet objects and streams directly. There are no threads. The
  hard orders are orders of calls: a packet is filled, compiled, sent, analyzed,
  copied and reused in any sequence, and each call leaves part of the object as
  an earlier call made it.
- `stream << packet` is `send(packet.raw(), packet.length())`
  (`core/packet.h:160-171`). `raw()` depends on the last `compile()`, on the
  present `hlen` and on `set_contents()`. A receiver hands the buffer of `recv()`
  to `analyze()`.
- Two programs share a capture file. stdio decides when the writer's bytes reach
  it; the reader's `read()`s can fall between any two parts of a record, the writer can
  die with bytes in its buffer, and the disk can be full in the middle of a record.
- Frames arrive at a network stream at any time, while `open()` is under way as
  well, and a signal may interrupt a `read()`.
- The programs of the zundoko example talk over UDP: the server serves several
  clients from one state variable, and datagrams get lost, doubled and reordered.
- The arping tools send a request and count the replies that a `net_stream` gives
  them, among their own requests and whatever else is on the network.
- A header holds two addresses and a check. It is filled by the program, sealed
  with `calc_checksum()`, written into a buffer and read from it by another program.

What makes each part correct:

- *Packets*: raw data is the image of the headers at the last `compile()`, and
  nothing else changes it; pointers stay inside the object; the asserted bounds
  hold; a throwing call leaves raw data alone; `analyze()` then `compile()`
  reproduces a frame; what one object sends, another one reads back.
- *Capture files*: a reader gets the packets that were sent, in order, none
  invented and none skipped, and all of them once the writer has closed; blocks
  can be walked whatever the program does with block objects.
- *Network streams*: frames come out once, in order, none skipped once the kernel
  has taken it, and none from before the last `open()`.
- *Addresses and checksums*: the text of an address is that of its octets after
  any calls; a sealed header verifies at its receiver, and one whose addresses were
  changed on the way does not.
- *Arping*: a reply is counted once, nothing else is, and the program ends when the
  host answers.
- *Zundoko*: KIYOSHI is the answer to exactly the sequences the state machine
  stands for; a client takes its own answers, and gets one unless its own datagram,
  or the answer to it, is lost.

The `hazards` of `PROJECT.json` give the lines where each of these could go wrong
and the properties that would notice.

## 2. The modules and the code

Data are abstracted in one way throughout: a buffer is a sequence of **cells**,
and a cell stands for one field (a byte, a 16-bit word, an address) instead of a
byte. Lengths count cells. `htons` stays: it is a permutation `Hton` of the
values that is its own inverse, and the model checker uses the real byte swap.

### Headers, Protocols

`Headers` defines `write()`, `read()`, `length()`, `set_option()` of a header over
a table that says for each member whether it is copied, byte-swapped or replaced
by zero, in each direction (`WriteAs`, `ReadAs`). `Protocols` gives the tables of
the five headers as their sources have them, the struct layouts, what `clear()`
assigns and the minimal lengths. Everything is an operator on constants. `hlen` is
kept in the range `ip.h:19-20` declares; below 5 the code copies a negative
number of bytes and has no behaviour to model.

The order inside `read()` is kept, because it matters: ipv4 assigns every member
before it finds that the options do not fit and throws.

### Packet

One action per public call: `Construct`, `ConstructFrom`, `CopyConstruct`,
`Assign` (between objects of one class), `AssignBase` (through `packet&`),
`SetField`, `SetOption`, `Clear`, `SetContents`, `Compile`, `Analyze`, `Receive`
(`analyze()` of what another object sends), `Check` (one turn of
`module::check`), `Destroy`. The variables are the members (`hdr`), the header
vector (`headers`), the `data_container` (`raw`), `_type` (`tag`), what the last
call reported (`result`) and one history variable, `compiled`: the members at
the last `compile()` whose bytes the header area still holds.

Points at which the code is not what one would expect, and which the model keeps:

- `arp`'s copy constructor delegates to `arp()` and not to `packet(rhs)`, so a
  copied arp packet has an empty container (`protocol/arp.h:183`);
- `packet::operator=` assigns through `header&`, whose assignment copies nothing;
- `_type` is never assigned: it is one of `Garbage`, chosen at construction;
- `analyze()` that throws in a later header leaves the earlier headers changed;
- `set_option()` leaves `hlen` and the rest of the array alone.

### Checksum, Addresses, HeaderSeal

`Checksum` is `checksum()` for octets of `Base` values (256 in the code) and words of
two of them, so that a small `Base` shows every carry: words are added, an odd last
octet as it is, the sum is cut into a high and a low word that are added once, and
the carry of that addition is lost. Words are those of a little-endian machine, and
`Ntohs` is a permutation of the words that is its own inverse.

`Addresses` gives, for each of the three classes, what each call makes of the octets
(`raw`) and of the cached text (`name`). A text is the numbers it shows; a text that
is malformed, an index out of range or a device without an address throws and leaves
the object as it was. The sections of an ipv6 address lie in network order, so its
text is `ntohs()` of them, while `set_section()` does not convert.

`HeaderSeal` puts two addresses and a check into a header: ethernet, ipv4, ipv6, or udp
with the pseudo header. `CallSrc` and `CallDst` are all calls on an address, also with
the other address as the argument; `SetRest` stands for the other members, which go
into the sum as one number; `SetChecksum(g)` is `check = calc_checksum()`, where g is what
the uninitialised sum of `checksum()` held; `Write`, `Tamper` and `Read` are the buffer on
its way. The history variable `seal` says whether the check was computed as it must be
(check zero before, the sum from zero, no carry lost) and what happened since.

### FileStream, PcapStream, PcapngBlock, PcapngStream, PacketLog

`FileStream` is the stdio file: `disk`, the writer's buffer `wbuf`, the reader's
`cursor` and end-of-file indicator. stdio may move any front part of the buffer to
the file at any time (`Flush`); `CloseWriting` moves the rest; `CrashWriting`
drops it. A `write()` that throws leaves a part of its cells in the buffer
(`FwriteFails`), and an `fflush()` that fails, which does not throw, is a `Flush` of a
part. `sticky` says whether `fread()` fails at once while the indicator is
set, which C libraries answer differently. `fread()` and `fwrite()` of zero bytes
return 0, and the wrapper takes that for a failure.

`PcapngBlock` is the class `pcapng_block` and its three kinds as values: the
constructors, `set_packet()`, when `write()` throws (`Writable`), what it leaves in the
buffer (`Image`), when `read()` throws (`Readable`) and what it makes of a buffer
(`BlockIn`). Options are public members whose size nothing adds to `total_length`.

`PcapStream` and `PcapngStream` extend `FileStream` with the formats. `recv()` is split into
one action per outcome. In `PcapngStream` it is a loop, and each turn is a step
of its own, so the writer can act between two turns. The history variables `log`,
`ends`, `passed` and `recvd` say which packets the file holds, where their
records end, and which of them the reader went by and got. `lost` records
why a reader no longer stands between two records: a short read, a buffer that
was too small, a truncated file, a block larger than the reader's array, a block without
a body, the place where a `write()` threw midway. `torn` counts the packets from that place on, which are
not in `log`.

`read_block()` reads head, body and tail with a `read()` each. When all three are there,
`recv()` takes the block (`RecvPacket`), skips it (`RecvSkip`), or throws behind it
(`RecvRefuse`), and the `feof()` before it has cleared the end-of-file indicator by its
`ungetc()` (`Advance`). When they are not, the call throws inside the block, and the reader is
out of step: in a block that is cut off (`RecvShort`), in one of twelve bytes, whose body
of no bytes `read()` takes for a failure, so that the next `recv()` would start at the
tail (`RecvNoBody`), and in one that is larger than the array (`RecvOverrun`). A
`total_length` below twelve wraps and asks for all that the file has, which ends like the
first or the last of these. A reader that is out of step is not followed any further.

A pcapng file may be one that another program made (`Files`): with blocks
that `recv()` skips, an SPB or a tail that differs, which it refuses, options, a
packet that was cut when it was captured, and the blocks inside which it throws. Which
packets such a file has is for its
description to say: `before` gives, for each position a walk over the blocks comes to,
how many packets lie before it, and `FilesAssumption` that this and `log` are what
`Readable` and `BlockIn` make of the cells. The walk ends where `recv()` would throw inside
a block; all of `log` lies before the end of the file, if the walk comes to it.

`PacketLog` is the abstract specification: a log with `Put`, `Take`, `Pass`,
`Lose` (a crash, never of a packet that was received) and `Reopen`. Both streams
implement it through `ok <- InStep` (property `KeepsLog`); pcap with whole
packets, pcapng with packets cut to the caller's buffer.

### NetStream

One module for both platforms, chosen by the variable `platform`. `open_netif()` is
split at the points where a frame can arrive in between: the descriptor
(`OpenDescriptor`), the binding to the interface (`Bind`), the end (`OpenDone`, with
bpf's flush and the reset of `_buffer_point`); `OpenFails` is any `ioctl()` that
throws. `recv()` is a call followed by turns: `ReadBlock` and `TakeFrame` on bpf,
`ReadFrame` on Linux. `point` is the offset in `_buffer`, and `Start` computes
where the kernel aligned each frame, so that a pointer that misses a header is
seen (`Misread`). `read()` compares a byte count with `EINTR`: `Mistaken`.

A pointer the constructor never set, and what `recv()` reads away from a header,
have no defined outcome; the model stops there and says so in `lost`.

### Arping

`Arping` extends `NetStream` with the two programs: `arping` asks once and waits for a
reply, `arping2` asks for every frame it receives until it has counted enough. An
action of a program is one call on the stream, or the look at the frame it returned;
`recv()` goes on in its own steps, and the network acts in between. Frames have a kind:
the program's requests, which a bpf device gives back to it, replies of the host, ARP
replies nobody asked for, other traffic, and frames of type ARP that are too short, on
which the constructor of `pgen::arp` throws. A throw ends the program. `arping` looks at
the type and the operation of a frame itself (`main.cc:18-21`); `arping2` calls
`pgen::module::detect`, whose definition is commented out (`module.h:168-205`), and is
modelled as telling apart the same kinds of frames.

### Zundoko

The server's `client_hanle()` is one action, with the state machine in `Count` and
`Answer`; a client's turn is split at the blocking `recvfrom()` (`SendZundoko`,
`RecvReply`). Datagrams are sets of records, delivered in any order; `Lose`,
`DuplicateRequest`, `DuplicateReply` and `Restart` are the faults. A server that is stopped
loses any of the datagrams on their way to it: those in its socket, the one between
its `recvfrom()` and its `sendto()`, and those that come before it is back. The history
variables `dropped` and `doubled` say which clients lost a datagram since they last got
one, and of which clients one was duplicated. The texts that can go with a datagram change
nothing and are left out.

## 3. The runs

| run | states | what it asks |
|---|---|---|
| `packet_udp` | 5 039 | every order of calls on one udp packet (three headers), whole frames, frames cut in each header, hlen 5 and 6 |
| `packet_pairs` | 18 020 | two objects: ipv4/ipv4, arp/arp, arp/ipv6, ethernet/ipv6; copies, assignments, receptions, destruction |
| `pcap` | 666 618 | writer and reader of one pcap file; empty packets, buffers too small, partial flushes, writes that fail midway, crash, reopening |
| `pcapng` | 616 856 | the same for pcapng, with EPB objects that get options, are filled and written in any order, and four files of other programs |
| `header_seal` | 163 366 | addresses of all classes under every call, in headers that are sealed, written, changed on the way and read |
| `net` | 45 892 | both platforms; frames that arrive during `open()`, an `open()` that fails or is repeated, interrupted reads, a kernel that drops |
| `arping` | 700 504 | both tools on both platforms; own requests, several frames of one `read()`, foreign replies, runts, a kernel that drops |
| `zundoko` | 336 090 | two clients and the server; losses and a restart that loses what the server had, or one duplicate |
| `packet_analyze_doc`, `packet_assign_doc`, `packet_type_doc`, `net_align_doc` | violation | statements of comments and messages the code does not keep (section 6) |

Properties:

- `RawIsWireImage`, `HeadersOwned`, `AssertsHold`, `FailedCallKeepsRaw`: as in
  section 1. `OthersUntouched`: a call on one object changes no other object.
- `CheckSucceeds`: `module::check` reports neither a length nor a binary error,
  whatever the packet object held before. It needs the frame's ipv6 traffic class
  and flow label to be zero, because `ipv6_header::write()` writes zeros there.
- `ReceiveRestoresMembers`: compile, send, analyze elsewhere gives the members
  and the contents back.
- `NothingInvented` (pcap): stronger than the refinement, it also covers a
  reader after a short read when the end-of-file indicator is sticky, and one that
  comes to the place where a `write()` threw.
- `ReadsBack` (pcapng): each block of the file lies where the one before it ends, and
  `read()` makes of it the block that was written, padding, option and all, although
  `set_packet()` adds to the length each time it is called and an option does not.
- `RecvFillsBuffer` (pcapng): `recv()` returns as much of the right packet as fits, and
  cells that are not the packet's only of a packet another program cut, as it does of
  the one in `MCFiles` that was cut to nothing.
- `KeepsLog`: the refinement. `Drained`: once the writer has closed, a reader
  that goes on calling `recv()` gets everything, unless it loses its way. `EndAfterAll` is
  what is safety in it: when the file is no longer written, a reader in step that would
  be told the end of it, at which the loops over a stream stop (module.h:216-221), went by
  the last packet. That holds also for a reader that met the end before, while the writer
  was late, with one exception, which the property names: where the end-of-file indicator
  is sticky and was set then, every later `eof()` says "end", and the loops do stop with
  packets left. That a reader ever gets there needs the fairness. Of a
  reader that a block of another program brought out of step nothing is claimed.
- `TextMakesEqual` (header_seal): an address that is assigned the text of another one
  is that address. It fails when octets or text are changed without the other.
- `Verifies`, `TamperSeen` (header_seal): the two sides of the checksum. `Verifies`
  excludes the sums whose second carry `checksum()` loses, and a sum that did not start
  from zero, through `seal`; `TamperSeen` needs no exclusion, since what was sealed
  verified.
- `CountEarned`, `Paced`, `Finishes` (arping): a program counts no more than the replies
  that came since its `open()`, sends no more requests than frames it received and one,
  and comes to its end or throws when the host answers. On bpf each own request that
  comes back makes `arping2` ask once more; the run is long enough for it to count its
  replies among these echoes.
- `InOrderOnce`, `NothingSkipped`, `OnlyFresh` (net): as in section 1, through
  repeated and failing opens. `RecvReturns`: a `recv()` returns when a frame is
  there, unless `read()` mistakes it for an interruption.
- `KiyoshiExactly` (zundoko): the state machine against a definition by runs of
  ZUN in the order the server heard them, whoever sent them; every fifth ZUN
  starts the count again. `AloneEarned`: a client that has the server for itself
  gets KIYOSHI only for its own last five datagrams. That the datagrams of two clients
  complete or break each other's sequences is described by the first and not denied by
  the second. `AnswersOwn`: a client none of whose datagrams was duplicated pairs each
  answer with its request, whatever happens to the others. `Answered`: a client goes on
  unless its own datagram or the answer to it was lost and no copy is left; one client
  that hangs does not hold up another.

Bounds, and why they are enough:

- *Header area*: 21 cells, one more than the longest header vector of the
  model, so an image that starts one cell too low is noticed and there is no
  slack to hide in. In the code it is 128 bytes for at most 14 + 60 + 8.
- *hlen*: 5 to 7 and one cell per word of options. Frames carry 5 and 6; 7 only
  gives the option array a second cell that nothing should reach. The proofs
  cover every range.
- *Objects*: two. Each action concerns one or two objects, and `OthersUntouched`
  needs one other object. A third adds no new pair.
- *MaxLog* = 2: a record before and a record after the one something happens to.
  A reader can be before, inside and after each.
- *pcapng*: `Align` 2 instead of 4, `TmpSize` 9 instead of 1000, so that
  a packet of one cell is padded, one of two is exact, and the block of one of six is
  too large. `MaxTotal` 9 lets an EPB object be filled twice, or once with an option of
  one cell. `Chunk` is 5: a partial flush of stdio fills whole chunks of the file, and
  blocks of seven and nine cells are cut at every kind of place (in `pcap`, `Chunk` is 1
  and nothing is left out). `Sticky` is `{FALSE}` there (a reader that is out
  of step is not followed in `PcapngStream`); `pcap` has both values.
- A reader that is out of step reads lengths from packet bytes. `PcapStream`
  follows it; `PcapngStream` stops, since a wrong length there overruns an array.

- *net*: frames of three lengths, two that leave the next bpf header aligned and
  one that does not, one of them EINTR cells long, and buffers of the same lengths;
  three frames, two of which fit into a kernel buffer: one before, one in and one
  after a `read()`.
- *header_seal*: octets of three values, so that words have nine and sums carry never,
  once and twice; one index in the middle and two out of range, in both directions; a
  text, an array and a device address of each class, and a malformed one; a udp payload
  of odd length. Tampering changes one octet of one address in a sealed buffer.
- *arping*: two replies instead of five, eight frames in all, at most two of them from
  other hosts (`MaxOthers`), a kernel buffer of two. `arping2` on bpf needs six at least:
  two replies, and its own requests that come back. A behaviour in which echoes use up
  all eight before the host answers twice ends at the bound, which `Finishes` excuses.
- *zundoko*: five datagrams of one client, the shortest KIYOSHI, and one of another
  client, which makes the fifth ZUN or breaks the sequence anywhere. Losses are not
  bounded and come together with a restart, which loses any set of requests; a duplicate and
  a restart happen at most once, and in different behaviours. The proofs cover
  every combination of the faults for all but `Answered`.

Deadlock is checked in every run except `zundoko`, where a client whose datagram was
lost waits for ever, and the clients' datagrams are bounded, and `arping`, where the
programs end.

Fairness is assumed only for the liveness properties. `PcapStream` has weak fairness of `recv()`
while the end of the file was not seen, which is the loop of `module::check`
(`module.h:216-221`). `PcapngStream` has it for the turns of the loop inside
`recv()` and for calling `recv()` again. Nothing is assumed of the writer, of
flushing or of crashes. `NetStream` has weak fairness of the turns of a `recv()` that
was called, not of frames that arrive or of signals. `Zundoko` has it for the server,
which calls `client_hanle()` in an endless loop (`server.cc:149-150`), and for a client
in `recvfrom()` when a datagram is there; clients need not send. `Arping` has it for the
steps of the program, which runs in a loop without a wait but `recv()`, and for the
host, without whose answers nothing is claimed; not for opening, for other traffic or
for signals.

## 4. What is proved

`PacketProofs` proves, for every set of objects, every assignment of classes,
all cell values, every header layout and every `Pivot`, `MinHlen` and `MaxHlen`
that meet the assumptions:

| theorem | statement |
|---|---|
| `Invariance` | `Spec => []IInv` |
| `TypeCorrect` | `Spec => []TypeOK` |
| `PointersAreOwned` | `Spec => []HeadersOwned` |
| `NoAssertionFails` | `Spec => []AssertsHold` |
| `CompiledImageLasts` | `Spec => []RawIsWireImage` |
| `FailuresKeepRaw` | `Spec => FailedCallKeepsRaw` |
| `CallsStayApart` | `Spec => OthersUntouched` |

Assumptions: `OctetAssumption` (cells are naturals with 0, `Hton` is its own
inverse), `SizeAssumption`, `SlotAssumption` (hlen is read unchanged) and
`PacketAssumption` (each header vector at its largest fits in the header area, the
buffers given to `analyze()` carry a legal hlen). TLC evaluates all of them in
every packet run.

The inductive invariant is `IInv == TypeOK /\ BigEnough /\ HeadersOwned /\
RawIsWireImage`. No conjunct is inductive alone:

- `HeadersOwned` is needed by everything else: `compile()` and `analyze()` follow
  the header vector, and only a vector that points at the object's own headers
  keeps hlen where `LegalFrame` looked for it.
- `TypeOK` carries the range of hlen, hence the bound on the length of the header
  vector; without it `compile()` could start before the vector.
- `BigEnough` (no container is shorter than the header area) makes positions before
  the pivot survive `set_content()`; `AssertsHold` follows from it with `TypeOK`
  and `HeadersOwned`.
- `RawIsWireImage` talks about cells and needs the other three to place them.

The main argument is `CompiledImage`: the headers are written from the last to
the first, each just below the one before it, so an earlier header's cells lie
wholly below those already written (`WriteOne`, `PutCells`), and each header's
image is intact at the end. The other lemmas say that `read()` keeps members well
typed (`ReadKeepsMembers`, `AnalyzedMembers`), that replacing the contents leaves
the header area alone (`ContentSet`), and that a step on one object leaves the
facts about the others standing (`Local`). Then there is one lemma per action.

`CallsStayApart` needs the invariant as well: `compile()` and `analyze()` write through
the header vector, and it is `HeadersOwned` that keeps them in the object's own members
(`ConstructionApart`, `AnalysisApart`).

`RoundTripProofs` goes on with the conversions of the five headers, for every size of a
header area, every number of option cells and every permutation `Hton` that is its own
inverse:

| theorem | statement |
|---|---|
| `ReceiveRestores` | `Spec => ReceiveRestoresMembers` |
| `ChecksSucceed` | `Spec => CheckSucceeds` |

Both assume `WriteAs = Written` and `ReadAs = ReadBack`, the tables of `Protocols`, which
every packet configuration chooses. All that is used of them is `Mirrored`
(`TablesMirror`): what `write()` swaps `read()` swaps back, options are copied, and only
ipv6 has members that `write()` replaces by zero. The argument is a walk along the
header vector. `Walked` says what `analyze()` has done before header i: it stands behind
the headers before that one, and their members are what `read()` makes of the cells
there (`WalkStep`, `Analysis`). `Wired` says of a buffer that it
holds the image of some members; hlen, which decides where the next header starts, is read from
the buffer before it is used, so that the walk takes the same steps as the one that
wrote it (`StepGoes`), and every member that is on the wire comes back (`Restored`).
`ChecksSucceed` is the other direction, from cells to members to cells (`CellBack`,
`CheckGivesBack`), and needs no `Wired` buffer: what the frame holds is given back.

`HeaderSealProofs` proves, for every `Base` above one, every permutation `Ntohs` that
meets `WordAssumption`, all addresses, indices and payloads:

| theorem | statement |
|---|---|
| `Typing` | `Spec => []TypeOK` |
| `TextInStep` | `Spec => []TextMakesEqual` |
| `SealedVerifies` | `Spec => []Verifies` |
| `TamperingShows` | `Spec => []TamperSeen` |

`SealAssumption` says that the sum of a header stays below `Words * Words`, 2^32 in the
code, as it does for every datagram of up to 65535 octets. The invariant adds to the
types that an address object is always `Named`, text and octets in step, and that a
sealed header, in the object or in the buffer, has a sum that is a multiple of
2^16 - 1 and not zero, and a broken one a sum that is not such a multiple.
`ZeroIsMultiple` and `FoldZero` are these sums in the terms of `checksum()`, carry by
carry; `SealCancels` says that adding the checksum of a sum to it gives such a multiple
unless a second carry was lost; `OctetApart` and `OffByLess` say that one octet changes
the sum by less than 2^16 - 1, so that it is such a multiple no longer.

`PcapProofs` proves, for every set of packets, buffer lengths and `MaxLog`, every `Chunk`
and both kinds of end-of-file indicator:

| theorem | statement |
|---|---|
| `Inductive` | `Spec => []IInv` |
| `Typing` | `Spec => []TypeOK` |
| `SentOnly` | `Spec => []NothingInvented` |
| `Implements` | `Spec => KeepsLog`, the refinement of `PacketLog` |
| `EndsLast` | `Spec => []EndAfterAll` |

Assumptions: `FileAssumption` and `PcapAssumption` (packets are sequences of cells, and
their lengths fit in a cell). `NothingInvented` is far from inductive: what `recv()`
returns depends on what lies at the cursor. `IInv` describes the file behind it, through
`Image`, what is on the disk followed by what is in the buffer, so that a flush changes
nothing:

- `Layout`: records lie one behind the other from the file header on, and end where
  the writing ends as long as no `write()` threw;
- `Contents`: each of them has the cells of its packet;
- `Partial`: when a crash left a part of the next record on the disk, the length in
  it says more than there is, so that `recv()` fails on it;
- `Place`: a reader in step stands where a record ends, and what it was handed so far
  are the packets of `log`; when its last read was short and the indicator is sticky,
  it is handed nothing more.

`AtRecord` is the heart: a reader in step that finds a header and as many cells as it
says stands before a record of `log`, and finds its packet. `CrashInv` shows that
`Partial` survives any crash, and `CrashLoses` that no packet a reader has gone by is
lost, which the step `Lose` of `PacketLog` demands. `AllPassed` is the other side of
`AtRecord`: where a reader in step finds nothing, in a file that is closed, `passed` is all
of `log`, or the indicator is sticky and set.

`NetStreamProofs` proves, for both platforms, every header size and alignment, every set of
frame lengths and buffers and any number of frames:

| theorem | statement |
|---|---|
| `Inductive` | `Spec => []IInv` |
| `Typing` | `Spec => []TypeOK` |
| `NeverTwice` | `Spec => []InOrderOnce` |
| `NoneSkipped` | `Spec => []NothingSkipped` |
| `FreshOnly` | `Spec => OnlyFresh` |

`NetAssumption` also says that no read of one frame has EINTR bytes of header and frame
together. The three properties are about numbers of frames, while `TakeFrame` looks at an
offset: `IInv` ties the two together. `Numbers` says that `_buffer` and the kernel's queue
are numbered as the frames arrived, all of the queue behind all of the buffer; `Returned`
that a pointer into the buffer has only later frames before it than those of `recvd`
(`Left`); `Fresh` that after `open()` neither holds a frame from before; `Kept` is
`NothingSkipped` for streams whose `open()` came to its end.

Where the frames of a buffer start is defined by recursion. Recursion over data is proved
about through sets: a set of naturals that is not empty has a least element (`Smallest`,
from `WFMin`), so one that has 0 and the successor of each of its elements is all of them
(`SetInduction`). `ChainExists` takes it for
the lengths up to which such offsets exist, `StartFacts` for the indices at which the
offset is a number, and `Disjoint` for the distances at which one frame ends before
another begins.

`PcapngProofs` proves, for every set of packets, options and files of other programs, every
alignment, `TmpSize`, `MaxLog` and `MaxTotal`:

| theorem | statement |
|---|---|
| `Inductive` | `Spec => []IInv` |
| `Typing` | `Spec => []TypeOK` |
| `BlocksBack` | `Spec => []ReadsBack` |
| `InPlace` | `Spec => []Origin` |
| `Implements` | `Spec => KeepsLog`, the refinement of `PacketLog` |
| `FillsBuffer` | `Spec => RecvFillsBuffer` |
| `EndsLast` | `Spec => []EndAfterAll` |

Assumptions: `BlockAssumption` (the types of the blocks differ, and a length of 2, that of
the struct of an EPB, is padded already), `FileAssumption` and `PcapngAssumption` (packets and
options are sequences of cells, and the block of a packet that is sent is not longer than
`MaxTotal`), and `FilesAssumption`: a file of another program is what its description
says, and a packet that was cut is recorded with its full length. In the invariant, `Layout` says that while the writer is open `ends` are
positions in the image (disk, then buffer), that the last is where the image ends, and
that `Blocks` holds of it; `Object` says that the two packet lengths of the EPB object are those
of its packet (`Epb`), whatever calls were made in what order; its `total_length` need not
fit its option, and then `write()` throws. The argument
about one block runs through `EpbImage`, where in the cells of a block the pieces of `write()`
lie, and `EpbBack`, which takes them out again as `read()` does; `PaddedBehind` and
`PaddedUp` are the arithmetic of the padding between them. `Lies` says that a sequence lies
in another one at an offset, and `BlocksMore` that a block appended to the file leaves
those before it what they were.

The types and `Layout` are not enough for the reader, who also reads files that are
closed, cut off by a crash or of other programs. `Origin` says which of these the file is:

- `Own`: the writer made it. Its blocks are a `Chain`, which says in terms of cells and
  lengths what `Blocks` says in terms of `read()` and holds after the writer is gone;
  behind it lies nothing, or after a crash a part of one more block (`CutOff`), whose
  `total_length` says more than there is;
- `Torn`: a crash left not even the first two blocks, or there is no file;
- `Foreign`: it is as another program left it.

In each of them a reader in step stands where `passed` says: in the first two blocks, or
where the block of packet `passed` ends. `PlaceOwn`, `PlaceTorn` and `PlaceForeign` show
that a block `recv()` takes is the next one of that file, never a part of one, and
`CrashOrigin` that a crash, wherever it cuts (`ChainFront`), leaves the reader's place and
every packet before it: the step `Lose`. With that, `GotPacket` gives both the step `Take`
of `PacketLog` and the length that `recv()` returns, and `AllPassed` goes through the three
kinds of files once more for the end of each.

`ArpingProofs` builds on `NetStreamProofs`, for both programs, any number of replies to
count and any network:

| theorem | statement |
|---|---|
| `ToolInductive` | `ToolSpec => [](IInv /\ ToolInv)` |
| `ToolTyping` | `ToolSpec => []ToolTypeOK` |
| `RepliesEarned` | `ToolSpec => []CountEarned` |
| `KeepsPace` | `ToolSpec => []Paced` |
| `RunsStream` | `ToolSpec => Spec`, that of `NetStream` |
| `FramesInOrder` | `ToolSpec => [](InOrderOnce /\ NothingSkipped) /\ OnlyFresh` |

A step of a program is a step of the stream or leaves it alone, so `IInv` holds here too.
`ToolInv` adds the set `Ticked`, the replies among the frames the program looked at, and
that the count is not above its size. A frame that is looked at is not in it yet, because the
frames `recv()` returned before have lower numbers (`Transitive`, from `InOrderOnce`), and
it is one that came since `open()` (`Recent`, from the step that gives `OnlyFresh`). Their
assumptions are those of the stream and `ArpingAssumption`: the buffer takes a whole reply.

`ZundokoProofs` proves, for every set of clients, any number of datagrams and every
combination of the faults:

| theorem | statement |
|---|---|
| `Inductive` | `Spec => []IInv` |
| `Typing` | `Spec => []TypeOK` |
| `ExactlyThese` | `Spec => []KiyoshiExactly` |
| `OwnAnswers` | `Spec => []AnswersOwn` |
| `EarnedAlone` | `Spec => []AloneEarned` |
| `AllPending` | `Spec => []NoneForgotten` |

`ZundokoAssumption` types the constants. `Counted` says what the server's `state` is in
terms of what it heard: the length, modulo five, of the run of ZUN at the end. For
`AnswersOwn` the invariant adds that the datagram a client waits for is in the network at
most once, as a request or as a reply, unless one of that client was duplicated (`Single`,
`Apart`, `OneOut`), and for `AloneEarned` that the server's `state` then counts datagrams of that client
(`Solo`), which a restart sets back to none. `NoneForgotten` is the safety side of
`Answered`: a client that waits has a datagram or an answer under way, or lost one since it
got the last.

Every invariant, every action property and both refinements that the runs check are
proved. Only model-checked is what is out of the prover's reach: liveness (`Drained`,
`RecvReturns`, `Finishes`, `Answered`) and `ENABLED`. The violations of section 6 are
counterexamples that TLC finds.

## 5. What is left out

- Destinations and sources that alias: a buffer passed to `set_contents()` or
  `set_packet()` is a value here.
- hlen below 5; byte-level layout of bit fields; time stamps; `summary()` and
  other output.
- Opening a file stream twice, and the descriptors a network stream forgets when it
  is opened twice. Writes that fail midway are in `PcapStream` only.
- Which interface a frame came from: on Linux a socket that is not yet bound takes
  the frames of all of them (`net_stream.h:136-150`).
- pcap files of other programs.
- What a pcapng reader returns after it threw inside a block (`lost` says why it did):
  it takes other cells for a head, and a length it finds there may overrun an array.
- SHB and IDB objects that a program writes with `write_block()` after `open()`, and
  `read_block()` called by a program; what `read()` makes of such blocks is in `ReadsBack`.
- A second carry of `checksum()` is in the model, and excluded from `Verifies`: a header
  whose sum has one does not verify. `hex()`, `bin()` and `read_as_big_endian()`, which
  has no caller, are left out.
- Big-endian machines, for addresses and checksums.
- The tmp protocol example: its programs keep no state that depends on what arrives, and
  its header is written and read as those of `Protocols` are. The other examples and the
  tests are straight-line programs.
- `module.h`'s detect functions, which name members the classes do not have.
- `data_container::write_before()`, which has no caller.

## 6. Disagreements between the code and its comments

- `analyze()` "doesn't update raw data" (`packet.h:130-131`); it replaces the
  contents. Run `packet_analyze_doc`.
- `operator=` throws "not same packet type" (`packet.h:250`); it compares only
  the number of headers, so an arp packet takes an ipv4 packet and copies
  nothing. Run `packet_assign_doc`.
- `recv()` is to "Recieve data from stream" (`stream.h:59`); on bpf `_buffer_point`
  is moved by `hdrlen + caplen` (`net_stream.h:246-247`) while the kernel aligns each
  header to a word, so the next `recv()` may read padding as a header. Run
  `net_align_doc`.
- `type()` is to "Return packet type" (`packet.h:77`); nothing assigns it. Run
  `packet_type_doc`.

## 7. Plan

Done: Headers, Protocols, Packet with its proofs and those of the round trip; Checksum, Addresses, HeaderSeal with
its proofs; FileStream, PcapStream with its proofs and its refinement; PcapngBlock,
PcapngStream with their proofs and their refinement; PacketLog; NetStream and Arping with their proofs; Zundoko
with its proofs.

What could come next:

1. Ownership of a stream: a second `open()`, and which descriptors are lost.
2. Packets through streams: `Packet` over `PacketLog`, so that what one object
   sends into a file is what another one reads out of it.
3. Failing writes in `PcapngStream`, and pcap files of other programs.
4. Proofs: an abstract specification of `NetStream`, as `PacketLog` is one of the files,
   and what follows from `Implements` and `ReceiveRestores` together once 2. is there.
