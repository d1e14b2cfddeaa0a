# Verification of the smart energy device simulator and its libmodbus

This directory holds TLA+ models of the programs in this repository, the TLC
runs that check them, and TLAPS proofs about them.

## 1. The system (inventory)

The repository is a fork of libmodbus (`src/`) plus five simulator programs
(`tests/sim_*.c`) that use it.

| Component | Source | State | Operations | Talks to |
|---|---|---|---|---|
| Client transaction | `src/modbus.c` `send_msg`, `_modbus_receive_msg`, `check_confirmation`, `write_single`, `read_registers`, ...; `src/modbus-tcp.c` | `ctx->s`, `t_id`, `error_recovery`, timeouts | one request/confirmation per call, timeouts, flush, reconnect | server, through a TCP stream or a serial line |
| Message framing | `_modbus_receive_msg`, `compute_meta_length_after_function`, `compute_data_length_after_meta` | `step`, `length_to_read`, `msg_length` | byte-wise parsing of indications and confirmations | both ends |
| Server reply | `modbus_reply`, `response_exception`, `response_io_status` | `modbus_mapping_t` | one case per function code | client |
| RTU backend | `src/modbus-rtu.c` | `confirmation_to_ignore`, serial settings | CRC/slave filter, ignoring other slaves' confirmations | bus |
| Context life cycle | `modbus_new_*`, `modbus_connect`, `modbus_close`, `modbus_free`, setters | the `modbus_t` | allocation, options | all |
| Data conversion | `src/modbus-data.c`, macros of `src/modbus.h` | none (pure) | bits/bytes, floats in 4 byte orders, integers of 2 and 4 registers | applications |
| Device simulators | `tests/sim_pv_inverter.c`, `sim_ev_charger.c`, `sim_heat_pump.c` | register mapping, query buffer, register file | listen/accept, serve, update the file, start over | 1T modem (client), register file |
| Substation meter | `tests/sim_substation_meter.c` | `prev_values[30]`, `totalCurrent`, `totalVoltage`, its own file | poll three files, account, notify the controller, write its file | register files, controller |
| Controller | `tests/sim_controller.c` | mapping of 30 registers | accept, serve one connection at a time | meter |
| Select server | `tests/bandwidth-server-many-up.c` | `refset`, `fdmax` | serve many connections with one context | clients |
| Library test programs | `tests/unit-test-*.c`, `random-test-*.c`, `bandwidth-*.c` | - | drive the library | - |


### How they interact

A client of the 1T modem writes a register of a device simulator. The simulator
writes the value into its register file. The substation meter polls the three
files, keeps the balance (inverter minus EV charger minus heat pump) of
currents and voltages, and sends each change and the two totals to the
controller with `modbus_write_register`. It also writes a file of its own. The
files are the only channel between the devices and the meter; Modbus TCP is
the one between the meter and the controller. Each program is one thread.

### What is hard, and what makes each part correct

- **Client transaction.** A call that fails may leave its request, or the
  confirmation of it, on the connection. Correct: a success is about this
  call's request; nothing is executed twice or after a later call; each call
  returns.
- **Framing.** The only thing that says where a message ends is the message: a
  function code and a byte count that the sender chose. Correct: the receiver
  stays inside its buffer, and is back at the start of a message when the client
  waits for it, whatever was rejected and flushed.
- **Calls and replies.** Every number of values at and around the limits of the
  protocol, tables that do not start at 0, requests that fit only in part.
  Correct: a call, its reply and its confirmation together are one step of the
  service the manual describes.
- **RTU backend.** A slave hears everything on the line and tells requests from
  confirmations by their order alone. Correct: it executes only what was sent to
  it, gets back in phase, and no answer passes for that of a later call.
- **Data conversion.** Bytes of registers in four orders, on hosts of two.
  Correct: what is read and set again is what it was.
- **Meter.** It reads files that others write, keeps running totals instead of
  sums, and does not repeat a notification that fails. Correct: totals are the
  balance of what was read; file and controller follow them.
- **Device simulators.** Each request is interpreted twice, once by `main` and
  once by `modbus_reply`, and the query buffer keeps bytes of earlier requests.
  Correct: the file shows what was written, survives restarts, and the server
  comes back after each client.
- **Select server.** Descriptors are closed and given out again within one round
  of the loop, and `modbus_receive` has no timeout for the first byte. Correct:
  all sockets are watched, no receive blocks, each connection gets its turn.
- **Controller.** It serves one connection until that ends. Correct: it leaves
  dead connections and takes requests in order.

`PROJECT.json` lists the hazards with their lines and the properties for each.

## 2. Modules

| Module | Models | Composes |
|---|---|---|
| `ModbusTransaction` | a libmodbus client, a network, a server like the controller | client, network and server in one state |
| `RemoteRegisters` | abstract: what a call over TCP promises | implemented by `ModbusTransaction` |
| `ReceiveFraming` | a server that reads requests from a stream of bytes, rejects and flushes; a client that sends any bytes | client, stream and server in one state |
| `RtuBus` | a master and several slaves on a serial line | master, line and slaves in one state |
| `RegisterService` | what the manual pages promise of a call, without messages | - |
| `ModbusPdu` | all calls of the client, `modbus_reply`, `check_confirmation`, on both backends | client and server in one state; implements `RegisterService` |
| `DataConversion` | `modbus-data.c` and the integer macros | applied to what the calls of `ModbusPdu` deliver (extends it) |
| `SubstationMeter` | meter, register files, controller | uses what `ModbusTransaction` shows about late confirmations as the outcomes of `Notify` |
| `DeviceSimulator` | a device simulator and its clients | `main` and the register cases of `modbus_reply` |
| `ManyUpServer` | `bandwidth-server-many-up.c` and its clients | - |
| `*Proofs` | the theorems of each of them | extends the module |
| `MC*` | the instances for TLC | extends the module |

Operators that start with "mutant:" in their comment are wrong variants of a
definition, as a plausible bug would make it. They are not used by the
specifications: each shows that a property would notice the bug.

### ModbusTransaction

A step is one call of the backend or one message moving. `pc` is the client's
place: `send` is the loop of `send_msg`, `wait` is `_modbus_receive_msg`,
`flush` is the sleep before `modbus_flush`. `req` is the request of the current
call; its number `no` is history, only `tid` is on the wire. `c2s`, `s2c` and
`rbuf` are requests on their way, confirmations on their way, and
confirmations in the client's receive buffer. `conn`, `linkUp` and `sconn`
number the connections, so that the server can still read requests of an old
one while the client has a new one.

`recovery` is what the application has chosen once: the two modes of
`modbus_set_error_recovery`, and whether it calls `modbus_flush` between calls.

`Receive` is `check_confirmation` with its three ends: a wrong identifier
(flush with PROTOCOL), an exception (fail, no flush), and data that fit or do
not. `Send`, `SendBroken` and `SendRefused` are the outcomes of `send()` in
`send_msg`; with LINK the call stays in `send`. `Close` keeps a prefix of the
requests on the connection (`RequestsSurvivingClose`): TCP loses a suffix.
A server that replies on a dead connection has its own end closed, and drops
what is left on it (`AfterClosing`).

Abstractions: messages are whole; `nb` is 1; function codes 0x03 and 0x06
stand for the reads (only a count comes back) and the echoing writes; a broken
connection is seen by both ends; a serial line is one connection that does not
break. `MaxLag` bounds the age of a message in calls: `TidMod` calls have to
go by before an identifier returns, and the assumption `MaxLag < TidMod` says
that no message is older. With 65536 identifiers this is a statement about
hours of delay.

`RemoteRegisters` is what a program over TCP may rely on, without messages,
identifiers or connections: `Call` makes a call pending, `Execute` lets a pending
call take effect and ends all older ones, `Lose` drops pending calls, `Return` is
a success and needs that the call was the last to take effect and that nothing is
pending, `Fail` promises nothing. `ModbusTransaction` implements it
(`ImplementsRemote`) with `regs`, `executed`, `ok` and `got` as they are, `call`
the request without its identifier and connection, `state` idle or called, and
`pending` the requests in `c2s` together with the one that is about to be sent,
perhaps again (`pendingCalls`). On a serial line the mapping does not hold, as
`transaction_rtu` shows: a late answer is taken for the current one.

### ReceiveFraming

A byte is the number of its request and its place in it, so that a message can be
compared with what was sent; its value is worked out from these. `Read` is one
round of the loop of `_modbus_receive_msg`: `recv()` gives what is there up to
`toRead`, and the `After...` operators are the cases of the switch on `step` once
all of it has come. `ReadTooMany` and `ByteTimeout` are the failing ends.
`Answer`, `Refuse`, `Reject` and `ReplyFails` are what `modbus_reply` does to the
stream: nothing, or sleep and flush (`WakeUp`, `FlushSome`). An illegal address
and an illegal coil value are refused without a flush (`modbus.c:914-919`), every
other illegal value with one (`FlushedFunctions`). The loop of the server closes
the connection after a failure and accepts the next.

A request has a function code, the byte count it claims, the number of bytes
that are sent, and what the checks of `modbus_reply` will find (`verdict`).
When the bytes of a message do not come from one request, the checks may find
anything. A *patient* client waits until the server waits for it, and sends a
request of another length than it says only when the server will flush after it
(`Flushes`); `InStep` and `LegalAnswered` are about such clients, `InsideBuffer`,
`RecoveryKept` and `LeavesMessage` about all. Bytes behind a legal request, one
with an illegal address or a coil request with an illegal value are the next
message; the comment that the flush is necessary after illegal values is true of
the coil as well, but the code has none there.

`RecoveryKept` says when `_modbus_tcp_flush` overwrites the error recovery mode:
only when the client has sent more than `SumMax` bytes from the rejected request
on without waiting for its exception. That it does happen then is what the code
says (the check for overflow, `modbus-tcp.c:511-517`).

Abstractions: the library does not look at the length in the MBAP header, and
neither does the model, so bytes behind a request are the next message; for a
patient client the network is faster than the byte timeout and the response
timeout that comes before a flush.

### RtuBus

`mbuf` is what the master has not read, `rx[s]` what slave `s` has not. `Call`,
`ReceiveTimeout`, `Receive` and `Flush` are the master's side of a call;
`IgnoreMessage`, `IgnoreTimeout`, `Serve`, `Filter`, `FilterJunk` and `Quit` are
one round of a slave's loop, by what `_modbus_rtu_receive` and
`_modbus_rtu_check_integrity` make of the next message. A read request is longer
than a confirmation and the confirmation of a read shorter than a request, so a
slave that takes one for the other cuts it, or the message behind it, at a wrong
place: `junk` is what is left, and `no` of a junk message bounds the pieces it
falls into. A disturbed message (`Disturbed`) fails the CRC check and may name
another slave; when the function code or the byte count was hit, its length is
another too, because that is worked out before the CRC is looked at, and it is
junk for the listener that heard it, a slave or the master (`Misread`). Reading
junk leaves a rest of it, nothing, or eats some of what lies behind it
(`RestsOfJunk`).

`torn` remembers that a confirmation reached the master as junk and that no call
has ended on a silent line since. `AckedMatchesSlave` excludes this case, and
has to: without error recovery, a read whose byte count was hit leaves bytes, the
next mask write takes them for its answer and fails, and the mask write after it
takes the answer of the one before, with timeouts that are long enough. Three
calls are needed for this, and nothing in a mask answer that the master compares
tells it from another (`modbus.c:674`).

`timing` says, once for a behaviour, what the timeouts are worth: `prompt`, long
enough for every answer, and a slave's wait for a confirmation over before the
next request; `slow`, an answer may miss the response timeout but
arrives before the flush that follows; `late`, nothing is known. `up` is the set
of slaves on the line.

Abstractions: the checksum never fits by accident, neither that of a disturbed
message nor that of a rest; one listener hears a message disturbed, the others as
it was sent; masks are 0, so a mask write stores its or-mask; slaves answer with
data, not exceptions.

### SubstationMeter

`mode` and `step` are the place in `main` (`init` before the loop, `poll` in
it), `dev` and `line` the file and line being read, `snap` what the first
`fgets` has buffered. `prev` and `total` are `prev_values` at the devices'
addresses and the two totals. `sm` is the meter's own file, empty between
`fopen("w")` and `fclose`. `link` is what the meter can expect of a call:
`ok`; `late` once one answer came too late, because every later call then
fails although it is executed (`OutOfStepForGood` of `ModbusTransaction`);
`down`; or `none` without a context. `pending` are writes sent and not
executed.

`ToRegister` is the conversion of a float to `uint16_t`. For negative values
it is undefined in C; the model has the two outcomes compilers produce, the
wrapped value and 0.

Abstractions: values are exact tenths, as the files hold them, so that
rounding of `float` does not accumulate; `prev_values[10]` and `[26]` are only
printed; only the inverter's file changes after it appears, because the lines
that the other two append start without `0x` and are skipped; a file is read as
a whole because it is shorter than the stdio buffer; `fopen` fails only for a
file that is not there.

### DeviceSimulator

`phase` is the place in `main`, `regs` is `tab_registers`, `lines` are the
values in the file and `added` the lines appended to it, `past` the byte
behind a request of five bytes in the query buffer. `origin` is history. A
request action is one round of the inner loop: what `main` does to the mapping
and the file, then what `modbus_reply` does. `WriteSingle` stores the value the
file gets (`Low(v) * 256 + past`, over 256) and lets the reply set the
register. `WriteTwo` shows both ends of function 0x10: the reply corrects what
`main` stored, unless it rejects the request. A store outside the mapping is
undefined: the process dies (`OutsideKills`) or nobody notices.

`FileRegs` are the registers that `update_file` finds a line for: 2 and 22 for
the inverter (one of them in the instances), none for the EV charger and the
heat pump, whose `update_file` gets the address without 3000 added.
Abstractions: two registers per 0x10 request, an `and_mask` of 0 for 0x16,
3004 and 3024 never requested from the EV charger and the heat pump, clients
in the backlog of a closed listening socket left out, as are failures of receive
and reply while the client is still there (they take the same way out).

### ManyUpServer

`refset`, `rdset`, `fdmax` and `master_socket` are the program's variables;
`at` is `select` or inside the `for`. `owner` is the descriptor table of the
kernel, and `accept` takes the smallest free one. `inbox` counts whole
requests, `cut` says that what follows is the beginning of one that never
ends, so that the byte timeout fails the receive. Writing replies is not
modelled: their result is not used.

### ModbusPdu and RegisterService

`ModbusPdu` is one call through both ends of the library. Each action of
`ClientNext` except the last two is a function of the API: its limits, the
request it builds and the length it sends. Each `Reply...` is a case of the
switch of `modbus_reply`, with its exceptions in the order of the code and what
it stores in the tables. `Confirm` is `check_confirmation` and what the caller's
array is filled with, `TimeOut` the end of a broadcast on a serial line, which
`modbus_reply` does not answer. A message keeps its fields, its data and the
number of bytes sent; the receiver's own idea of that number is
`IndicationLength` or `ConfirmationLength`, the length tables of
`_modbus_receive_msg`.

A word is the set of its bits that are 1, so that `Hi`, `Lo`, `Join`, `PutBits`
and `GetBits` say what the shifts and masks do. Byte counts are cut to a byte
(`% 256`), as the assignment to `uint8_t` does.

`RegisterService` has the same tables and calls and no messages: `Execute`
changes the tables in one step, only for a call that fits them, and `Return`
gives the caller the values. The refinement mapping (`Service` in `ModbusPdu`)
makes a reply the `Execute` step, unless it is an exception.

Abstractions: requests are those the library builds, so a coil value is 0xFF00
or 0 and function codes are known; whole messages arrive in time; addresses
stay below 65536, where the library would cut them; the broadcast quirk option
(`MODBUS_QUIRK_REPLY_TO_BROADCAST`) is off; the flush of the server before a
reply with ILLEGAL DATA VALUE finds nothing to flush.

### DataConversion

The functions of `modbus-data.c` and the macros on registers, on sets of bits.
`SetFloat` writes bytes one by one over registers of the host, so `InMemory`
depends on its byte order, and `GetFloat` shifts registers, so it does not. They
have no state of their own: `BitsKept`, `FloatsKept` and `IntegersKept` apply
them to the array that a call of `ModbusPdu` has just filled, at every place of
it. Abstractions: registers are the unsigned ones of `modbus_mapping_t`;
`int32_t << 16` of a negative number has the meaning gcc gives it; more than 8
bits for a byte, an assertion failure, is left out.

## 3. Runs

| Run | Instance | Shows |
|---|---|---|
| `transaction_tcp` | 2 addresses, 1 of them served, 3 identifiers, 4 calls, 2 connections, with all recovery and without any | `AckedMatchesServer`, `SuccessDrains`, `ExecutedInOrder`, `OutOfStepForGood`, `CallReturns`, `RequestsLeave`, `ImplementsRemote` |
| `transaction_rtu` | no identifier, 2 served addresses | violation of `ReadsItsRegister` |
| `framing` | a header of 1 byte, an ADU of 13, 15 kinds of requests, 2 requests | `InsideBuffer`, `InStep`, `LegalAnswered`, `RecoveryKept`, `LeavesMessage` |
| `rtu_bus` | 2 slaves, 2 values, 2 calls, 1 disturbed message, all timings | `Heard`, `AckedMatchesSlave`, `OwnInOrder`, `BackInPhase` |
| `pdu` | both backends, tables of 2000 bits and 125 registers from address 1 on | `FramesWhole`, `BitsKept`, `FloatsKept`, `IntegersKept`, `ImplementsService` |
| `pdu_float` | the same | violation of `FloatsRoundTrip` |
| `meter` | one change, one restart or break, two pending writes | `TotalsAccount`, `ControllerInStep`, `FileInStep`, `ControllerConverges` |
| `meter_stale` | the same, one pending write | violation of `FileGenerated` |
| `device` | 2 registers (1 with a line), 3 values, 1 fault | `FileShowsLowByte`, `FileOutlivesProcess`, `ListensAgain` |
| `device_file` | the same, 2 values | violation of `FileHoldsRegister` |
| `device_rtu` | one request | violation of `RtuServes` |
| `many_up` | 3 clients, 2 descriptors for them | `FdmaxCovers`, `NeverWaitsForOne`, `Turn`, `PendingAccepted` |

Bounds and why they are enough:

- Four calls with three identifiers: the identifier wraps within a behaviour
  and a message of the call before last meets a new one. Two connections are
  the least at which the server serves an old one while the client uses the
  next.
- `framing`: the requests are one of each row of the length tables, and one of
  each way to disagree with them: more bytes than the byte count says, fewer, too
  many for the ADU, a request that is cut, a coil that is neither ON nor OFF with
  and without bytes behind it, an unknown function and the one that
  `modbus_reply` gives up on. Deliveries and reads of any size put every boundary
  of a step anywhere. Two requests let each kind of leftover meet each kind of
  request. The ADU of 13 is what the longest legal request needs, so the limit
  and the end of the flush (`MaxAdu` bytes a round) are met.
- `rtu_bus`: with two slaves one is asked while the other listens; two calls are
  the least at which a late answer or a missed confirmation meets another
  request; one disturbed message is enough to put a slave out of phase or to tear
  an answer, and which slaves are present is part of the first state. What three
  calls add, a false success after a torn answer, `AckedMatchesSlave` excludes by
  `torn`; that nothing else is left is a theorem, for any number of calls
  (`SuccessIsTrue`).
- `MaxChanges` 1 and `MaxRestarts` 1: a change can hit every step of the loop,
  the start included, and a crash every step between `fopen` and `fclose`. A
  file that appears late is a further change of each file.
- Values 7, 300 and 65280 differ in the low byte, the high byte and both, and
  65280 has a low byte of 0.
- `pdu`: the tables hold exactly the largest legal reads and start at 1, the
  addresses are the one before, the first and the second, and the counts are 0,
  1, values around a multiple of 8 and at both sides of each limit: every
  combination is inside, at either edge of, or outside a table, and below, at or
  above a limit. Neighbouring values of a table differ, so that a value in the
  wrong place is seen. `MaxCalls` 1 is enough because a call depends on earlier
  ones through the tables alone, of which the first state has several.
- Two descriptors for three clients: `accept` fails, the largest descriptor is
  closed while the other is open and the reverse, and both are given out again.

`CHECK_DEADLOCK FALSE` stands where the system stops: `ModbusTransaction`,
`ModbusPdu`, `ReceiveFraming` and `RtuBus` after `MaxCalls` calls,
`DeviceSimulator` when `main` has returned.

### Fairness

- `ModbusTransaction`: `FairSpec` is weak fairness of the client alone, a
  running thread whose `select()` has a timeout. `FairLinkSpec` adds strong
  fairness of a send that is accepted and of a reconnection that succeeds: with
  LINK the loop of `send_msg` has no bound, so a call returns only if the
  network lets it. `FairServerSpec` adds the server's steps, a process that
  keeps calling accept and receive, for `RequestsLeave`. The run uses it.
- `ReceiveFraming`: TCP delivers, and the server's timeouts expire. Nothing is
  asked of clients.
- `RtuBus`: master and slaves are running programs whose timeouts expire.
- `SubstationMeter`: the meter's loop and the controller's execution of what it
  received. Nothing is asked of the answers: they may all be late.
- `DeviceSimulator`: the process goes on after a client has left. Nothing is
  asked of clients.
- `ManyUpServer`: the server's loop.

## 4. What disagrees with the code's own words

- **A read over RTU can return another register** (`transaction_rtu`).
  `check_confirmation` (`src/modbus.c:636`) compares only the count of a read.
  After a read that timed out, the next read takes the late confirmation.
  Counterexample: read 1 times out without its confirmation having arrived,
  read 2 is sent, the confirmation of 1 arrives and is accepted. Flushing after
  the timeout does not help: the confirmation comes later.
- **The meter keeps its old file** (`meter_stale`). `initialize_file`
  (`sim_substation_meter.c:177`) returns when the file exists, and the program
  then says that it generated it.
- **The file does not get the value** (`device_file`). `main` reads the value at
  `header_length + 4` instead of `+ 3` and divides by 256.
- **RTU mode ends at once** (`device_rtu`). A descriptor of -1 is what RTU
  returns and what `main` takes for a failure.
- **A float is not set as it is read** (`pdu_float`). The setters store bytes
  (`src/modbus-data.c:221`) where the getters shift registers, so on a
  little-endian host `modbus_set_float_abcd` undoes `modbus_get_float_badc`.
  `FloatsKept` says which pairs are inverse on which host. The manual page of the
  getter (`docs/modbus_get_float_abcd.md:14-16`) has a disagreement of its own:
  it says that words 0x0020 and 0xF147 are read as 123456.0, which is 0x47F12000.
  The code makes 0x0020F147 of them; the getter that reads 123456.0, in the code
  and by the arrays of `tests/unit-test.h.in`, is `modbus_get_float_dcba`.
- **An illegal coil value is not flushed.** `modbus_reply` answers it without the
  flush that it has after every other illegal value (`src/modbus.c:914-919`),
  where the comments say that "it's necessary to flush" (`src/modbus.c:952-954`).
  No run is made of it: bytes behind a coil request come only from a client that
  uses `modbus_send_raw_request`, and `ReceiveFraming` has them.

## 5. Proofs

All theorems hold for every value of the constants that the modules' `ASSUME`s
allow. They rest on these assumptions alone.

| Theorem | Says |
|---|---|
| `ModbusTransactionProofs!TypeCorrect` | `Spec => []TypeOK` |
| `SuccessIsTrue` | over TCP, `Spec => []AckedMatchesServer` |
| `SuccessLeavesNothing` | over TCP, `Spec => []SuccessDrains` |
| `InOrderAtMostOnce` | `Spec => ExecutedInOrder` |
| `StaysOutOfStep` | over TCP, `Spec => OutOfStepForGood` |
| `RefinesRemote` | over TCP, `Spec => ImplementsRemote`, the refinement of `RemoteRegisters` |
| `ReceiveFramingProofs!TypeCorrect` | `Spec => []TypeOK` |
| `StaysInside` | `Spec => []InsideBuffer` |
| `AlwaysInStep` | `Spec => []InStep` |
| `LegalRequestsAnswered` | `Spec => []LegalAnswered` |
| `RecoveryIsKept` | `Spec => RecoveryKept` |
| `RtuBusProofs!TypeCorrect` | `Spec => []TypeOK` |
| `RtuBusProofs!SuccessIsTrue` | `Spec => []AckedMatchesSlave` |
| `OnlyItsOwn` | `Spec => OwnInOrder` |
| `EveryRequestIsHeard` | `Spec => []Heard` |
| `ModbusPduProofs!TypeCorrect` | `Spec => []TypeOK` |
| `MessagesWhole` | `Spec => []FramesWhole` |
| `RefinesService` | `Spec => ImplementsService`, the specification of `RegisterService` |
| `BitsAreKept` | `Spec => []BitsKept` |
| `FloatsAreKept` | `Spec => []FloatsKept` |
| `IntegersAreKept` | `Spec => []IntegersKept` |
| `SubstationMeterProofs!TypeCorrect` | `Spec => []TypeOK` |
| `TotalsAreTheBalance` | `Spec => []TotalsAccount` |
| `FileAgrees` | `Spec => []FileInStep` |
| `ControllerFollows` | `Spec => []ControllerInStep` |
| `DeviceSimulatorProofs!TypeCorrect` | `Spec => []TypeOK` |
| `LowByteInFile` | `Spec => []FileShowsLowByte` |
| `FileSurvives` | `Spec => FileOutlivesProcess` |
| `ManyUpServerProofs!TypeCorrect` | `Spec => []TypeOK` |
| `SelectSeesAll` | `Spec => []FdmaxCovers` |
| `NeverWaits` | `Spec => []NeverWaitsForOne` |

**ModbusTransaction.** `IInv` is `TypeOK /\ Queues /\ Requested /\ Answered /\
Acked`. The safety properties are about the end of a call; what makes them
inductive is what is in the channels. `Queues`: the three channels are in the
order of the calls, and a message of the call *k* calls ago carries the
identifier that lies *k* back modulo `TidMod`. Since *k* is less than `TidMod`,
equal identifiers mean the same call. `Requested`: requests in `c2s` are later
than the last executed one, hence at most once and in order. `Answered`: a
confirmation of the current call shows the register as it still is, because no
later request is in front of the server. `Acked`: after a success the channels
are empty, since everything older was executed before and answered before.
Lemmas on segments and prefixes of sequences carry `Queues` and `Requested`
through closes and breaks, which drop a piece of a channel. `OutOfStepForGood`
needs `AwaitInv` besides: without recovery the confirmation a client waits for is
still to come as long as the connection lasts (`StaysOnTheWay`), so a client that
reads an older one in its place leaves its own behind for the next call.
`RefinesRemote` takes the steps one by one (`RefineStep`). Sending moves the
call from `pc` to `c2s`, so `pending` stays or, if the request is lost, shrinks,
and so do closes, breaks and flushes (`ShrinkingSteps`). `Serve` executes the head
of `c2s`, and what it leaves is newer by `Queues` and `Requested`. A success is a
`Return`: the confirmation it accepts is the current call's by its identifier
(`AcceptedIsCurrent`), shows the register as it is, and was the last thing in the
channels (`CurrentIsLast`).

**ReceiveFraming.** `IInv` is `TypeOK /\ FromSent /\ ReadingInv`. `FromSent` says
that all bytes come from requests that were sent, `ReadingInv` how `toRead`
follows from the step and the bytes read: with it the bound on the function's
length tables and the check after the meta data give `InsideBuffer`. For a patient
client `PatientInv` adds `InPhase`: either the server waits and nothing is on its
way, or the message, the buffer and the network together are the bytes of the last
request in order (`Aligned`), or a flush is throwing the rest of it away. `InStep`
and `LegalAnswered` follow from it. `RecoveryKept` holds of any client: a byte is
followed by no more bytes than the requests from its own on can have, of at most
`MaxAdu` bytes each (`Room`), and what a flush has thrown away still counts among
the bytes behind the rejected request (`Behind`). The assumption on constants is
that the header and the longest fixed part fit the ADU, that no request is longer
than the ADU, that what passes the checks of `modbus_reply` has a function it
answers, and that only functions with values have an illegal one.

**RtuBus.** `IInv` is `TypeOK /\ QueuesInv /\ AnswersInv /\ TornInv`. `QueuesInv`
is about what a slave has not read: what it would take for a request to it is one,
is newer than what it has executed, and is in the order of the calls. That holds
in any timing and with any disturbance, and gives `OwnInOrder`. `AnswersInv` is
about the timings in which late answers do not reach the next call: at most one
answer is on the line, it is that of the current request, and by then no slave has
anything of earlier calls left that it would execute. It gives
`AckedMatchesSlave`. It says nothing while `torn` holds, and has to be found anew
when `torn` ends: a call ends with nothing unread at any slave and nothing on its
way to the master, so that there is no answer left at all. `TornInv`, no torn
answer without a disturbance, connects it with `Heard`. Whatever a listener makes
of junk is a `Piece` of what it had: junk, and messages of it in their order.

`Heard` needs `PhaseInv` besides, which is about an undisturbed line with the
timeouts in order. A slave is *in phase* (`InPhase`) when requests and
confirmations take turns in what it has not read, beginning with the kind that
its flag says, and nothing lies behind a request that it will serve. A call adds
a request to queues that end with a confirmation or are empty
(`PhaseRequest`); the slave that serves it adds a confirmation to queues that end
with that request, or whose owner has read it and waits (`PhaseConfirmation`); a
read takes the head and turns the flag (`PhaseRead`). So no slave cuts a message
or leaves its loop. The master cannot give up on a slave that is there, because
the request in that slave's queue contradicts the silence its timeout needs, and
the one answer it waits for is the right one. That a call starts only when no
slave waits for a confirmation with nothing left to read is what the timing
`prompt` says, and the guard of `Call` that says it is used here. The number of
unread messages (`MaxBacklog`) and of slaves does not matter.

**SubstationMeter.** `IInv` is `TypeOK /\ Reading /\ TotalsAccount`; `Reading`
says that `line` stays inside the snapshot while it is used. `TotalsAccount` is
preserved because `Account` takes the old value out and puts the new one in.
`FileInStep` needs that a run that has not finished `init` has not saved
(`FileInv`). `ControllerInStep` needs `FollowInv`: a register *follows* a value
when it holds it and no write to it is on its way. While the link is good,
every value of `prev_values` is followed by its register, except those of lines
that `initialize_registers` has yet to read (`Waits`); the register of a device
without a file was never written (`Untouched`); and a total is followed from its
call in `updateTotalValue` on until the next line changes it (`TotalsShown`).
The lemma `Touches` carries a register through every step that does not write
it, restarts and broken links included; `Addresses` says that no two lines and
totals share one.

**DeviceSimulator.** `IInv` is `TypeOK /\ FileShowsLowByte`. The lemma
`TenthsOfByte` bounds the rounding of `%6.1f` for all low bytes and all bytes
behind the request.

**ModbusPdu.** `IInv` is `TypeOK /\ FramesWhole`, which is inductive: what the
next step does with a message depends on its fields being in range. The lemmas
`...Whole` say, for one kind of request or reply each, that the length it is
given by the code that builds it is the one the receiver's tables give
(`WholeRequest`, `WholeReply`); `RequestStep` and `ReplyStep` turn that into the
invariant for any call and any case of the switch. `Echo` uses that the request
was whole. The limits of the API enter through `BytesOfBitsBound` and
`WriteBitsBound`: within them no byte count is cut. That a server describes
itself with at most 251 bytes is an assumption (`ConstantsAssumption`); the
code does not check the length (`modbus.c:1033`). That the values of a call are
words is another: their C type is `uint16_t`.

`RefinesService` is the refinement of `RegisterService`, under which a request
that is built is a call, `modbus_reply` the execution, and the confirmation the
return or the failure; the messages are gone. Its invariant is `RInv`, that is
`IInv /\ Asked /\ Outcome`. `Asked`: the request on the line carries the function,
the addresses, the counts and the values of the call (`Carries`). `Outcome`: the
reply is an exception only when the call does not fit the tables, and otherwise
the call fits, was executed, and the reply holds what the tables hold now
(`Answers`). It is needed because the confirmation comes a step after the
execution, when nothing but the bytes of the reply and the length the client
computes again from its request are left to tell success from failure. Each
request function has a lemma that gives `Carries`, as `RequestRefines` asks; each
case of the switch in `modbus_reply` has one that gives `Answers` and shows that
the tables change as `Effect` says or not at all, as `ReplyRefines` asks; and
`ConfirmRefines` takes the two together: `GetWords` and `GetBits` undo `PutWords`
and `PutBits` (`WordsThrough`, `BitsThrough`), so the caller gets `Values`. An
error that the client meets before it sends is a `Refuse`, which is allowed only
for a call that does not fit; silence after a broadcast is a `Fail` after the
execution (`TimeOutRefines`).

**DataConversion.** The specification is that of `ModbusPdu`. `ReadInv` says that
after a successful read the caller's array is one of words, as long as the result
says, or holds the bits of the server's table from the address of the call on,
while the response still has them eight to a byte. It follows from `RInv` at each
confirmation, and holds until the next call, since nothing else writes to the
array or the tables (`OnlyConfirm`, `ReadInvConfirm`). From there `FloatsKept` and
`IntegersKept` are lemmas on sets of bits, for every order, host and place of the
array, and `BitsKept` lemmas on arrays of bits: bit *k* of the array is bit *k*
modulo 8 of byte *k* divided by 8 (`BitsSet`), also where the last byte is cut,
and one byte is the first of many (`OneByteSet`).

**ManyUpServer.** `IInv` is `TypeOK /\ FdmaxCovers /\ OneConnection /\
StillReady`. `StillReady` says that what `select()` reported for the
descriptors the loop has not reached is still true; it holds because only the
loop itself takes bytes or closes, and `OneConnection` because two descriptors
never belong to the same client.

Only model-checked: liveness (`CallReturns`, `RequestsLeave`, `LeavesMessage`,
`BackInPhase`, `ControllerConverges`, `ListensAgain`, `Turn`, `PendingAccepted`),
which is out of the prover's reach under fairness. Every safety invariant and
action property of the passing runs, and both refinements, are theorems. No module
that is proved about uses a recursive operator, and no theorem needs induction
over data.

## 6. Plan, and what is left of it

Done, in this order: `ModbusTransaction`, `SubstationMeter`, `DeviceSimulator` and
`ManyUpServer`, because the transaction is what all programs rest on and the
meter is where the system's data come together; `ModbusPdu` with
`RegisterService`, which opens the messages that `ModbusTransaction` leaves
closed; `ReceiveFraming`, `RtuBus` and `DataConversion`; the proofs of their
safety properties and of `ControllerInStep`; the refinement of `RegisterService`
(`RefinesService`), `BitsKept`, `Heard`, and the refinement of `RemoteRegisters`
(`RefinesRemote`).

Left: a module that composes device, meter and controller. Each boundary is in a
model already: `SubstationMeter` has the files and the controller's registers
as variables, and takes from `DeviceSimulator` which lines of a file can
change and from `ModbusTransaction` what a call may do.

## 7. Not modelled

- **Context life cycle** (`modbus_new_*`, `modbus_mapping_new_start_address`,
  setters, frees): checks of arguments and allocation, sequential, with nothing
  but single assignments to state. The life of a connection, which is not, is in
  `ModbusTransaction`. A serial connection that fails frees the context twice
  (`sim_pv_inverter.c:144` and the cleanup of `main`): undefined behaviour of a
  program that is about to end.
- **Raw requests** in `ModbusPdu` (they are in `ReceiveFraming`), the exceptions
  only they can cause, and `modbus_reply_exception`.
- **Partial sends** in `ModbusTransaction`. `send()` on a full socket may take a
  part of a request; the call then fails (`EMBBADDATA`). What the server makes of
  the part is in `ReceiveFraming`, whose clients send requests that are cut.
- Termios and RTS handling, Windows code, debug output, name resolution, the
  library's test programs, failures of `malloc` and of `fopen` for reasons other
  than a missing file.
