# NUCLEO_H723ZG_MQTT_TLS in TLA+

Models of the firmware under `src/`: an MQTT client, over TLS or plain TCP, on
an STM32H723 with FreeRTOS and lwIP. The models are translated from the C code;
`PROJECT.json` names, for every definition, the lines it stands for.

## 1. The system

| Part | Code | State it keeps | Operations |
| --- | --- | --- | --- |
| Main_Thread | `Application/source/main.c` | its place in start-up or command loop, `mqtt_recv_buf` | configure the network, ask for time and addresses, connect, subscribe, obey commands, PINGREQ on silence |
| Link_Thread | `main.c` | none | poll the PHY every 100 ms, end the program on a lost link |
| Button_Thread | `main.c` | none | poll B1 every 50 ms, terminate Main, close the session, end the program |
| Close_Program, Error_Handler | `main.c` | LEDs, scheduler | unsubscribe, disconnect, close; lock the scheduler, LEDs off, last message, halt |
| FreeRTOS, CMSIS-RTOS2 | `Libraries/FreeRTOS`, `Libraries/CMSIS/RTOS2` | task states and priorities, mutex holders | create, delay, wait, mutexes with priority inheritance, terminate, lock the scheduler |
| lwIP threads and locks | `Libraries/lwIP/src/api`, `system/OS/sys_arch.c` | `lock_tcpip_core`, `lwip_sys_mutex`, `tcpip_mbox`, `recvmbox` | socket calls of the tasks, `tcpip_thread` |
| Ethernet driver | `hw/ethernetif.c`, HAL | descriptor rings, `RX_POOL`, the handle's state | `ethernetif_input`, receive interrupt, transmit, link status |
| UART | `hw/uart.c`, HAL | `gState` | transmit, restart |
| MQTT client | `sw/mqtt_client.c` | packet identifier | encode requests, read and judge packets |
| TCP, TLS clients | `sw/tcp_client.c`, `sw/tls_client.c` | the socket, mbedTLS contexts | connect, read, write, drain and close |
| DHCP, DNS, NTP, UDP clients | `sw/*.c` | `DHCP_state`, attempts | one exchange each |
| RTC, timers, GPIO, RNG | `hw/*.c` | calendar, `us_counter`, LEDs | read and write |

How they interact: the three application tasks call lwIP through sockets, which
run under the core lock in the calling task; `ethernetif_input` is woken by the
interrupt and posts frames to `tcpip_mbox`; `tcpip_thread` handles them under the
core lock and posts data to the `recvmbox` of the socket, where a reading task
waits for at most 10 seconds. All tasks print to one UART and share three LEDs.
`Button_Thread` ends `Main_Thread` by `osThreadTerminate` and goes on with its
socket and its buffer.

What is hard:

* five tasks of five priorities, two nested mutexes, priority inheritance;
* a task terminated at any point of its execution, also inside lwIP;
* a message cut off by a task of higher priority;
* reads that return several packets, none, or the end of the connection, into a
  buffer that keeps what the previous read left in it, the text of other clients included;
* timeouts that stand both for silence and for loss;
* functions of lwIP called outside of the lock they ask for;
* rings shared with a DMA, and an interrupt between any two steps of the thread it wakes;
* buffers passed by reference below a data cache;
* a client of DHCP whose messages and timers go on while Main polls it;
* bounded queues and pools in the receive path.

What makes each part correct:

* tasks and locks: a mutex is held exactly inside its section; no task sleeps
  with one; nobody below a waiting task's priority delays it; priorities return
  to their base;
* the end of the program: it is reached after a lost link and after the button;
  the last message goes out once and in full, with the LEDs off;
* session: the board runs only on a connection the broker accepted; it obeys
  each command at most once; a live connection is not taken for lost; a dead one
  is noticed; the socket is drained before it is closed;
* frames: what the DMA wrote goes up in order and each pbuf is in one place; what
  is given to the driver is on the wire, whole and in order;
* TLS: each direction of the connection is a channel, however the socket cuts it,
  as long as no task dies half way through the context;
* kernel queues: nobody sleeps on a queue that holds a message for it, and no read
  gives up before its time;
* network configuration: it ends; an address is used only while it is leased, and
  the static one stays;
* exchanges: what is sent is what was written, and an answer is that to the question;
* packets: what is written is what was reserved, and what was published is what is
  read back;
* clock: what is read is the time, also when midnight falls in between.

`PROJECT.json` lists the hazards, each at its line, with the properties that are
about it, or the reason why none is.

## 2. Modules

| Module | Part | Composes or instantiates |
| --- | --- | --- |
| FreeRtos | scheduling, mutexes, delays, termination | |
| BoardTasks | the five tasks | FreeRtos |
| KernelQueue | a blocking read of a queue, step by step | |
| MqttSession | board and broker, on packets | |
| TlsStream | mbedTLS over the socket, on records | Channel, twice |
| EthernetTx | transmit ring and DMA | Channel |
| EthernetRx | receive ring, interrupt, pool, mailbox | Channel |
| UdpExchange | DNS and NTP exchanges over ARP and the cache | |
| Dhcp | `DHCP_Request` and lwIP's client | |
| MqttCodec | the bytes of the packets | |
| Clock | `RTC_Write`, `RTC_Read` and the calendar | |
| Channel | abstract: in order, at most once, complete unless cut | |
| BoardTasks_proofs, MqttClient_proofs, TlsStream_proofs, EthernetTx_proofs, EthernetRx_proofs, KernelQueue_proofs, Dhcp_proofs, UdpExchange_proofs | theorems, section 5 | |

They meet where one takes for granted what another one shows. BoardTasks posts to a
mailbox and wakes its reader in one step: KernelQueue shows that no wake-up is lost in
the steps the kernel needs for it. MqttSession reads what the socket holds: TlsStream
shows that TLS between the two keeps order and loses nothing. BoardTasks takes a read for one
that comes back: MqttSession has the one that does not (`Overrun`). BoardTasks has the
interrupt wake the Ethernet thread: EthernetRx shows that this leaves no frame in the
ring. The definitions that a property's mutated form uses (a dropped guard, a missing
reset) stand in front of the definition they replace, with a comment that names the
difference; no specification uses them.

### FreeRtos

The kernel as fragments of actions that other modules conjoin with the control
state of the calling task. `Running(t)` holds for a ready task that no ready task
exceeds in priority; equal priorities rotate with the tick, so either may run.
`TakeMutex` and `BlockOnMutex` are the two ways through `xQueueSemaphoreTake`: a
task that was woken tries again, as the loop of that function does. `Inherited`
raises only the direct holder, `Disinherited` ends the boost with the last mutex
held, both as the code has it. `Terminate` takes a task off its lists and leaves
its mutexes held. Under `KernelLock` only the caller runs, delays and timeouts
do not end.

The mutexes of the two sections are not recursive and have no timeout, so the
recursive and timed branches are not there.

### BoardTasks (instantiates FreeRtos)

The tasks Main, Button, Link, Tcpip and Eth. `loc[t]` is the place in the task's
own function, `step[t]` the place in the library call made there. Each location
makes its calls in the order printf, netif functions, write, read:

* printf: `print`, `sending`. `Printf` and `Printed` are the start and the end of
  the transmission; `HAL_UART_Transmit` drops a character while `gState` is not
  ready. One transmission stands for one printf, since an interrupted character
  and an interrupted line leave the same state.
* netif functions: one step during which the task is inside of them.
* a write: core lock, sys lock and release (pbufs and segments), core release.
* a read: wait for `recvmbox`, free the pbuf under the sys lock, open the window
  under the core lock. It ends in `ok` or `none`, the handler's result being
  negative or not; what decides that is the subject of MqttSession.

| Locations | Code |
| --- | --- |
| boot, waitLink, dhcp, request, connect, subscribe, announce, read, ping, command, lost | `Main_Thread`; "request" is each of DNS, NTP, DNS and the TCP connection, "connect", "subscribe" and "ping" are a write and the wait for its answer |
| poll, terminate, notice | `Link_Thread`, `Button_Thread` |
| unsubscribe, bye, disconnect, drain, close | `Close_Program` |
| leds, final, halt | `Error_Handler` |
| gone | a terminated Main |
| lwip | `tcpip_thread` (steps t...) and `ethernetif_input` (steps e...) |

The interrupt is `FrameArrives`, the cable `LinkDrops`; `bsr` is the link bit of
the PHY, which latches a loss until it is read. B1 may be at either level at each
poll. The three LEDs are one bit, "some LED may be on".

The restart of the UART is part of the poll that decides on it. Between the two
only tasks of higher priority or with an inherited one can run, and those print
nothing, or end in a poll of the link that restarts the UART too.

### MqttSession

The connection of one board and its broker, from CONNECT to the end of the
program, at the level of packets. `Read` is the plain read of the drain: it takes
any number of the packets that have arrived (`lwip_recv_tcp` gathers what is
queued), or finds the end of the connection (0 once, an error from then on), or
runs into its timeout. `ReadPacket` is `MQTT_Read_Packet`, which looks at what was
read. `Accepted` is what the handlers make of the first packet and of the last byte of
the read; `LeftInBuffer` is what stays in `mqtt_recv_buf`, and `AcceptedStale` what the
handlers make of that when a read returned 0. The SUBACK handlers then read the byte
before the buffer: either outcome.

The other clients publish commands and any other message (`Forward`). The text of
a message stays in the buffer, and may begin with the first byte of any packet (`Looks`):
what a digit begins looks like a PUBLISH. When a read returns 0 over such a text,
`MQTT_Read_PUBLISH` takes the length of the message to be 0 less the sizes of the fields
before it, in `size_t`, and moves that many bytes. `Overrun` is this read. What a program does
after it has written over its own memory is anything; the model lets it come to nothing more,
and what is claimed of the end of the program leaves this case out by name
(`LossEndsOrOverruns`, `PressEndsOrOverruns`). A message longer than the buffer, and one
with a NULL inside, are left out.

The broker is modelled from how the board uses it. It answers in its own time,
may forward a message before its SUBACK, refuse, close at any time with or
without a DISCONNECT, or be cut off for good (`NetworkDies`). Packets are small:
each is in one segment, so a read never ends inside of one. PUBLISH packets of
the board have no answer (QoS 0) and are left out.

`late` remembers that a read gave up while something was under way to the board or
to the broker; "a broker that answers within the timeout" is `~late`.

### KernelQueue

One FreeRTOS queue with readers that block on it. Each step is one critical section, or
one access made outside of any, of `xQueueReceive` and `xQueueSemaphoreTake`: `Check`,
`SuspendAll`, `Lock` (`prvLockQueue`), `CheckForTimeOut`, `IsEmpty`, `Place`, `Delay`
(the two halves of `vTaskPlaceOnEventList`), `Unlock`, `Resume` (`xTaskResumeAll`) and
`Last`, the look at the queue after the time is over. `Give`, from an interrupt or a
task, and `Tick` may come between any two of them. `cTxLock` counts the posts that came
while the event list was out of bounds, `pending` holds the readers woken meanwhile,
`pendedTicks` the ticks.

Readers are named by distinct priorities. Nobody waits to send to these queues
(`sys_mbox_trypost` and the interrupt give up when one is full), so `cRxLock` and the
list of senders are left out; queue sets and mutexes are not used on them
(the inheritance of mutexes is in FreeRtos). `Delete` happens only while no other
reader is in a call: Button_Thread terminates Main_Thread before it reads itself.

### TlsStream (instantiates Channel twice)

The context `tls`, which is global, with one step for each of its changes: on the way
out `out_left`, `out_hdr` (`out_adv`: moved past the record), the pointers computed from it
(`out_behind`: not yet moved back with it) and `cur_out_ctr`; on the
way in `in_left`, `in_msglen`, `in_offt` and the record counter. `call` is the call that
Main_Thread or Close_Program makes next, `pc` the place inside of `mbedtls_ssl_write` or
`mbedtls_ssl_read`. `Terminate` is `osThreadTerminate` between any two of these steps;
`torn` remembers whether it left the context between two consistent states. That the pointers
lag behind `out_hdr` counts only after a flush, where a new record would be put behind the place it
is sent from; before one (`AdvanceHeader`) what is sent depends on `out_hdr` and `out_left` alone.

A record on its way to the board has three units (a header and two), and the socket
may hand over any part of what has arrived. A record is accepted only with the number its reader expects:
that is what the record counter and the authentication amount to. The handshake,
renegotiation and DTLS are not there. Main goes on with the context after a read that
timed out, which ssl.h warns against; `InboundInOrder` shows that nothing is lost by it.

### EthernetTx, EthernetRx (each instantiates Channel)

EthernetTx has one step for each access to `TxConfig`, to the handle or to a descriptor
in `low_level_output` and `HAL_ETH_Transmit`. tcpip_thread has the higher priority: it may
begin at any step of Main's call if Main transmits without the core lock, which it does
in `netif_set_up` and in the functions of DHCP. `overlapped` remembers that this
happened: what is claimed of frames and buffers is claimed up to then, and EthernetTx_lost shows what
is left after it. The DMA sends from its own index to the tail pointer. Its errors are not
modelled (a fatal bus error would end the wait early), and `ReceiveFlowControl` is off. A
frame takes one or two descriptors; `TxAssumption` asks for three or more, since a ring
filled to the last descriptor would look empty to the DMA.

EthernetRx follows a frame from the descriptor to the stack. `ri` and `irq` are the flag
of the DMA and the stretch of `HAL_ETH_IRQHandler` between the callback and the clearing
of the flag, `sem` is `RxPktSemaphore`, `pc` the place of `ethernetif_input` with
`low_level_input` inside. A pbuf is the descriptor it refers to and the number of its
frame. tcpip_thread takes messages from the mailbox; what the protocols keep, and for how
long, is open (`kept`, `Release`).

### UdpExchange

The exchanges of the start-up, one after the other, over the ARP entry of the next hop and the
data cache. `dirty` and `below` are the request in the cache and what memory holds beneath
it; `SendTo` puts on the wire what memory holds when the entry is stable, and a copy in
uncached memory when it is pending. The cache may write the request back at any time
before. The network loses, delays and duplicates; a reply names the port, the
question and the kind of the record it ends in. There is one next hop, whose entry stands
for that of the gateway and that of the DNS server; a request to a second one would
only repeat it.

### Dhcp

Steps of `DHCP_Request` in Main_Thread (with `dhcp_start` and `dhcp_stop` inside, which
run without the core lock) and whole handlers of lwIP's client in tcpip_thread: answers,
`dhcp_fine_tmr`, `dhcp_coarse_tmr`. Every request that was ever sent may be answered, late and
more than once. Timers run out at any time while they are set. The server gives its identity and
the time of the lease; T1 and T2 are computed (`Bound`) as the code does it: seven times a long lease
wraps in 32 bits (`Rebinding`), counts of ticks stop at 16 bits (`Ticks`), a lease without an end
keeps the end of the one before it (`LeaseEnd`). `TickLimit` and `Word` are 0xffff and 2^32.
`Stop` to `StopFree` are the steps of `dhcp_stop`; the writes that clear the offer and the counts are
one of them, since the client tests nothing of them by itself.
`dhcp_network_changed` and the state REBOOTING are never reached by this program. The moment in
`dhcp_start` at which the interface already refers to a structure that is not yet cleared is
one step here. A comment in `dhcp_bind` says that a lease below a minute is renewed at
once; the code lets it run out first (`Expiring` is tested before the two others), and so
does the model.

### MqttCodec

The bytes. `Encode` is what the four encoders have in common: a size counted by the loop
over `pow`, a remaining length written by the loop over `%` and `/`, the body. `HandlePublish` is
`MQTT_Read_PUBLISH`, over a buffer that keeps what older packets left in it. A text is a
sequence of one character. Properties are at most 127 bytes, so their length is one
byte; the packet identifiers reach 2 in a session, so their wrap does not come up.

### Clock

`RTC_Write`, once, then reads. The peripheral counts by itself between any two steps and
locks the date from a read of the time to the read of the date. What it makes of month 0,
or of a day that its month does not have, is not specified: either outcome. The
week day and the two digits of the year in BCD are written and read back unchanged, and
are left out.

### Channel

The abstract specification of one direction of a connection. `sent` items were handed over,
`last` came out; `cut` says that something may have been lost, and only then may a
delivery skip. It is the PROPERTY of TlsStream (`OutboundInOrder`, `InboundInOrder`), of
EthernetTx and of EthernetRx (`FramesInOrder`), with `cut` mapped to `torn`, to
`overlapped` and to `dropped`.

## 3. Runs

| Run | What it asks | Bounds | States |
| --- | --- | --- | --- |
| board | types, locks, priorities, end of the program, in every interleaving; `LinkLossEnds`, `ButtonCloses` | mailboxes of 1 | 310 000 |
| board_terminated | `ButtonEnds`: violated | mailboxes of 1 | |
| session | what is obeyed, accepted, taken for lost, drained; `LossEndsOrOverruns`, `PressEndsOrOverruns` | 3 messages | 447 000 |
| session_overrun | `LossEnds`: violated | 1 message | |
| tls | both directions are channels; the closing ends | 2 packets, 2 records | 240 000 |
| ethernet_tx | what holds as long as calls do not overlap, and that it is a channel; every call returns | 3 descriptors, 5 frames | 240 000 |
| ethernet_rx | pool, messages, wake-up, and that it is a channel | 3 descriptors, 4 pbufs, mailbox of 2, 8 frames | 130 000 |
| udp | requests and answers are the ones they were; the start-up ends | 3 exchanges, entries given up after 2 ticks | 1 070 000 |
| dhcp | addresses and leases, the static configuration; a silent server is given up | 2 polls, 2 addresses, 4 leases, 4 identifiers, counts to 4 | 1 240 000 |
| codec | the broker finds the packet, the board finds the message | lengths around 128 and 16384 | 12 000 |
| queue | no lost wake-up, no early end, lists agree | 2 readers, capacity 2, timeouts 0, 2 and for ever | 338 000 |
| clock_day | `RightEveryDay`: violated | days of 2 ticks, 8 ticks, all months, ends of months | |

These are the runs of `PROJECT.json`. The other configurations are run by hand, in the same way
(`tlc -config X.cfg M`). Those that pass:

| Configuration | What it asks |
| --- | --- |
| BoardTasks_safety | the invariants of the run board, mailboxes of 2 |
| TlsStream_more | `TypeOK`, `NothingRejected`, `OneWriteSkipped`: a termination costs one packet at most; `WritesArrive` |
| EthernetTx_more | `TypeOK`, `TransmitterKept`, `OkMeansSent`, as long as calls do not overlap |
| EthernetRx_more | `FramesTaken`: every frame is taken out of the ring unless the pool is empty |
| UdpExchange_more | `TypeOK`, `PendingEnds`: an ARP entry without an answer is given up |
| Dhcp_more | `TypeOK`, `RenewedInTime`, `DhcpEnds` |
| MqttCodec_more | `CodecTypeOK`, `SizeIsWritten` |
| KernelQueue_more | `ForemostServed`, `TimedReadEnds`, with readers that nobody terminates |
| Clock_more | `TypeOK`, `RightThisMonth`: what is read is right until the month ends, also at midnight |

Those in which TLC finds the property violated are described below.

Why the bounds are enough:

* BoardTasks. Mailboxes hold six messages in the firmware. One is enough to be empty and
  full, two (BoardTasks_safety) also partly filled; a message carries no contents, so a longer
  queue only delays the step at which it is full. Safety is proved for every size.
* MqttSession. Three messages let one be read alone, one together with an answer, and one
  after a ping, each of them a command or a text. The safety properties are proved for any number.
* TlsStream. Two packets of Main, followed by the three of the closing session, let one be
  left half written with whole ones before and behind it; two records let a read end inside of the
  first one and of the second one. Both refinements are proved for any number of
  packets and records.
* EthernetTx. The firmware has 4 descriptors; with 3 and five frames of one or two
  descriptors the ring is gone round twice, at every offset.
* EthernetRx. The firmware has 4 descriptors, 10 pbufs, a mailbox of 6 and 8 messages; the
  runs keep their order (fewer descriptors than pbufs, two messages more than the mailbox
  holds), go round the ring more than twice, and empty the pool. Safety is proved for all sizes.
* UdpExchange. Three exchanges: an answer to the first may arrive in the third. An ARP
  entry is given up after `ARP_MAXPENDING` = 5 ticks in the code, after 2 in the runs.
* Dhcp. The firmware polls 50 times; the polls only count. With `TickLimit` 4 and `Word` 4800 the
  leases give 1, 3 and 4 ticks (4 being the limit, for a lease of 10 minutes or more) and one
  without an end; in Dhcp_more one is so long that seven times it wraps. They reach every order
  of renewal, rebinding and end, and counts that are equal because of the limit. `MaxXid`, the number of transactions, is
  where a run stops; a fourth one begins with late answers of three others under way.
* MqttCodec. The lengths lie on both sides of the steps of the remaining length; the
  buffer has 390 bytes instead of 2048, more than any packet of the runs needs. The proofs have any
  lengths that two bytes can write.
* KernelQueue. Two readers, one above the other; a count of ticks beyond the longest timeout
  is not told apart (`AtMost`). Ticks that pile up under a suspended scheduler
  are at most two (`MaxPended`). The proofs have any number of everything.
* Clock. Midnight, the ends of all months and of leap years are within four days of a start.

`finals` is not bounded by the model: `EndReported` is what bounds it. Deadlock is checked in
KernelQueue, where something can always happen. Elsewhere the system really may stop:
`Error_Handler` ends in `for( ;; )`, a session or a start-up is over, frames and ticks run
out; that it stops only there is what the liveness runs are about.

### What the violated properties show

Three are runs:

* **board_terminated** (`ButtonEnds`). The button terminates Main at main.c:374. If Main holds
  the core lock or the sys mutex at that moment, the next write of the closing
  task blocks for ever. `ButtonCloses` shows that this is the only way: if no lock
  is orphaned, the closing gets through. The lost cable still ends the program
  (`LinkLossEnds`), since `Link_Thread` calls nothing of lwIP.
* **session_overrun** (`LossEnds`). Another client publishes a text that begins with a digit on the
  secret topic. The board moves it to the start of `mqtt_recv_buf`. Then the broker closes the
  connection: the read returns 0, mqtt_client.c:156 takes the text for a PUBLISH, its length comes
  out below zero (219-247), and the loop at 252-255 runs over the memory behind the
  buffer in place of the test for a lost connection (main.c:268). `LossEndsOrOverruns` shows
  that this is the only way: with any other rest in the buffer, and after any other end, the program
  ends. MqttCodec_empty shows the same read on bytes.
* **clock_day** (`RightEveryDay`). rtc.c:70 stores `tm_mon`, which counts from 0, as the month
  of the peripheral, which counts from 1: the day after 28 March is 1 April.

The others are configurations; each states what a comment or a document says.

| Configuration | Property | The code | What it says |
| --- | --- | --- | --- |
| BoardTasks_core | `CoreExclusive` | `TCPIP_Init`, `TCPIP_Down_Up` (tcpip_setup.c:72) and `DHCP_Request` call netif functions without the core lock, while `tcpip_thread` may be inside the core | netif.c:846 and 921 assert that the lock is held |
| MqttSession_unsuback | `UnsubackAwaited` | a packet that arrives before the UNSUBACK ends the wait (main.c:525) | main.c:524 "Esperar a que el broker acepte la desuscripción" |
| MqttSession_commands | `CommandsObeyed` | a command read in place of the SUBACK (main.c:227), or together with another packet, is not obeyed. `ObeysOnlyCommands` shows the converse: nothing is obeyed twice | README.md:17 |
| TlsStream_skipped | `OkMeansSent` | Main terminated before the flush of a record (main.c:374): the closing session's UNSUBSCRIBE is dropped, and reported as sent | mqtt_client.c:713 "Indicar si el paquete se ha enviado correctamente" |
| TlsStream_empty | `EmptyReadAtEnd` | Main terminated between ssl_tls.c:8669 and 8678: the next read returns 0 with the connection open | ssl.h: 0 if the transport was closed |
| EthernetTx_lost | `OutputsFrames` | two transmits in one handle (tcpip_setup.c:73): frames are dropped, and after a timeout the handle is in an error state that nothing ends (stm32h7xx_hal_eth.c:1008); ethernetif.c:289 looks at no result | netif.h:297 "outputs the pbuf as-is" |
| EthernetRx_lap | `BuffersIntact` | the descriptor is the DMA's again (ethernetif.c:240) before lwIP has seen its frame; four later frames overwrite one that waits | stm32h7xx_hal_eth.c:1404 "after processing the received Packet" |
| UdpExchange_cache | `SocketsWork` | an ARP packet between the two calls of `TCPIP_Down_Up` and the send: the request is sent by reference from below the cache | tcpip_setup.c:67-70 |
| UdpExchange_address | `AddressFromRecord` | the last four bytes of any answer are taken for the address (dns_client.c:187) | dns_client.c:181 |
| Dhcp_gateway | `GatewayKnown` | a lease that ends between two reads of one poll (dhcp_client.c:61 and 66): the gateway kept is 0.0.0.0 | main.c:167-169 |
| Dhcp_long | `AllRenewedInTime` | the counts of a lease of 91 days or more stop at 65535 (dhcp.c:1057, 1072, 1086), and `dhcp_coarse_tmr` tests the end first (dhcp.c:440): it runs out without a renewal | dhcp.c:426 |
| Dhcp_supplied | `SuppliedMeansAddress` | a refusal leaves the timers of the old lease running (dhcp.c:277) | dhcp.c:1976 |
| MqttCodec_topic | `MessageRecovered` | 128 * high + low in place of 256 (mqtt_client.c:239) | main.c:254 |
| MqttCodec_empty | `ReadIsWholePacket` | a read of 0 bytes over an old message is decoded (mqtt_client.c:145-153) | mqtt_client.c:219 |
| Clock_midnight | `RightAtMidnight` | the calendar starts again before its date is written (rtc.c:74) | main.c:196 |

## 4. Fairness

`Spec` of BoardTasks has none; BoardTasks_safety uses it. The runs of liveness use
`CoreRuns`, `Fairness(groups, E)` and `LightLoad`:

* `CoreRuns`, weak fairness of "some task steps": the core executes while a task
  is ready. `EndSpec` does without it: it follows from its other two parts;
* strong fairness of each group's steps: a task that has the core again and
  again uses it (it is preempted, not starved);
* weak fairness of the delays and timeouts of the tasks in E: the tick runs.

`LightLoad`: again and again both tasks of the stack are idle. They have the
highest priorities, so a network that floods the board takes the core from
all the others; no liveness holds then, in the model or on the board. `EndSpec`
asks for the delays of Link and Button and for two groups: Link, and the two tasks below it
in one, which leave what they hold; once Main is terminated that group is Button alone. `FairSpec`, for the violated
property, assumes all of it for every task, so that what is refuted is refuted under
the strongest scheduling the board can offer. Nothing is assumed of the cable, the
interrupt or the button.

MqttSession assumes weak fairness of the program's own step: every read returns
after 10 seconds. Nothing is assumed of the broker or the network. That clients
publish finitely many messages (`MaxMessages`) is an assumption of `PressEndsOrOverruns`: a
broker that never takes the UNSUBSCRIBE and never stops sending would keep the
drain of `TCP_Close` going. For the same reason `ButtonCloses` ends at the drain.

| Module | Weak fairness of | Why |
| --- | --- | --- |
| TlsStream | the steps of a write and of a read, the broker's reading | the task on the connection runs; a read ends after 10 s. Whether the broker ever sends is open |
| EthernetTx | the DMA, each task's transmit | the hardware goes on; neither task waits inside of a transmit |
| EthernetRx | the interrupt, the thread it wakes | highest priority. The stack may keep its pbufs for ever |
| UdpExchange | Main's steps, the ARP timer | a read ends after 10 s. Nothing is assumed of the network |
| Dhcp | Main's polls, a timer that is set | polls every 250 ms. Nothing is assumed of the servers |
| KernelQueue | the tick; each reader's steps strongly | a reader is preempted by others again and again, but the core is idle most of the time |

Clock and MqttCodec have no liveness: nothing in them waits.

## 5. Proofs

All theorems are about every value of the constants that their named assumptions allow.

### BoardTasks_proofs

For every size of the mailboxes (`BoardAssumption`: they are positive):

* `TypeCorrect`: `Spec => []TypeOK`;
* `Invariance`: `Spec => []IInv`, the inductive invariant;
* `MutexesHeldWhereUsed`, `HoldersStayAwake`, `PriorityBoostEnds`: the properties
  `HeldWhereUsed`, `HoldersAwake`, `BoostEnds`.

`HeldWhereUsed` is not inductive. A step of a task needs to know that the task is
not at the same time waiting for a mutex or not yet created, so `IInv` adds
`Consistent` (only Main is ever deleted; a blocked task waits for the mutex that its
next step wants; tasks that sleep or do not exist are in no section) and `Created`
(which tasks exist while Main is at which place of its start-up). The tables `Wanted`,
`Taken`, `Given` and `Released` are used through lemmas that say what taking and giving do
to the sections. Actions are then of three kinds: taking (`KeepsLock`), giving
(`KeepsUnlock`), and steps that stay outside of the sections (`Quiet`, with one lemma for
each group of actions). `BoostEnds` follows from `IInv` and from
`OnlyLockingChangesPriority`.

The second part of the module is about the end of the program:

* `EndInvariance`: `Spec => []EndParts`; `EndIsReported`: the property `EndReported`.

A last message that went out in full needs the UART to be ready when it begins. `Printer` is the
task that has the UART: the one in `Error_Handler`, else Link or Button once it is on its way to end
the program (its poll restarted the UART), else Main. `UartInv`: a busy UART is so for the printer.
`Places` says where each task can be. That no task below the printer prints behind its back
is the lemma `RunsAlone`: the tasks that took the UART are ready and, without a mutex of lwIP,
at the priority they were created with (`BoostEnds`). `HandlerInv` follows `Error_Handler`
to its end in the one task that suspended the scheduler.

The third part is about priority inversion:

* `NoInversion`: the property `NoPriorityInversion`.

`Inherited` raises only the task that holds the mutex, not the one which that task waits for, so the
property needs `Covered`: a task that waits is not above the holder, nor, when
the mutex was given back and not yet taken, above a ready task about to take it. Above a task that
waits there is then a ready one (`Awake`): the chain of holders is at most "core", then "sys". The
difficult step is a task that blocks on "core" while its holder itself waits for "sys": the
holder of "sys" is then the Ethernet thread (`ThirdTask`), which nothing exceeds. When
the mutex is given, the waiting task of the highest priority becomes ready. `Covered` is claimed only
while no mutex is orphaned: that is what a terminated Main destroys.

### MqttClient_proofs

Both modules of `mqtt_client.c`. The session (MqttSession), for any number of messages
(`SessionAssumption`), whatever their text looks like, cut into reads in any way:

* `SessionInvariance`, with `OnlyAcceptedConnections` and `SocketsAreDrained`: the
  properties `ConnectionAccepted` and `ClosedDrained`;
* `AliveInvariance`, with `SessionTypesHold`, `CommandsObeyedOnce` and
  `AliveBrokersAreKept`: the properties `TypeOK`, `ObeysOnlyCommands` and `AliveNotLost`.

The first two are about what the broker can have sent, so `SessionInv` follows the packets
under way. `Handshake`: until the board has accepted the connection, the broker has nothing
of it but the CONNECT, hence a read there can begin only with its answer or a DISCONNECT, and
the buffer holds the zeros it was born with, hence a read that returns 0 is not taken for
a packet. `Leaving`: the DISCONNECT is the last packet of the board, so a broker that has
not closed has yet to take it; a read that returned 0 was the end of the connection, with nothing
behind it.

`AliveInv` adds three counts. `Load`: requests and packets under way, with the SUBACK the
broker still owes, are at most the messages forwarded and one or two more that depend on
where the board is (`Ahead`); this bounds the queue that nothing in the code bounds.
`Counted`: commands obeyed and commands under way are at most those forwarded, so that none
can be obeyed twice, and no other text is obeyed. `Expected`: as long as the connection is open and no read gave up on
something under way, the board finds, at each of its waits, nothing but packets that it
accepts there, and after a PINGREQ there is something on the way to it; so `AliveNotLost`
cannot fail. A read takes any number of packets: `Brings` says what it
leaves, and `DataRead` that every read is of that form.

The bytes (MqttCodec, whose names differ from those of MqttSession so that one module can extend both),
for all lengths that two bytes can write, properties of the broker's packets below 128 bytes, and
any character but the NULL (`CodecAssumption`):

* `CodecInvariance`: `CodecSpec => []CodecInv`; `CodecTypes`: `CodecTypeOK`;
* `SizesAreWritten`, `PacketsAreUnderstood`: the properties `SizeIsWritten` and `BrokerUnderstands`;
* `MessagesAreRecovered`: the property `MessageRecovered`, when the topic subscribed to has fewer
  than 256 characters. The run MqttCodec_topic shows that the hypothesis is needed.

The code counts the bytes of the remaining length with one loop (`pow`) and writes them with
another (`rem_len`). `TurnDecodes` follows the second one turn by turn: four turns, because the lengths
stay below 2^28. `DigitsCounted` shows that the first one counts as many (`LengthWritten`). A lemma
for each encoder (`ConnectFits`, ...) says that its body is as long as what was reserved and has
the length of the text where the broker looks for it. For the reads, `Closed` says that a buffer that
begins like a PUBLISH has a byte that ends its remaining length, also after the text was moved over
it, `PublishArrives` where the fields of a packet are found, and `PublishIsHandled` that the text moved to
the start is followed by its NULL.

### EthernetRx_proofs

For every size of the ring, the pool and the mailbox (`RxAssumption`: all positive, and two
messages more than the mailbox holds):

* `RxInvariance`: `Spec => []RxInv`, the inductive invariant;
* `RxTypes`, `NoPbufIsLost`, `InputHasMessages`, `NoFrameIsStranded`: the properties `TypeOK`,
  `PoolAccounted`, `MessagesSuffice`, `NothingStranded`;
* `ReceivePathIsAChannel`: `Spec => FramesInOrder`, the refinement of Channel.

`RxInv` says where the frames are. `RingInv`: the descriptors that wait are the `Count` ones from
`curRx` on, with consecutive numbers, and the one that is taken but not given back is behind them.
`OrderInv`: the frame the thread holds comes after
the one posted last, directly after it as long as none was given up. `HeldInv`: what went up is ordered by
number, so that one pbuf is never in two places, which makes the sum of `PoolInv` go up and
down by one. `WakeInv`: a thread that sleeps with frames in the ring has its semaphore given, the
flag raised or the callback running, or gave up. Going round the ring is the lemma `Round`.

### KernelQueue_proofs

For any set of readers, any capacity and any timeouts (`QueueAssumption`):

* `QueueInvariance`: `Spec => []QueueInv`;
* `QueueTypes`, `WaitersAreBlocked`, `NoReadEndsEarly`: `TypeOK`, `WaitersBlocked`, `NeverEarly`;
* `NoWakeupIsLost`: `NoLostWakeup`.

`QueueInv` has three parts. `Suspension`: the scheduler is suspended, and the queue locked, by the
reader whose place says so. `Membership`: a reader in a list sleeps in its call, with time
left, and is on the event list or has been taken off it. `Time`: what is left of a read's time is at
least what has not passed. `WakeupInv` adds the counting: each message of the locked time is in
`cTxLock`, each other one has a reader that is going to look. Waking the n foremost
readers takes n of them, or all (`ForemostEnough`: of the readers left over, the one with the
fewest above it has n above it).

### TlsStream_proofs

For any number of packets and records (`StreamAssumption`: the two bounds are natural numbers):

* `StreamInvariance`: `Spec => []StreamInv`;
* `WritesAreAChannel`, `ReadsAreAChannel`: `Spec => OutboundInOrder` and `Spec => InboundInOrder`,
  the two refinements of Channel;
* `RecordsAreAccepted`: `NothingRejected`.
* `OnePacketIsSkipped`: `OneWriteSkipped`. `Skipping` adds to the invariant that a skipped
  write ends with the left-over record sent, and that Main itself skips none.

Main's termination overwrites the context in the middle of a call, so `StreamInv` says two things of
each direction. Whatever was left behind: a record that the broker can still accept is of a later
packet than the one it accepted last, and than those before it (`Ordered`); what a read can still
return belongs to the record decrypted last and comes after what was returned (`InOrder`, with
`Shared`: the records share out the chunks). As long as no overwrite happened inside a call:
packets and records have the same numbers (`OutWhole`), what is in hand begins directly after what was
returned (`InWhole`), and every unit of a record is in the buffer or under way, in order
(`InStream`), so that a whole record is authentic and `DecryptFails` needs a torn context.
The refinements follow step by step: each step is a `Send`, a `Deliver` of the
next number, a `Cut`, or a stutter.

### EthernetTx_proofs

For every ring of three descriptors or more and any number of frames (`TxAssumption`):

* `TxInvariance`: `Spec => []TxInv`; `TxTypes`: `TypeOK`;
* `FramesStayIntact`, `BuffersStayHeld`, `TransmitterIsKept`, `OkIsSent`: the properties `FramesIntact`,
  `BuffersHeld`, `TransmitterKept`, `OkMeansSent`;
* `TransmitPathIsAChannel`: `Spec => FramesInOrder`, the refinement of Channel.

`TxInv` has an unconditional part (types, and `Numbers`: nothing names a frame that was not given to
`low_level_output`) and `Orderly`, which holds until a call begins inside of another one. That
condition is no convenience: EthernetTx_lost shows what is left when it fails. While
`Orderly` holds there is one call at most. Without one the ring is `Quiet`. With one
its place decides everything else: before the tail is written (`Prepared`) the
DMA stands at its first descriptor, and the descriptors that are given away are its own up to
the one in hand; afterwards (`Waiting`) the DMA is at the first one, at the last one, or at the tail
with the frame on the wire. `Described` says that each descriptor names the frame of
the call. The error paths of the driver (`Refused`, `DescBusy`, `Undo`, `Timeout`) are shown to be
out of reach there. A ring of three descriptors or more is what keeps the last descriptor of a frame, and the
one behind it, apart from its first one (the lemma `Round`).

### Dhcp_proofs

For any number of polls, any addresses, leases and number of transactions (`DhcpAssumption`):

* `DhcpInvariance`: `Spec => []DhcpInv`; `DhcpTypes`: `TypeOK`;
* `AddressesAreLeased`, `LeasesEnd`: the properties `AddressIsLeased`, `LeaseEnds`;
* `StaticIsKept`: `StaticStays`; `RenewalsAreInTime`: `RenewedInTime`.

`struct dhcp` is written by two tasks without a lock. What makes that safe is `Place`: the client is
silent (state OFF, no timer) before `dhcp_start` and after `dhcp_stop`, and in no other place of
`DHCP_Request`; an address of the server on an interface without a lease is possible
only inside of `dhcp_stop`. `Lasting` (the time used is below the lease) has to hold
in every state of the client, since a refusal keeps both counts and a state without a lease can become RENEWING
with them. `Timely`: with a lease of 90 seconds to 91 days (`Renewable`), until a renewal was asked for,
the client is BOUND, and the countdown of T1 ends before the lease does; `TicksOf` shows that this
survives the rounding to minutes and the limit of the counts. Below, the end comes with the first tick;
above, the count of half the lease has reached the limit too, and Dhcp_long shows what happens then. Each handler of tcpip_thread has one of five effects on the
client (`Handled`: it negotiates, binds, restarts, rests or ages), and the invariant is shown for those.

### UdpExchange_proofs

For any number of exchanges, and any age at which an ARP entry is given up (`ExchangeAssumption`: both positive):

* `ExchangeInvariance`: `Spec => []ExchangeInv`; `ExchangeTypes`: `TypeOK`;
* `RequestsGoIntact`, `AnswersAreOwn`: the properties `RequestsIntact`, `AnswersMatch`.

`Numbers`: datagrams under way, and the one that waits on the ARP entry, have ports that were used, and none has that
of an exchange that has not sent yet. `Restarted`: between the restart and the send, only a packet of the next hop
can have made the entry. `Mailbox`: a socket has only what came to its port. `Own` joins them: what is under
way for this exchange is about its own question, unless the next hop was known before it was
asked for. The network enters through one lemma (`NetworkKeeps`): whatever it loses, repeats or delays, what
comes in has the port and the question of something that was under way.

### Model-checked only

Every liveness property, which is out of the prover's reach, and the invariants of Clock, which
TLC checks on the bounds of section 3.

## 6. What is left

* An abstract specification of what the user is promised (connected, obeying, closed),
  implemented by MqttSession over Channel in place of its two queues.
* A proof of `RightThisMonth` for every year, day and length of a day: the induction over the days of
  a month is that of the ticks, but it needs the calendar's arithmetic as lemmas first.

## 7. Not modelled

* Set-up of clocks, caches, MPU, pins, MAC and PHY; generated system calls. `main` is the
  initial state of BoardTasks. `Test_Mode` and what belongs to it are switched off in `settings.h`.
* The handshake, certificates and algorithms of mbedTLS, and the protocols inside lwIP, beyond the
  functions the modules name. They are vendored libraries; what the program relies on
  is a connection that keeps order or is reset, and that is what MqttSession and TlsStream take for granted.
* The seconds of NTP: they wrap in 2036, beyond the integers of the model checker. Clock
  begins with the date and time that the answer brought.
* The heap: its use is decided by mbedTLS, and `_sbrk` (sysmem.c) gives memory up to the stack
  reserved for `main`.
* A nested `SYS_ARCH_PROTECT`, which its mutex would not allow: no section of the code that is
  built calls another one.
* The memory of a terminated task is freed by the kernel while it may still be named as the
  holder of a mutex; the model keeps its last priority instead of what the memory is used for next.

The repository has some 370 000 lines, of which the application's own are a few thousand. The rest
are vendored libraries, most of their lines headers of registers, drivers of peripherals the
board does not use, cryptography, and protocols that are compiled out. The
modules cover the application and, of the libraries, the functions whose
interleaving, failure or arithmetic decides what the application does; a
third of all lines is not within reach of a model that is about this program.
