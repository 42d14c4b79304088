# TerraPulse: TLA+ models, model checks and proofs

TerraPulse monitors structures: accelerometers feed samples to acquisition
daemons, waveforms and analysis results travel over a SeedLink-like backbone and
a ZeroMQ bus, anomalies are grouped into events, stored and alerted on. This
directory holds formal models of the parts of it whose behaviour depends on
orderings, failures and wrapping counters.

- `*.tla`: the specifications; `*Proofs.tla` and `Facts.tla` hold the theorems
- `MC*.tla`, `*.cfg`: bounded instances for TLC
- `PROJECT.json`: which definition models which source lines, the runs, the
  mutants that show every property can fail, the hazards, the theorems

A run: `tlc -config MCRingLog.cfg RingLog.tla`. A proof: `tlapm RingLogProofs.tla`.

## Inventory

| component | state it keeps | operations | interacts through |
|---|---|---|---|
| retention ring (`src/slink/SeedLinkRing`) | slots, head, count, absolute count | push, packet(seq) | called by the SeedLink server |
| SeedLink server (`apps/tpslinkserver`) | the ring, per client: stations, selectors, cursor, streaming | accept, command line, pump (100 ms), acquisition feed, drop | TCP to clients and to tpacq |
| waveform client (`src/slink/WaveformClient`) | last number, input buffer, axis queues | blocking handshake, onReadyRead, reconnect timer | TCP to the server, callbacks to its host |
| bridge (`apps/tpslink`) | as the client | as the client, publishes to the bus | TCP, bus |
| acquisition (`apps/tpacq`) | record backlog, feed socket, bus batch, archive buffers, watchdog | sample, flush, drain, reconnect, stall check | TCP to the server, bus, files, serial port |
| publisher (`src/bus/Bus`) | link flag, settling time, backlog | publish, pump; the connection monitor | ZeroMQ to tpmaster |
| broker (`apps/tpmaster`) + store (`src/storage/DbStore`) | tables, two queues, subscriptions | persist then forward, snapshot, pass subscriptions on | ZeroMQ, SQLite |
| data-model tool and client (`apps/tpinv`, `InventoryModel`) | structures, sensors, channels, latest features | publish and quit; snapshot, subscribe, poll | bus, control socket of tpmaster |
| pipeline (`src/proc`, `apps/tpproc`) | windows, stream state | feed, gate, analyse | bus |
| anomaly history (`src/history`) | active anomalies and their index | processSaf | called by tpproc |
| events and alerts (`apps/tpevent`, `apps/tpalert`) | open events; severity alerted, last alert | on anomaly, sweep; on event | bus, commands |
| broker library (`src/broker`), thread queue (`client/queue.h`) | groups, message ring; circular buffer | push, publish, getMessage; push, pop, close, reset | threads |
| archive writer (`src/mseed/TdsArchive`) | a record buffer per channel | addSample, flush | files |
| serial receiver (`src/serial`), firmware (`accelerometer/main.c`) | parser buffer; packet number, SD file, its retry deadline | parse, open and pulse DTR; boot, main loop | serial line |
| supervisor (`bin/terrapulse`) | pid files | start, stop, check | processes |
| tools, pages, console, numerics | none that matters here | | |

What is hard, and what makes each part correct:

- **Ring.** The 24-bit number wraps, slots are reused, and a reader names a record
  by its number alone. It must never be handed another record, and be told the truth
  about what is gone and what is not there yet.
- **Backbone.** The client's handshake blocks its signals and takes "whatever
  arrived" for the reply; links break at any byte, the server restarts with an empty
  ring, timers overlap. A client must come back, in order, without repeats, missing
  nothing silently, with its own subscription, and never wait for a number that will
  not come.
- **Acquisition feed.** A bounded backlog, a socket that accepts records for a link
  already gone, reconnection driven by a signal. Order, account of every record,
  and eventual return.
- **Publisher.** The link flag lags behind the link; draining waits while new
  messages pass; the socket drops silently. Every message must be in one place, and
  the backlog must go out.
- **Broker and store.** Persist before notify; a snapshot taken before the
  subscription; removals that cascade on one side only. The copies must agree up to
  what is known to be lost.
- **Anomaly chain.** Index kept through erasure; objects that share sensor numbers
  and start times; numbers that restart, and that several `tpproc` share; publications
  nobody stores; a quiet sweep racing late updates; cooldown against escalation.
- **Instrument.** A parser that must find packets again in damaged bytes; numbers
  that restart and wrap; a signed deadline; a watchdog that resets what it waits for.

`PROJECT.json` lists each of these hazards at its line, and those no property covers yet.

## Modules

```
                              RetentionLog (abstract)
                                   |  INSTANCE
             SeedLinkRing ---- RingLog ---- RingLogProofs
                  |
             SlinkServer ---- WaveformLink ---- WaveformLinkProofs, MCWaveformLink

AcqFeed ---- AcqFeedProofs          StoreForward ---- StoreForwardProofs
Instrument ---- InstrumentProofs    DataModel ---- DataModelProofs, MCDataModel

AnomalyHistory ---- AnomalyChain ---- AnomalyChainProofs, MCAnomalyChain

Facts (lemmas on remainders and sequences), in all modules named ...Proofs;
WaveformLinkProofs takes the ring's lemmas from an INSTANCE of RingLogProofs
```

**`SeedLinkRing`** is the class of that name: `slots`, `head`, `count`, `produced`
are `m_slots`, `m_head`, `m_count`, `m_produced`; `Push` is `push`, `PacketResult`
and `SlotOf` are the verdict and the copied slot of `packet`. `SeqSpace` is
`kSeqMask + 1`. `RingAssumption` asks that the ring be smaller than half the number
space, as it is (`--ring` counts tens of thousands of packets, `kSeqMask / 2` is
8388607); nothing in the code enforces it.

**`RetentionLog`** is the promise in the header of the ring: an unbounded log of
which the last `Cap` records can be read by absolute number.

**`RingLog`** lets a producer push and a reader ask for any number within the
*horizon*: at most `SeqSpace - Half` behind the window and less than `Half` past its
start. Outside it `packet` cannot tell what a wrapped number stands for. With 2^24
numbers the horizon is about eight million records on either side, days of a station
network's records, so no reader that is polled ten times a second crosses it while
connected; a client that stays away longer than that resumes with a meaningless
number, as in any protocol with wrapping numbers.

**`SlinkServer`** is `tpslinkserver`: `conn[c]` is the `Client` structure,
`ServerRead` is `onRead` with `handleCommand`, `PumpClients` the timer, `Ingest` the
acquisition feed. `link`, `up`, `down` are the TCP connection. `at`, `asked`, `jumped`,
the `from` of a DATA command and the fields `epoch`, `num`, `asked` of a packet are history,
compared with but never read by an action that models code. Two exceptions name the horizon
in guards: a record is ingested only while no reader is beyond it (`Near`). `asked`
follows what the reader means and not what is served: DATA carries in `from` the
record after the last one taken, `Meant` is that record, or the oldest of the ring when
it has aged, and every turn of the pump's loop means the next one. `num` is the record
that sits in the slot served. `Genuine` compares the first with the record sent.

**`WaveformLink`** adds the clients. `Connect` starts `connectAndHandshake`, one
`Reply` step is one return of `waitForReadyRead` and `readAll`: it takes any number of
messages that have arrived, none on a timeout. Thus a late reply is taken for that of
the next command and packets can be swallowed with a reply, as in the code (`Take`). `Finish`
and `GiveUp` are the two ends. A command written to a link that the other end has reset
may fail (`WriteFails`): flush aborts the socket, with what was not read, and `disconnected`
is blocked. In mid-handshake the next reply is then empty and the client gives up or
goes on to a DATA that fails; after DATA only `tpslink` writes once more, END, and when that
fails it is left without link and timer (`muted`, history). `ReadyRead`, `Disconnected` are the
socket signals, which exist only outside the handshake and once `wired`. The environment breaks links
(`Break`), restarts the server (`Restart`), refuses connections (`ConnectFails`),
each at any moment. A client in `Bridge` is `tpslink`: it checks the reply to STATION
and sends END. When a link is replaced or broken the server's old `Client` is dropped
at once: a stale one writes only to a dead socket and shares nothing but the ring,
which it does not change. `LinkAssumption` types the bounds, the records and the
subscriptions; no selector is empty, because `sendSelectors` skips those. `Path` is what
lies before a client, from the packet it took last over all that is under way to the
cursor of the server; `Received` are the packets of it that the client has.

**`AcqFeed`** is the record path of `tpacq` up to the ring: `Pack` is a full window
(`feedRecord`, `flushFeedChan`, `drainFeed`), `ConnectFeed` the reconnect timer,
`Connected` and `Disconnected` the signals, `Refused` a connection attempt that fails
and emits neither, `Ingest` the reader of `acceptFeed`. `QTcpSocket::write` takes a
whole record in the connected state, so the error branch of `drainFeed` does not occur.
`MaxBurst <= FeedBacklog` excludes the one configuration, a backlog smaller than what
a single window is encoded into, in which records are evicted while the link is up.

**`StoreForward`** is `Publisher` with `storeForwardCap > 0`, in an application that
pumps it every 200 ms, with `tpmaster` and a subscriber behind it. `m_connected` and
`m_backlog` are the members; `settled` is "more than 300 ms since `m_connectedAtMs`".
`Publish`, `Pump`, `DrainOne` (one turn of the loop in `pump`, between which the
socket's own threads run) are the calls; nothing is published during a drain, since the
application has one thread. `events` are the monitor's events not yet read, appended by
`LinkUp` and `LinkDown`. The ZeroMQ socket is external: `pipe` is what it has taken, up to
`Hwm`; it drops what nobody has subscribed to; a broken link takes any prefix of the
pipe; it may keep what it knew of subscriptions. `Subscribe` and `Forward` are the two
loops of `tpmaster`, whose restart forgets the client (`wanted`). `fate` records how a
message was lost.

**`DataModel`** follows an inventory item from `tpinv` (`PublishInventory`, and `Quit`,
which throws away what the socket still holds, as `linger` is 0) through `forwardData`
(`ForwardInventory`, `ForwardFeature`: the write first, its result ignored) to the
database (`inv`, `saf`) and to a thin client. A feature has its place in the order of
forwarding and its time stamp, the start of its window, which may repeat and go back:
raw messages overtake one another (`OnlyAsideOvertaken`) and a device sets its clock
back when it restarts. `saf` are the rows with the largest time stamp, which is what the
snapshot asks for (`Newest`); of several the client keeps any one (`Latest`). `Poll` replaces
the entry whatever its time stamp, as `applyFeature` does. The constructor of `InventoryModel` is
`Serve` (the control socket answers), `ApplySnapshot` or `Timeout`, then `Attach`;
`Apply` is `applyInventory`, which drops the sensors and channels of a removed structure,
as `writeInventory` does not. Sensors and channels are both `Parts`, of which there are
finitely many; features are numbered, and no item is a number.

**`AnomalyHistory`** is `HistoryEngine`: operators on a record of `m_activeEvents`,
`m_activeIndex` and `m_nextShfId`, since every `tpproc` has one. `Open`, `Update`, `Close` are
the branches of `ProcessSaf` that change it, `Returned` is the anomaly it returns. `Key` drops
the object of a channel, as `makeKey` does. **`AnomalyChain`** has any number of `tpproc`
(`Procs`), each with channels of its own, as `--stations` parts them
(`tpproc/main.cpp:245-247`); each numbers from 1, into one table whose primary key is the
number alone. It composes their engines with the gate of `flushWindow` (calibration; the numeric judgement is the choice of a severity, 0 for
none), the tables of `DbStore` (`WriteShf` replaces a row with its review,
`WriteJournal` sets the review), `tpevent` (`HandleShf`, `Sweep`) and `tpalert`
(`HandleEvent`). The sweep closes what is quiet in the order of the `QHash` of open
events, which is unspecified: `StoredInTurn` allows every order. `ChainAssumption` asks that
every channel belong to one of finitely many objects, and that clock and queues have
room for at least one. `tpmaster` stores and hands on within the publication: the delay in
between is part of the queues `toEvent`, `toAlert`. A publication of `tpproc` may also fail
(`Publish`): the write of the row, whose result nobody looks at, or the whole message, since
`tpproc` asks for no store-and-forward. `unstored` (history) names the anomalies whose last
message is not in the table. That `tpevent`'s messages are lost, and its writes fail, is
left out. Which `tpproc` has a channel, which programs run beside them and which fail is
fixed at the start (`scenario`). A restart forgets a process's state
and what waits for it. Time is a clock of ticks; every channel has at most one window per
tick. `SAF` times are the clock, so objects shaken in the same tick have anomalies with
equal start times, as with windows that end in the same millisecond.

**`Instrument`** is one device and its reader. A tick is a period of the watchdog
timer; in each the firmware makes a pass of its loop with one sample, or a step of its
boot, and `checkStall` runs once, in either order (`turn`). `stage` is the place in
`main`, `late` is `t_now - next_retry` modulo the range of `g_tick`, so `late < Half` is the
signed comparison. `Remainder` is `parseBuffer` and `ParsePacket` `parsePacket` on packets
of six bytes, two of them the magic and two a payload that may look like one. One call
per packet stands for any splitting of the bytes into calls: more of them drop bytes that are
no magic earlier, by the `right(1)` at the end of each, and what is found of packets is the same.
`ConnectPort` is `connectPort` with its DTR pulse, wired to the reset of the processor as
the comment of `checkStall` says. Faults are damaged packets, hangs, a removed device, a
failing card or accelerometer, and their repair.

Operators named `Faulty...` are the definitions they precede with one plausible slip.
Only the mutants of `PROJECT.json` put them to use, one for each property of each
passing run, to show that the property can fail.

## Runs

| run | instance | what it shows |
|---|---|---|
| `ring` | ring of 3, 10 numbers, 12 pushes, 2 records | types; `WindowInv`; `HonestAnswers`; the ring implements `RetentionLog`. 262 173 states |
| `link` | WaveformClient, 2 stations x 1 selector; ring of 2, 8 numbers, 10 records, 1 restart, 2 faults | order, the records meant, subscription, no silent gap, no orphan, return to real time. 205 985 states |
| `bridge` | tpslink, 1 station; same bounds | its stricter handshake comes back unless its END failed, and loses nothing more. 222 038 states |
| `feed` | backlog of 3, bursts of 2, 8 records, 3 faults | order, account, newest kept, return. 17 526 states |
| `backlog` | backlog of 3, high-water mark 2, 5 messages, 2 broken links | one place for every message, the flag catches up, order but for what was put aside, oldest go first, the backlog goes out. 1.84 million states |
| `datamodel` | one structure with one part, 2 tpinv, 2 runs, 3 features with 2 time stamps, 2 faults | the copies agree but for what is known to be lost, write before notify, no way back in the order of forwarding. 3.59 million states |
| `anomaly` | 2 objects, 3 channels of which two share a key, 2 tpproc, 7 windows in 4 ticks, queues of 1, one restart, one lost publication; three scenarios | index, rows, reviews, event rows, alerts, events close. 1.39 million states |
| `instrument` | boot wait 2, blink 3, retry 2, clock range 8, stall 2 ticks, 4 packet numbers, 2 faults | resynchronisation, loss count, SD retry, recovery. 242 090 states |
| `outage_gap` | as `link` | violated: packets read together with the reply to DATA are lost |
| `laggard` | as `link` | violated: an overtaken client is moved on, not disconnected |
| `feed_loss` | as `feed` | violated: what the socket took before a break is lost |
| `feed_stranded` | as `feed` | violated: after one refused attempt the feed stays away for good |

**Bounds.** The ring wraps its slots several times and its numbers once within 12
pushes, with every offset of one to the other; 10 numbers leave room for a window, a
future and a past. In `link` the number space wraps within one incarnation, one
restart puts every combination of old number and new ring before the client, and two
faults allow a fault during the recovery from a fault. One client is enough: clients
share the ring as readers and no other state. Deadlock is not checked in the link runs:
the feed and the faults are bounded, so the system comes to rest. In `feed` the backlog
overflows, bursts straddle the limit, and three faults cover two outages and a refusal.
In `backlog` five messages overflow a backlog of three with one to spare, the drain of
three overflows the socket's two, and the second fault falls anywhere in the recovery
from the first. In `datamodel` two runs of two tools are an addition and a removal, or
two of either, interleaved; two faults are a failed write and a relaunch, a broken link
in the snapshot of a relaunch, and so on. One structure with one part is enough: no operation
touches two structures, and none treats the parts of one differently. Three features with two
time stamps are one below, one above and one beside the newest, on either side of a
snapshot. The two `tpinv` are alike, which `Alike` uses: neither properties nor actions tell
one from the other. `anomaly` runs three scenarios: an operator with one `tpproc`, which may
restart, or with two that have an object each, and may restart, each of these with a `tpmaster`
that misses a publication or fails to write it; and `tpevent` with `tpalert`, either
restarting, behind one `tpproc`. The rows see nothing of `tpevent`, and the events nothing of
the rows of anomalies. A tick of quiet and
one of cooldown lie below, at and above the time between two windows of a channel; three
channels let the erasure move an entry, twice. In `instrument` the clock wraps
twice over the longest time a log may be open, the boot without a card is longer
than the stall timeout, as it is (2.8 s of blinking against 2 s), and packet numbers wrap
within an outage. Deadlock is checked there: the instrument never stops.

**Fairness.** Weak fairness of the timers and of the event loops' steps: Qt fires an
armed timer and delivers a readable socket's signal. A connection attempt to a listening
server succeeds unless a fault is taken. Nothing is assumed of the feed, of the faults
or of the restart. `StoreForward`: the pump timer, the drain loop and the passing of time;
nothing of the link, whose staying up is the hypothesis of `BacklogGoesOut`.
`AnomalyChain`: the message loops of `tpevent` and `tpalert`, the sweep timer and time;
nothing of windows or restarts. `Instrument`: the processor, the 500 ms timer and time;
repairs are the hypothesis of `StreamRestarts`. `DataModel` states no liveness: nothing in
the code asks again for what was missed. `ReplyArrives` is fair only for a return of
`waitForReadyRead` that has something to return, or a broken link.

**What the violations mean.** `outage_gap`: `readAll` after DATA also takes packets that
the pump has already sent, and the handshake throws the reply away; the next packet read
moves the resume number past them. `NoSilentGap` has exactly this excuse (`ate`) and the
ring's age, and holds. `feed_stranded`: only `disconnected` arms the reconnect timer, and
a failed attempt does not emit it; `FeedReturns` has exactly this excuse (`refused`).
`feed_loss`: the backlog forgets a record when the socket accepts it; `Accounted` shows
that this and the counted eviction are the only losses. `laggard` is a divergence of the
protocol document from the code, which prefers to keep the connection.

**What the passing runs show besides.** Several properties hold only with an excuse
that a reader of the comments would not expect; each is an explicit disjunct.

- `Accounted` of `StoreForward`: `Bus.h:20-25` promises that nothing is lost over a restart of
  the broker. A message is also lost when the backlog is drained before the restarted
  `tpmaster` has passed the subscription on (`unheard`), when the drain exceeds the
  high-water mark (`overflow`), and on a link that breaks (`torn`).
- `CopyAgrees`: `InventoryModel.cpp:46` counts on the live subscription to fill in what
  the snapshot lacks. A notifier forwarded between the two reaches neither (`missed`), a
  failed write is forwarded all the same (`unstored`), and a removed structure takes its
  parts along in the client only (`cascaded`), to return with the next snapshot.
- `NoOrphan`, `EventuallySynced` of a bridge (`muted`): `tpslink/main.cpp:119` writes and flushes END
  with signals still blocked, until line 120. On a link already reset the flush fails, the
  socket is aborted, nobody is told and no timer runs: contrary to "stay alive; keep retrying"
  (`main.cpp:93`), that `tpslink` never comes back. `WaveformClient` sends no END and is safe.
- `NeverOlder` is about the order of forwarding and not about time stamps, which may go
  back: `applyFeature` (`InventoryModel.cpp:92-106`) replaces without comparing, so an older
  time stamp does replace a newer one if it was forwarded later. And a relaunched client shows
  the feature with the largest stamp, not the one it showed before.
- `RowsFollowEngine`, `ReviewStands`: several `tpproc`, one per partition as
  `tpproc/main.cpp:245-247` tells operators to run, all number from 1, and `shf_id` alone
  is the primary key (`DbStore.cpp:31,58`): they overwrite one another's rows and reviews
  without any restart. The properties speak of the `tpproc` that wrote a row last. With a single
  one the same happens after a restart, so a row of an earlier run is excused too. A review
  made while an anomaly is going on is reset by its next update, which is why `ReviewStands` speaks
  of anomalies that are over. And the message that an anomaly is over may be lost, as `tpproc`
  has no store-and-forward (`tpproc/main.cpp:281-287`), or not be written (`DbStore.cpp:163`):
  the row then stays ACTIVE for good (`unstored`).
- `EventRowsFollow`, `AlertedOrExcused`: event numbers are start times, so two objects may
  share one (`shared`): one row for both, and one alert. An escalation within the cooldown
  is not repeated unless the event is told of again (`answered`).
- `SdRetried`: `main.c:574` says once per `RETRY_MS`. The deadline is not renewed while the log
  is open; when the log closes more than 2^31 ms after it, the signed difference is
  negative and there is no retry until it has wrapped, up to 25 days (`wrapped`).
- `StreamRestarts` needs the card to work: the watchdog resets a device that blinks the
  code of a missing card for longer than the stall timeout, and so keeps it from ever
  streaming, contrary to `tpacq/main.cpp:153-155`.

## Proofs

Every theorem is about the specification of its module, for every value of the constants
that satisfies the module's `ASSUME`. They are proved along one pattern: an inductive
invariant in named parts, one lemma for each action and part that it can disturb, and a
last step that joins them.

**`RingLogProofs`**, under `RingAssumption`:

- `WindowTheorem`: `Spec => [](TypeOK /\ WindowInv)`, `TypeTheorem`: its first half,
- `HonestTheorem`: `Spec => []HonestAnswers`,
- `RefinementTheorem`: `Spec => RetentionPromise`, the ring implements `RetentionLog`.

The inductive invariant is `TypeOK /\ WindowInv`. `HonestAnswers` alone is not
inductive: that `packet` finds record `n` in slot `n % Cap` rests on the writer's head
being `produced % Cap` and on every retained record sitting in its own slot, which
`WindowInv` adds. A push keeps it because two numbers of one window fall into different
slots (`ModDistinct`) and the head steps as the remainder does (`ModSucc`). `packet`
recovers the position of a number exactly because its distance from the window is below
the number space (`ModDistance`, used by `ForwardExact`); the three outcomes follow from
that. The refinement needs only that and that the two modules answer alike (`SameAnswer`).

**`WaveformLinkProofs`**, under `RingAssumption` and `LinkAssumption`, for any set of
clients, bridges and subscriptions:

- `TypeTheorem`, `OrderTheorem` (`InOrder`), `GapTheorem` (`NoSilentGap`),
- `GenuineTheorem` (`Genuine`), `SubscriptionTheorem` (`OnlyWanted`), `NoOrphanTheorem`.

`LinkInv` joins the invariant of the ring (`RingInv`: that of `RingLogProofs`, its log being
what the feed brought to this incarnation), types, and six parts for each client.
`EndsAgree`: the server has a connection exactly while the client's link is up. `Greets`:
a connection that does not stream yet has read the first `k` commands of the handshake, and
those between it and the one awaited are under way in order (`Halfway`); `Built` says what
its stations and selectors are then, so that after the whole greeting it accepts what the
client wants (`BuiltAll`). `Streams`: a cursor is a number `packet` can still tell, behind
no record yet to come, and what the reader means is what the cursor stands at, though
the one counts records and the other wrapping numbers. `Holds`: a packet the client has is the
record it meant, and wanted, and the number after it can still be told, which is what
DATA sends. `Joined`: the whole `Path` is in order
and without a silent gap. `Found` is `NoOrphan`, with its exception of a `tpslink` whose END failed; it needs `Greets`, for DATA
must be under way when the client is content with its reply. `InOrder` alone is not inductive: that
a resumed cursor stands behind everything the client has rests on the ring reading the
wrapped number as the one it was (`ResumeExact`), hence on `Holds`, and on there being
no packet under way before DATA was read, hence on `Greets`. What an action does to a path
is told once per way of changing it: messages read with a reply (`LinkedDrop`), a packet
taken (`LinkedTake`), a reply appended (`LinkedText`), a link cut (`LinkedCut`), a cursor
placed (`LinkedFirst`), a batch of the pump (`LinkedBatch`). `PumpFacts` follows the loop of
the pump turn by turn.

**`AcqFeedProofs`**, under `FeedAssumption`: `TypeOK`, `InOrder`, `Accounted`, `NewestKept`, each
always true. `FeedInv` says that the backlog is a piece of the numbering that ends with the
last record packed, and that whatever has left it is in one place, in order and counted
(`SentBy`, `Balance`). What waits is the newest because eviction takes from the front; that
nothing waits while the socket is connected holds because `connected` drains all of it
before the next window is packed.

**`StoreForwardProofs`**, under `StoreForwardAssumption`:

- `TypeTheorem`, `FlagTheorem` (`FlagFollowsLink`), `AccountTheorem` (`Accounted`),
- `OrderTheorem` (`OnlyAsideOvertaken`), `EvictionTheorem` (`OldestGoFirst`).

`Placed` says where each message is, and that it is there once; `Ordered`, that what was
never put aside has not been overtaken, what was, only by what passed while it waited;
`EvictedFirst`, that a message thrown away is older than all that wait and that
enough newer ones were put aside to push it out. All three are stated for a message in the
application's hand as well, between `publish` and its three ends, and of the drain loop,
which holds one back from the backlog. The flag is right up to the last event of the monitor
that was not read yet (`FlagInv`), which no other part needs.

**`DataModelProofs`**, under `DataModelAssumption`: `TypeOK`, `CopyAgrees`, `ReadableWhenTold`
and the action property `NeverOlder`. `CopyAgrees` speaks only of a client that has
nothing to read. The invariant says what is true on the way there: every message in
the inbox tells what is in the table, or a later one will contradict it, or its item is in
doubt (`InboxInv`); and an item of which the inbox says nothing is already the same on both
sides, or in doubt (`CopyInv`). `FeatureInv` says that the features in the inbox are in
the order of forwarding and forwarded after the one shown; no time stamp is compared.
Whatever the snapshot brought was forwarded before it, and what is in the inbox after it,
since the client subscribes last. `NeverOlder` follows.

**`AnomalyChainProofs`**, under `ChainAssumption`:

- `ChainIndexTheorem` (`IndexConsistent`), `RowsTheorem` (`RowsFollowEngine`),
  `ReviewTheorem` (`ReviewStands`), `TypeTheorem`, for any number of `tpproc`,
- `EventRowsTheorem` (`EventRowsFollow`), `AlertedTheorem` (`AlertedOrExcused`).

For the index, opening needs that the key was not in it, and so is that of no anomaly on
the list; closing, that no two anomalies on the list have a key in common, so that
the index built anew has one choice for each (`CloseKeeps`). `SafStep` reduces `processSaf`
to what it does to the set of active numbers: one is added, one is taken away, or none
changes, and which number is returned (`SafEffect`). All of that is about one engine
(`HistoryInv`); `EnginesInv` says it of each. `RowsInv` (`RowRight` for one row) adds to
`RowsFollowEngine` that no row is of a later run of its `tpproc` than the present and that
a row of the present run has a number this run has given; without that, a newly opened anomaly
might find a row of its own run under its number. A window of one `tpproc` leaves the
engines of the others alone, so of their rows it can only overwrite one, which is then its own.
`ReviewStands` follows: a window writes the row of an active or a new anomaly, and a row that is
`RESOLVED` in the present run of the same `tpproc` has neither number.

For the events, `OpenEvents` adds that the row of every open event is there, of this run of
`tpevent`, and that two objects whose events have one number share it: without that the
row of one event could be written by another. For the alerts, `AlertedNumbers` adds
that the messages on their way to `tpalert` under the number of an event that nobody shares
are all of its object, that a number without a row was never alerted on, and that `tpalert`
alerted on no more than it answered. `AlertedOrExcused` is stated of the very event: a message
with its number, object and severity waits, or it was answered.

**`InstrumentProofs`**, under `InstrumentAssumption`:

- `TypeTheorem`, `ResyncTheorem` (`Resyncs`), `LossTheorem` (`LossCounted`),
- `RetryTheorem` (`SdRetried`).

`Resyncs`: what remains of the buffer never has the length of a packet, and holds no magic
once an undamaged packet without a false one was read (`QuietInv`). `LossCounted`: the
number the device gives next is the last one read, and the gap since, modulo the number
space, unless the gap went once round (`NumberInv`). `SdRetried` needs `RetryInv`: while the
log is closed the deadline is never further away than it was set, so that the signed
difference cannot have become negative except by the wrap that `wrapped` records.

`Facts` derives the arithmetic of remainders from the definition of division, and what
the proofs need of queues whose elements are numbers: what `Append`, `Tail`, `SubSeq` and `\o` do
to order, range and distinctness. The library's induction theorems take an operator as
parameter and cannot be used here; `Smallest`, from the well-foundedness of `<`, takes
their place where a proof about numbers needs them, as do `Ascent` and `Iteration` for
what a loop or a fold has reached after so many turns.

Model-checked only: liveness (`EventuallySynced` of `WaveformLink` and its like in the other
modules), because fairness and ENABLED are outside the prover's reach. Every invariant and
every action property of a passing run is proved.

## Not modelled

Hex digits, byte offsets and the miniSEED payload (records are opaque; a selector is
the set of channels it matches); CAT, BYE and unknown commands; FETCH, which shares
DATA's branch; clients that send commands out of turn; the server's archive and its
older bus feed; a connection whose far end reads on after the near end has noticed the
break; the matching of three axes by time stamp (`emitTriples`). In the new parts: the
second queue of `tpmaster`, which shares nothing with the first; heartbeats and the
bounded reading of messages in `ClientPlatform`; types, sensors and counts of an event;
the RTC, the registers of the I2C and SPI lines; the fields of a sample.

Most of the source is out of reach of, or of no interest to, a model checker, so the map
stays far below a third of the lines: the vendored FatFs (`ff.c`) and STM32 device headers
make up a third by themselves; the console, QML bridges and configuration editor
(`gui`, `controllers`, `config`), maps and geometry (`geo`), spectra and filters
(`analysis`, `proc/Filter`), file formats (`io`, `mseed`), read-only pages (`tpws`,
`tpslmon`, `tprelay`), one-shot tools (`tpimport`, `tpjournal`, `tpevtlog`, `tpstore`) are
numerics, formatting or straight-line code with no second actor. `Broker` and `ThreadedQueue` have threads and locks, but no program of
the repository runs them concurrently: `tpmaster` forwards frames itself, and nothing calls the
notification queue of `Application`. The archive writer is sequential. The supervisor
is a shell script around pid files.

## Plan

Done: ring and its proofs; server, client, bridge; acquisition feed; publisher behind the
broker; database and thin client; anomalies to alerts; instrument and reader.

Proved: every safety property of the passing runs. To come: the client's re-interleaving of
three axes, and whatever of the hazards in `PROJECT.json` has no property yet.
