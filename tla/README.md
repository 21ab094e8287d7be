# Verification of USBSID-Player in TLA+

USBSID-Player emulates enough of a Commodore 64 to run SID tunes and sends the
SID register writes, with their timing, to real chips (USBSID-Pico), to a
network SID device, to a MIDI (ASID) device or to a software SID. This directory
holds TLA+ models of the program, TLC configurations that check them on small
instances, and TLAPS proofs. `PROJECT.json` maps every definition to the lines
it models, and lists the runs, the hazards, the findings and the theorems.

Paths below are relative to `src/` of the repository (`cia/mos6526.cpp` is
`src/cia/mos6526.cpp`).

## 1. The system

### Parts, state, operations

| Part | State | Operations | Hard behaviour | What makes it correct |
|---|---|---|---|---|
| **Bus** `core/bus.*` | cycle counter `ticks_`, three wake counters, IRQ and NMI as wired-or source masks, NMI edge latch, BA | `tick`, `attach`, `attach_fast`, `cia_rescheduled`, `set_irq`, `set_nmi`, `tick_to_frame_end` | a chip is looked at only when its wake counter runs out, so the answer it gave must stay true until then | nobody can tell the scheduled machine from one that clocks every chip in every cycle |
| **CIA 6526** `cia/mos6526.*` | two timers with pipelines of flags, control registers, ICR/IMR and the interrupt delay, PB6/PB7, serial counter, CNT/FLAG, time of day with latch, halt and alarm | `tick`, `io_read`, `io_write`, `set_cnt`, `set_flag`, `catch_up`, `cycles_to_event` | three ways to advance (clock, bulk skip, whole cascade periods), accesses between any two | same as above, and: an enabled event always reaches the CPU, nothing else does |
| **VIC-II** `vic/*` | raster position, bad line and sprite DMA state, BA, raster interrupt | `tick`, `io_read`, `io_write`, `catch_up`, `cycles_to_event` | scheduled like the CIAs, steals CPU cycles | BA and interrupt edges come in the exact cycle |
| **CPU 6510** `cpu/*` | sequencer state, decoded instruction, flags, last samples of IRQ and NMI, jam | `tick` (one state a bus cycle), `sample_lines`, `reset`, `hot_reset` | lines are sampled after the cycle and acted on one cycle later, a fresh NMI takes the vector of a BRK or IRQ, BA stalls reads only | cycle exact; an interrupt is taken exactly once per edge or level; off the bus three cycles after BA falls |
| **SID front end** `sid/mos6581_8580.*` | register mirror, last event cycle, chip/voice mutes, pending mutes handed over by the other core | `io_write`, `io_read`, `vic_frame_ended`, `set_chip_mute`, `set_voice_mute` | gaps between writes must add up to emulated time; mutes come from another core | no tune time lost, a muted chip is silent, an unmuted one is what the tune wrote |
| **Voice three read back** `sid/sid_voice3.*` | oscillator and envelope of voice 3 | caught up on a read of OSC3/ENV3 | lazy, like the chips | equals a voice clocked every cycle |
| **Network backend** `sid/sid_netdevice.*` | request queue, in-flight tune time, connection flags, chip counts, packet streams | `write`, `flush`, `reset`, `set_sid_count`, `configure_tune`, `connect`, `disconnect`, `wait_for_room`; a sender thread | two threads, a queue that resets drop, a server that refuses and a link that dies | the server always has the chips a request needs; the in-flight time is exact; both threads return |
| **ASID backend** `sid/sid_asid.*` | registers of one frame, "written twice" slots | `write`, `flush`, `reset` | one frame carries one value per slot | the last value written in a frame is the one sent |
| **USBSID backends** `sid/sid_usbsid.*`, `sid_embedded.*` | write buffer, pacer | `write`, `flush`, `reset` | firmware on two cores, pacing by timer | writes leave in order with their delays |
| **Web backend and front end** `sid/sid_web.*`, `src/web/` | a ring of writes shared with JavaScript, worker protocol, transport queue | messages between page, worker and audio worklet | three event loops | every message is answered, no write lost |
| **Session** `host/session.*` and its sinks `host/session_*.cpp` | engine thread, command queue, pause, seek, mutes, subtune; the board's MUTE and `held_` | `load`, `play`, `stop`, `set_sink`, `pause`, `next`, `select`, `seek`, `set_*_mute` | commands of one thread run in the other between frames; seek, pause and song change share one silence/restore pair and one backend switch | what plays is heard as written, no command survives its playback, `stop()` returns |
| **Audio output** `host/audio_out.*` | single producer, single consumer ring | `push`, callback, `close` | device torn down on a detached thread | samples in order, none twice |
| **Player, keyboard, pacer** `player/*`, `io/keyboard.*` | tune, song, pause; key queue with hold and gap frames; frame deadline | `load_*`, `run_frame`, `next`, `tap`, `type`, `tick_frame`, `wait` | typed keys meet a polling KERNAL; the host stalls | every typed key is seen once; the deadline never drifts |
| **Cartridge ACIA** `cart/MC68B50.*` | receive register, status, control | `io_read`, `io_write`, receive | overrun and interrupt | a byte is delivered once or reported as overrun |
| Memory and banking, file formats, PSID driver, command line, ROMs, logging, `src/lib` | | | sequential, tables or third party | left to the unit tests |

### How the parts interact

`Machine` owns the chips. `Player::run_frame` runs CPU instructions until the
VIC ends a frame; every CPU access is one `Bus::tick()`, which clocks the chips
or finds nothing due. Chips call back into the bus (`set_irq`, `set_nmi`,
`set_ba`, `cia_rescheduled`), and an access to a chip that is behind first brings
it to the present (`catch_up_now`). SID writes go through the register front end
to one `ISidBackend`. `Session` runs the player in an engine thread; the network
backend adds a sender thread, the audio device a callback thread, and the
firmware a second core.

### What is hard

`PROJECT.json` lists the hazards one by one. They are of four kinds: lazily
clocked chips (a stale schedule, a skip over an event), two threads over one
queue (drop while sending, stop while falling asleep, a count lowered by one side
and set by the other), protocols with an outside party that refuses or dies, and
sequences of user commands (mute, pause, seek, stop) over one backend.

## 2. Modules

    CiaTimer          one CIA timer: clock, register writes, quiet time and skip
      Mos6526         the whole chip: one clock, reads, writes, inputs, schedule
        CiaAccess     the chip on the bus and the accesses it meets there
          CiaEveryCycle   PROMISE: a chip clocked in every bus cycle
        CiaCatchUp    catch_up(): general skip, cascade periods, walking
          CiaScheduled    DETAIL: the chip on the scheduled half of Bus::tick
            CiaRefinement CiaScheduled => CiaEveryCycle
            CiaTwin       with a ticked chip beside it, without a cascade
    Mos6569           the VIC: one clock, register writes, schedule, catch_up()
      VicEveryCycle       PROMISE: a VIC clocked in every bus cycle
      VicScheduled        DETAIL: the VIC on the scheduled half of Bus::tick
    BusLines          IRQ, NMI with its edge, BA
      Mos6510             the CPU's sequencer between the chips that move them
    SidFront          mirror, mutes and what reaches the board (operators)
      SidCores            the front end between two cores
      Session             engine thread, caller, commands, board and its sink
    SampleQueue       PROMISE: a bounded queue of samples
      AudioRing           DETAIL: the ring between engine and device callback
    AsidBackend       one frame's writes on their way into MIDI messages
    NetSender         the network backend between its two threads
    NetStream         gaps and writes on their way into packets

Proofs: `CiaProofs`, `VicProofs`, `Mos6510Proofs`, `SessionProofs`, `AudioRingProofs`,
`AsidProofs`, `NetSenderProofs`, `NetStreamProofs`. Instances for TLC: `MCCia`,
`MCCiaTwin`, `MCCiaChip`, `MCVic`, `MCMos6510`, `MCSession`, `MCSidCores`,
`MCAudioRing`, `MCAsid`, `MCNetSender`, `MCNetStream`. An operator whose name says
what it lacks (`FullOneLate`, `HaltKeepsQueue`) stands before the one it is a
mistaken form of; the mutants in `PROJECT.json` use it to show that a property can
fail.

### The CIA

A timer is a record of its two flag pipelines (`kCr*`, `kCount*`, `kLoad*`,
`kOneShot*` of `mos6526.h` become sets of flags), its counter, latch and the PB
toggle. `TickTimer` is `Timer::tick`, `QuietClocks` is `Timer::quiet_clocks`.
`Mos6526` adds everything of the chip that moves in time: `TickChip` is the body
of `Mos6526::tick` in the order of the source, `ReadEffect` and `WriteEffect` are
`io_read` and `io_write`. What is left out is data no timing depends on: port
latches, direction registers, the key matrix, the bits of the serial byte. The
time of day is two digits (`tenths`, `rest`), which keeps the carry, the alarm,
the latch taken by an hours read and the halt by an hours write.

`CiaScheduled` and `CiaEveryCycle` have the same program in front of them: in any
cycle it may read or write a register of `Reads`/`Writes`, and between cycles an
input may change, at most `MaxAccesses` times. `CiaScheduled` keeps how many
cycles the chip is `behind` and the wake counter; `CiaEveryCycle` ticks the chip.
`CiaRefinement` maps the one to the other with `chip <- Shown(CatchUp(chip,
behind))`: what any access would find. `Shown` drops one thing no program can see:
the cycle count of a time of day that is halted (the bulk skip keeps counting,
the clock does not; writing the tenths clears it before it means anything).

### The VIC

The same scheme. `TickChip` is `Mos6569::tick` in its order: raster compare,
display enable on the first display line, sprite DMA, sprite lines, BA, the end of
the line. The raster positions of the real chips are constants (`LineLength`,
`FirstLine`, `DmaCycle`, ...), so the arithmetic is the code's and the frame can be
small. `sprite_ba_low_` and `sprite_ba_edges_`, tables of the code, are the
functions `SpriteLow` and `Edges`. `VicScheduled` asks `CyclesToEvent` when its wake
counter runs out or a register was written, exactly where `Bus::tick` and `io_write`
do, and `present`, a history variable, is what an access would find.

### The CPU

`Mos6510` has one action per group of `tick_*` functions of the same shape;
`Successor` is the chain of states that only move data. `Decoded` is the decode table
by what the sequencer tells apart: addressing mode, kind of access and the few
operations that touch I or B. Every cycle of the machine has three phases: chips move
lines, the CPU runs a state (`Tick`), an access may move a line too, and the lines
are sampled (`SampleLines`). The chips (`ChipMovesLine`, `VicMovesBa`) are arbitrary:
what is shown holds whatever the CIAs, the VIC and the RESTORE key do. `ResetBus`,
`ResetCpu` and `HotReset` are the three resets with their callers' guards. `late` and
`Owed` keep the history two properties need.

### The session and its board

`Session` has the state the session's lock protects in one record `s`, with one
operator for each function that runs under the lock (`Pause`, `Seek`, `StartSong` for
`init_tune()` with `after_song_start()`, `SilenceSink`, `Restore`, `Attach`, ...).
The engine thread is a program counter: `lock` (loop test), `drained` (commands run,
the stop flag about to be read again), `work`, `idle` (waiting on the condition, for
20 ms at most), `out` (frame_done and pacer, without the lock), `left`. The
controlling thread runs `stop()`, `load()`, `play()` and `set_sink()` step by step
between its two critical sections and the join. Commands come from any thread at any
time.

The board is what the tune is heard through. `SidFront` keeps two groups of
registers of a chip, "voice" and "volume": it sounds when both are on. `mirror` is what
the tune wrote, `wire` what the board has; writes go through pending mutes, mask and
chip mute as in `io_write()`. `SidCores` is the same front end on the firmware's two
cores, with the reads and writes of the pending mask as steps of their own.

### The audio ring

`AudioRing` has a step for each access of a shared index and each sample copied.
`push` and `pop` are the local variables of the two threads: the room or the count
taken once, the private index, what is copied so far. `close()` empties the vector
while a callback may still copy (`Uninit` is the detached thread's
`ma_device_uninit`); a sample read after that is `Freed`. Samples are numbered modulo
`Numbers`, more than the ring holds, so a lost, doubled or reordered sample shows.
`AudioRing` implements `SampleQueue`, where samples are accepted and delivered at once.

### The ASID backend

`AsidBackend` keeps `sidRegister`, `sidModified` and the FM pairs of a frame. `Snapshot`
and `FmMessage` are the messages `asid_flush()` and `asid_flush_fm()` would build now,
with the masks and the seven bit bytes they travel in; `Received` is the receiver's
side, from the regmap. What the tune wrote since the last message is kept beside the
buffers, by histories of their own: `unheard` for the registers, `index` and `unheardFm`
for the FM chip. `unheardFm` is cut by what a receiver makes of the buffer that goes out
(`StillUnheard`), so a pair that is left out of its message, or sent with another index
than the tune wrote, shows as a difference.

### The network backend

`NetSender` has the emulation thread as calls that run step by step (`todo`), each
step one critical section of `queue_mutex_` or one access of an atomic, and the
sender thread as a program counter (`sender.at`). `Dozing` is the point inside
`wait()` where the predicate was false and the mutex is still held: nothing that
takes the mutex runs there, but `running_ = false` does. `server` is the outside
party: a software Network SID Device that has room for `cap` chips, forgets
positions and models on a new count, may refuse FM, and lists its configs or none, in
which case no model is sent (`Models`) and none is needed (`Ready`). It is what the code
itself expects (comments at `sid_netdevice.cpp:139`, `:504`, `:508`, `:671`); it is marked
external in the map. A packet of writes is one request with its tune time. `overtaken` is
a history: a count was asked for while a larger one was not settled (`CountsAsked`).

`NetStream` is the other half of the backend, the one the emulation thread keeps
to itself, together with the part of the register front end that measures gaps.
`stream` is a record of `last_event_`, `extra_cycles_`, `pending_quads_`,
`pending_ex_`, `buffered_cycles_`, `frames_since_flush_` and `fm_opl_sent_`; the
operators `AppendDelay`, `FlushIfBig`, `PushWrite`, `HandleFm`, `Wait` and `Flush`
are the functions of those names. An action is a bus cycle (`Cycle`, or
`WriteCycle` when the CPU writes a SID or FM register in it; the VIC's frame ends
first), a pause that writes volumes past the front end (`Volume`), or a new tune
(`Reset`). Values are left out: what matters of a register is which path it takes
(`Low`: byte register, `High`: chip 8 and up, `Fm`, `Absent`: a chip the server does
not have). Each entry carries the cycle it was made in, which the code does not;
`OnTime` plays every entry back and compares.

## 3. Runs

| Run | Question | Bounds |
|---|---|---|
| `cia_cascade` | Is a scheduled CIA one clocked every cycle, with a cascade, bulk periods, CNT gating, one shots and PB outputs? | counters 0..8, 3 accesses and inputs at any distance, force loads of timer A only, time of day halted |
| `cia_twin` | The inductive invariant of the proof, and that the loop of `catch_up()` is the two passes it is about | counters 0..8, 3 accesses, a time of day that runs, is frozen, halted and released |
| `cia_chip` | Is an enabled event never lost, never invented, and two cycles away from the CPU at most? | counters 0..3, 3 accesses, FLAG edges |
| `vic` | Is a scheduled VIC one clocked every cycle, and does a frame end where `cycles_to_frame_end()` says? | 12 cycles by 5 lines, 2 sprites, any number of writes |
| `cpu` | Do instructions take their cycles, is every interrupt taken once, is the CPU off the bus in time? | every instruction, 1 IRQ and 2 NMI sources, no bound on steps |
| `session` | Is what plays heard as written after any commands, is nothing left waiting, does `stop()` return? | 1 chip, 2 songs of 3 frames, 1 command waiting |
| `audio` | Is the ring a queue between two threads, and does a push end when the device stalls? | ring of 3 samples, frames of 1 to 4, requests of 1 and 3 |
| `asid` | Does the message carry every write of its frame? | 2 chips, values with and without bit 7, FM buffer of 2 pairs |
| `net_sender` | Do the two threads keep the in-flight time, the server's chips, FM and each other going? | 4 calls, counts 2 and 4 over a fallback of 3 and 1, servers with room for 2 and 3, with and without FM and configs, packets of 2 over a limit of 2 |
| `net_stream` | Does a write come at its cycle, in order, in packets the firmware can take, and soon enough? | frame of 5 cycles, longest delay 16, tune of 36 cycles, 4 writes or pauses, packets of 3 entries; hardware and software server |
| `sid_cores`, `session_muted` | findings, see section 6 | 2 chips; as `session` |

Why the bounds are enough. A CIA event is at most a counter and a few pipeline
stages away, and the code treats counters only by comparing with 0, 1 and the
quiet time; bytes of 3 values give latches with a low and a high part, all
pipeline phases and bulk skips of several cycles. Three accesses are the shortest
sequences that set up, disturb and observe; they may fall at every distance from
each other, since `Cycle` is always possible. `CiaProofs` removes the bounds
for the general path.

The VIC's frame keeps the layout of the real one: lines before, in and after the
display, two scroll values, a bad line's BA window shorter than a line, sprite
windows that merge and that wrap into the next line, lines that differ only in the
high bit of the compare, expanded sprites. Writes are not bounded at all: any of them
in any cycle. `VicProofs` holds for every frame and every set of sprites.

The CPU's state is finite as it is (data is left out), so `cpu` is exhaustive but for
the number of sources; one IRQ source is enough since the line is a level, and two NMI
sources give an edge that is hidden by the other.

For the session, 2 songs have a next one that differs and a wrap, a song of 3 frames
has room for a seek that skips a frame and for one that is cut; with one command
waiting the second is one given while the engine runs the first. Chips do not
interact, so one is enough in `session`; in `sid_cores` two are, since the pending mask
is shared. A ring of 3 is smaller and larger than the frames and requests of `audio`,
so every wrap, full and empty case happens; `AudioRingProofs` removes the bound.
ASID treats chips alike, so two show whether one takes the other's values; a value on
either side of 127 tells bit 7 from the rest, and an FM buffer of two pairs is full, half
full and empty. `AsidProofs` removes these bounds too.

For the network, 4 calls are: connect, something queued, a reset (or a dying link)
and another call or a reconnect; the longest chip setup is a count of 4. A fallback of
3 and 1 has counts asked between its steps and above them, and servers with room for one
of the steps and for a count between the two, which is all `CountIsAccepted` tells
apart; `NetSenderProofs` removes the bounds. For
the packets, a tune of 36 cycles has gaps of more than two longest delays, and the
limits keep the order they have in the source (`Big` < `Threshold` < longest delay, and
the frames a packet may wait are shorter than the longest delay, which
`NetStreamAssumption` says); 4 writes fill a packet of 3 and start another.

`Forever` stands for `0xffffffff`, the answer of a chip with nothing to do. It is
larger than any bound, so no run reaches a wake counter that wraps.

### Fairness

* `Session`: weak fairness of the engine thread and of the controlling thread. Both
  are operating system threads; the engine's idle wait has a timeout of its own, so
  `StopReturns` does not depend on a notification. Nobody has to give commands.
* `AudioRing`: weak fairness of the engine, of a callback that has begun, and of the
  clock. None for `Fill`: a device may never call again, which is what `stalled()` is
  for.
* `Mos6510`: the clock runs (`SampleLines`; `Tick` with strong fairness, since BA
  switches it off and on), and the VIC releases BA after the cycles it needs, which
  `vic` shows of the VIC itself. The program is arbitrary.
* `NetSender`: weak fairness of both threads (`Finish`, `Sender`): every socket
  operation ends within the 2 s receive timeout, `request_ok` gives up on BUSY after
  `kMaxBusyTime`, and `wait_room` polls every 20 ms. BUSY retries change nothing and
  are stuttering.
* For the CIA, "the interrupt arrives" is a bound (`InterruptArrives`: two cycles),
  stronger than eventually.

`CHECK_DEADLOCK FALSE` is set where a system may really stop: a closed audio ring, a
session whose queue is full and whose caller returned, and the two network models,
whose calls are bounded.

### Further configurations

Beside the runs above there are configurations for questions that are smaller, or
already answered in the source. They are run with `tlc -config <cfg> <module>`.

| Configuration | Module | Outcome |
|---|---|---|
| `MCCiaOutputs` | `MCCia` | holds: serial, pulse and toggle outputs, the alarm, masks that change, latched time of day |
| `MCCiaTodCascade` | `MCCia` | `EveryCycle` is violated: the bulk step of a cascade may end on the cycle of a time of day tick, which then comes a cycle late (`mos6526.cpp:404`, comment at `:399`) |
| `MCCiaRestart` | `MCCia` | `EveryCycle` is violated: a force load of timer B during a cascade, the schedule counts from the old counter (`mos6526.cpp:357`) |
| `MCNetCount` | `MCNetSender` | `CountDropsToAccepted` is violated, `CountIsAccepted` without its exception, as the header has it: 4 chips asked, then 2, of a server with room for 2. The late answer to the 4 lowers the 2 to 1, the server takes the 2, and the second chip stays muted (`sid_netdevice.cpp:157`, against `sid_netdevice.h:88`) |
| `MCNetGap` | `MCNetStream` | `OnTime` is violated before protocol version 5: a dropped FM write takes its gap with it (`mos6581_8580.cpp:370`, comment at `:158`). So does every write `write()` drops |
| `MCSessionDivergences` | `MCSession` | four invariants, each violated on its own, see below |

`SeekEndsHeard`: a song change that cuts a seek restores nothing, and leaves `held_`
set (`session.cpp:392-399`, against `session.h:112`). `PausedIsSilent`: the next song
change resets the board, which clears its MUTE, and then a pause finds `held_` set and
silences nothing (`session_board.cpp:78`, against `session.h:109`). `StoppedIsSilent`:
neither does `stop()` (against `session.h:259`). `BackendIsAlive`: after `set_sink()` the
machine keeps the old sink's backend, and `stop()` lets the player flush it
(`session.cpp:71-78`, `:169`, `player.cpp:342-346`).

Three more invariants can be put into an existing configuration in place of its own:
`Pb6PulsesOneClock` in `MCCiaChip` is violated (a write to CRA in the clock of a PB6
pulse looks at PB7's: `mos6526.cpp:727` against `mos6526.h:301`), `OnlyBrkPushesB` in
`MCMos6510` is violated (`hot_reset()` sets B, and a hardware interrupt then pushes it:
`mos6510.h:162-167` against `mos6510.cpp:1139`), and `RingOutlivesCallback` in
`MCAudioRing` is violated (`close()` clears the ring under a running callback:
`audio_out.cpp:136-152` against `audio_out.h:132`).

## 4. Proofs

Proved for every value of the constants, by TLAPS:

* `CiaProofs!PlainScheduleIsExact` - `CiaScheduled` implements `CiaEveryCycle`: no
  register read, time of day or interrupt line in any cycle tells the two halves of
  `Bus::tick` apart. `NoCascadeAsked` is the hypothesis: the constants `Starts` and
  `Writes` select no cascade and `Inputs` is empty, as in `MCCiaOutputs`. With a cascade
  the statement is false (`MCCiaTodCascade`, `MCCiaRestart`), and after a change of CNT or
  FLAG the code asks for no new schedule (`mos6526.cpp:157-169`). The argument: in every cycle
  the chip that a catch up would find is the one a clock makes of the one it would have
  found before (`CycleIsClock`, `ReadKeepsSchedule`, `WriteKeepsSchedule`), so `shown =
  Shown(SkipChip(chip, behind))` is invariant. What remains is that the promise works on
  what is *shown* of a chip: nothing but the time of day looks at its cycle count, which
  the lemmas named `...At` show of every operation of the chip, and where the time of day
  is halted it is not looked at either (`TickShown`, `AccessShown`).
* `CiaProofs!ScheduledNeverDiffers` - two equal CIAs, one scheduled and one
  ticked, show the CPU the same line in every cycle and the same registers to any
  access, whatever the latches, the time of day period, the starting state and the
  accesses, as long as no cascade is selected and no input changes.
* `CiaProofs!TwinInvariantHolds` - the inductive invariant: the schedule never
  outlasts what the chip allows (`InTime`), and until then only counters moved
  (`OnlyCountersMoved`). `NeverDiffer` alone is not inductive: it says nothing of
  the wake counter. The argument: `QuietTickIsSkip` (a tick of a quiet chip is a
  skip by one) and `SkipRunsDown` (a skip takes as much from the quiet time) give
  `LeftAlone` (a chip left alone within its allowance was only skipped), then
  `CaughtUp` (two passes of the loop bring it to the present). Reads keep the
  allowance (`ReadKeepsAllowance`), so a read needs no new schedule; writes ask
  again.
* `CiaProofs!LoopIsShort` - the loop of `catch_up()` is those two passes,
  however long the chip was left alone: a pass in bulk leaves nothing, or one clock
  that the next pass walks.
* `CiaProofs!ChipTypeOK`, `!NoInterruptIsLost`, `!InterruptsAreCaused` - type
  correctness of the chip, no enabled event forgotten, no line low without an event in
  the ICR, for every sequence of accesses and inputs. They share one strengthening,
  `InterruptInvariant`, which adds the type of the chip and ties the delay pipeline to
  the ICR: each of the clock's stages is shown to keep it by a lemma of its own.
  `!InterruptsArrive` follows from it step by step: an enabled event that a clock finds
  lowers the line or is in the last stage of the delay.
* `CiaProofs!Pb7IsAPulse` - the pulse at PB7 lasts the clock of timer B's
  underflow. It holds by cases over what may touch the pulse: the clock itself
  (`TickChipMovesOn`), an access (`AccessKeepsPb7`), and everything that leaves the pulse
  and CRB alone (`SamePb7Pulses`). The same statement of PB6 is false, see
  `Pb6PulsesOneClock` in section 3.
* `VicProofs!ScheduledVicIsExact` - the scheduled VIC implements the one clocked in every
  cycle: IRQ, BA and the end of a frame come in the same cycle and every register reads
  the same, for every length of a line and a frame, every set of sprites and every write
  in every cycle. The inductive invariant is `ScheduleInvariant`. Since the chip was last
  caught up only its cycle would have moved (`OnlyCycleMoved`), and the schedule ends
  before the chip's next event does (`InTime`). For that a quiet cycle must be a skip,
  but `tick()` decides BA in every cycle and the schedule only wakes for its edges. So
  `Honest` adds: BA already is what the next cycle drives, or that cycle is an event.
  It holds after every tick (`AdvanceIsHonest`) and every write (`WriteIsHonest`) since
  between two edges no sprite begins or ends to be fetched (`BetweenEdges`). The type of
  the chip is not inductive either: `Sound` adds that a sprite that is fetched has lines
  left, or the next count would leave the range. Then every step of the scheduled VIC is
  one clock (`StepIsACycle`), whichever of the two turns of `catch_up()` brought it there.
* `VicProofs!FramesEndOnTime`, `!VicTypeOK` - from the same invariant. A clock takes one
  from `cycles_to_frame_end()`, or ends the frame where that was one; a write moves neither
  the raster nor the cycle. The schedule never leaves the VIC alone for more than a line.
* `AudioRingProofs!RingIsAQueue` - the ring implements the bounded queue, for every
  ring size, frame length and request of the device. The refinement alone is not
  inductive: it does not say what a thread that copies may rely on. `RingInv` does:
  the room the engine found is still there (`Dist(head, tail) + push.take <= Size -
  1`), what it copied lies beyond the head (`Filled`), what the callback found is
  still queued and what it copied is the oldest of it (`Copies`). Each thread keeps
  the other's part because it moves its own index only one way (`HeadMoves`,
  `TailMoves`) and writes a slot nobody holds (`HeldUnwritten`). Then each step maps:
  storing `head_` is `Accept` (`HeldPushed`), storing `tail_` is `Deliver`
  (`HeldPopped`, `HeldCopied`), `close()` is `Shut`, everything else a stutter.
* `Mos6510Proofs!OffTheBus` - BA falls and the CPU is off the bus within three cycles,
  whatever it executes. `BusInv` bounds the cycles run since by what the state allows
  (`WritesBefore`: the second write of a sequence one, the third two).
* `Mos6510Proofs!MaskedIrqWaits` - no IRQ against the I flag, but right after the SEI
  or PLP that set it. `IrqInv` adds that a sample is younger than the I flag it was
  masked with, and that a sampled NMI is still latched while it waits.
* `Mos6510Proofs!EveryPathIsTheDataSheets`, `!CpuTypeOK` - the cycles an instruction has
  taken are those of its addressing mode and kind of access. `CycleExact` looks only at
  the end of an instruction; `PathInv` says it of every state: which cycle of which
  instructions a state is (`OnPath`), when the operand is accessed and whether its page
  was crossed (`OnOperand`), and what a fetch and a jam leave. Since `Successor` and
  `Decoded` are tables, most of its steps are the tables' rows (`Successors`). A state
  that no path has is then impossible, which is the type of the sequencer.
* `Mos6510Proofs!NmisAreServedOnce` - a step enters the NMI handler exactly when it
  takes one edge off those that are owed, and a step owes one more only at a falling
  edge. `IrqInv` and `NmiInv` are what it needs: a sampled NMI is still latched, a hijack
  mark lives only while a vector is read, and the high byte comes from the vector the
  low byte came from.
* `SessionProofs!SessionTypeOK`, `!SessionIsSound`, and from them `!SeekHoldsBackend` and
  `!PlayingIsHeard` - what plays is heard as written. `HeardAsWritten` speaks of states
  that sound; `SoundInv` adds what holds in all others: a running session has its board
  open, the machine writes to it but in a seek, and a board under MUTE is known to be
  (`Attached`), so that `restore()` can make it faithful again whatever happened before
  (`RestoreIs`). `Faithful` compares every register of every chip that may sound, the
  volume of a voice-muted chip too. There is one lemma for each function under the lock,
  and one for a write of the tune through the pending mutes, the mask and the chip mute.
  Commands run one after the other in one critical section,
  so `RunAll` needs an induction over the queue.
* `SessionProofs!NoneSurvives` - no command outlives its playback. Inductive with the
  range of the caller's steps: the second half of `stop()` is the only way to a
  stopped session.
* `AsidProofs!SnapshotsAreComplete`, `!PairsAreComplete`, `!AsidTypeOK` - the messages carry
  what was written, for every tune, any number of chips and any size of the FM buffer.
  `FrameCarriesEveryWrite` compares a list of writes with what a receiver decodes, and is
  not inductive: it does not say which slot a value is in. `FoldedInv` does: a shadow is
  occupied only behind its control register (`ShadowsFollow`), and what is unheard of a
  register is what its slot, and its shadow, hold (`Folded`). The other half is the
  message: `asid_flush()` collects bytes in the order of the bits, so that the n-th byte
  belongs to the n-th bit of the mask, whichever bits are set (`InOrderIs`), and a value
  is its seven bits and its bit in the second mask. The FM pairs are the same without a
  mask: what is buffered is exactly what is unheard, as `asid_clear()` drops both.
* `NetSenderProofs!SenderTypeOK`, `!InflightIsExact`, `!ChipsAreSetUpFirst`,
  `!FmIsNotForgotten` - the two threads of the network backend, for every server, every
  set of counts and packets. The inductive invariant is `SenderIsSound`. Its subject is
  `Pending`: the request being asked, the queue, and what the call under way has still
  to queue, in the order the server will see them. A pending reset or write is `Good`
  when the last count before it is followed by a position and a model for each of its
  chips and by a clock or, when there is none, when the server has or is about to get
  all that (`Good`). `SetupInv` says so of everything pending and of whatever comes next
  (`AllGood`), except while a reset, which drops and then queues the setup again, is
  under way (`Settling`). Serving a request moves it from `Pending` to the server
  (`Shifted`), a count the server refuses is tried again lower, and ends because 1 is
  among the fallbacks and a server has at least one chip (`Plugged`). `Closed` is what a
  call that closes the connection has done at each of its steps: it is why nothing is in
  flight when the handshake sets the counter to zero. `InflightExact` needs the sums over
  the queue, and that subtracting more than there is (`Minus`) never happens to be
  wrong: what is dropped is part of what is counted. `FmInv` follows the one request
  that switches FM on through resets, counts and reconnects.
* `NetSenderProofs!CountsAreAccepted` - when both threads rest, the caller's chip count is
  the one the server accepted, for every server and every fallback, whatever room the
  server has. Two threads move the count: the caller sets it and queues a request, the
  sender lowers it when the server refuses. There is one exception, which is what the code
  does and `MCNetCount` shows: a count asked for while a larger one was unsettled
  (`overtaken`) may be lowered with it to a step, while the server takes it since it has
  room for it between two steps. `CountInv` says what will come of the caller's count: it
  agrees with the last count pending, or the server's if none is (`Agrees`: the same, the
  largest step there is room for, or overtaken), and the counts the sender tries never
  skip a step the server has room for (`Stepped`). Its third part makes it inductive: unless
  one was overtaken, a negotiation that can still lower the caller's count finds it above
  what the server has room for, or at a step already (`Covers`), where it takes no harm.
* `NetStreamProofs!StreamTypeOK`, `!OneStreamWaits`, `!PacketsAreWhole`,
  `!NothingIsHeldBack` - one stream waits at a time, packets are within their limits, no
  entry waits longer than the frames a server may leave it, for every server and every
  set of limits that `NetStreamAssumption` allows. The inductive invariant is `BufferInv`:
  what a packet may hold (`Calm`), and how old it may be (`Fits`): what waits was made at
  the last event or before, its age is at most its frames and the raster, and a
  fraction of a gap (`extra`) is left only behind empty buffers. The last one is what
  makes the others inductive: since an entry that waits is younger than the longest delay,
  a gap that has to be split into pauses only ever meets empty buffers. A software
  server, which is paced in every frame, has no fraction at all.
* `NetStreamProofs!WritesAreOnTime` - every write reaches the server at the cycle it was
  made: what a server counts from the packets and from what still waits is the clock
  (`InStep`: the end of all entries and the fraction is the last event). The
  hypothesis is `NothingDropped`: the program makes no write that the front end drops
  after its gap was taken, for without it the statement is false (`MCNetGap`).
  Each path of an access is followed through the cost of its entries: the gap that is
  split into pauses (`WaitedIs`), the buffer that is flushed before or after an entry
  (`PushIs`, `FullIs`), the frame's end.
* `CiaProofs` - the lemmas about one timer and one chip: every operation keeps the
  type, the quiet time is honest.

Assumptions on constants: `CiaTimer`, `Mos6526` and `CiaAccess` name theirs
(a byte has at least two values, `Forever` is no smaller than a full counter, the periods
are positive, a chip starts without an interrupt, a pending output or a pulse, the
accesses are register writes with values in range). `CiaTwin` takes those of its starts and
writes that select no cascade (`PlainStarts`, `PlainWrites`). `VicAssumption`: a line has
at least three cycles and a frame two lines, the display lies within the frame, the bad
line's window ends before the line does, and the first sprite's begins late enough in a
line to have three cycles before it (`vic_timing.h`, `mos6569.cpp:133-153`); `VicAccessAssumption`: a VIC starts
with BA released and no sprite fetched, and is written with values its registers hold.
`AsidAssumption`: a register number has five bits, a value eight, the FM buffer holds a
pair. `RingAssumption`: a ring has at least
two slots, samples are numbered modulo more than the ring has. `SessionAssumption` and
`AskedAssumption`: a file has a song, songs last at least a frame, commands name chips and
songs there are. `NetSenderAssumption`: counts and capacities are positive, packets take
natural numbers of cycles, the last fallback is one chip (the steps of
`sid_netdevice.cpp:143`). `NetStreamAssumption`: the frames that may pass between two
flushes are shorter than the longest delay, and that is at least 4 cycles, the delay
of the volume write of a pause (`main_cli.cpp:1280-1306`). The proofs about the CPU assume
nothing.

The provers have no induction rule that takes a formula as a parameter. Where a function
is defined by recursion over an interval (`CyclesOf`, `RunAll`, `CatchUp`, `InOrder`, `Sums`, `Waited`),
`IntervalInduction` does instead: it is stated of a set, and follows from the library's
`WFMin` and `NatLessThanWellFounded`, since a smallest exception would not be one.

Every invariant of every passing run is stated by a theorem, and so are the action
properties and the refinements: of the VIC and the audio ring as they stand, of the CIA
without a cascade. Only model-checked: the cascade path of `catch_up` (`cia_cascade`; with
some cascades the refinement is false, see `MCCiaRestart` and `MCCiaTodCascade`), and the four liveness properties (`InterruptsAreTaken`, `StopReturns`,
`FrameDoneReturns`, `CallsReturn`), which with fairness are out of the prover's reach.

## 5. What is left out

Of the CIA: port data and key matrix, the serial byte, chip models that differ
only in one cycle of delay (`DelayInterrupt` models the 6526; see its map entry),
and reset in mid run. Of the bus: the SID and cartridge slots; chips do not
share state except the lines of `BusLines`. Of the VIC: everything it would draw,
collisions, the light pen. Of the CPU: what an instruction computes, which the
instruction suites of the tests compare, and `trigger_reset()`, which nothing calls.

Of the session: PRG files (typing RUN, the keyboard), a PSID driver that cannot be
installed during a song change, the elapsed time of sinks that lag, the song length
database, sinks without a board. Of the register front end: solo, read back, address
mapping. Of the audio output: the device itself and capturing to a file. Of the
network backend: hardware servers (their setup is one request) in `NetSender`, and the
socket's bytes.

Not modelled at all, with the reason in `PROJECT.json`: the keyboard and the pacer
(one thread, a queue and a deadline), voice three, the web backend and front end, the
ACIA, the firmware's pacer, memory and banking, file formats, the PSID driver, the
command line, and the vendored libraries, which are most of the lines of the
repository (`miniaudio.h` alone has 96,000).

## 6. Findings

Each is a run that TLC violates (`"expect": "violation"`).

* `sid_cores` - `apply_chip_mute_pending()` reads the mask and clears it, and
  `set_chip_mute()` on the other core reads it and writes it: a mute given between is
  lost, and the chip sounds on (`mos6581_8580.cpp:306-307`, `:295`, against `:280`).
* `session_muted` - `restore()` of the board writes the mirror of every chip past its
  mute: resuming from a pause makes a muted chip sound, and hang there since its
  further writes are dropped (`session_board.cpp:107`, against `mos6581_8580.cpp:280`).

The table of section 3 has the others. Observations that contradict no line of the
source, or reach nothing:

* Nothing in the program drives FLAG or CNT yet: `set_flag()` may start an interrupt
  but does not call `rescheduled()`, so a scheduled chip would lower its line only at
  its next unrelated event.
* `Bus::reset()` leaves the wake counters as they are.
* `asid_flush()` sends FM pairs ahead of the SID writes of a frame, also those written
  before them; `asid_clear()` keeps the FM index.
* `trigger_reset()` leaves `nmi_hijack_` set.

## 7. Plan

1. Done: the CIA and its schedule; the network backend's threads and packets.
2. Done: the VIC and its schedule, bus lines and the CPU, the session with its board
   and its mutes, the audio ring, ASID; proofs of the ring, the CPU and the queue of
   commands.
3. Done: proofs of the session, the CPU's paths and NMIs, the CIA's interrupts, the
   network backend's threads, packets and counts, the VIC and its schedule, the ASID
   messages. Next to prove: the CIA's schedule with a cascade, whose bulk periods need
   arithmetic of products, under the conditions that `cia_cascade` runs with.
4. Next to model: the web ring and worker protocol, the firmware's pacer, the
   keyboard with its KERNAL, voice three, the ACIA.
