# A formal model of the STM32F746G-DISCO firmware

TLA+ specifications of this firmware's components, TLC configurations that check
them on small instances, and TLAPS proofs of what matters most for every
instance. Each module is written from the C source; its comments name the
functions its actions stand for, and `PROJECT.json` ("map") gives the lines.

- [1. The system](#1-the-system)
- [2. Modules](#2-modules)
- [3. Runs](#3-runs)
- [4. Fairness](#4-fairness)
- [5. Proofs](#5-proofs)
- [6. Where code and documentation disagree](#6-where-code-and-documentation-disagree)
- [7. What is not modelled](#7-what-is-not-modelled)
- [8. Plan](#8-plan)

## 1. The system

The firmware is an interactive ThreadX shell (UART and telnet) around a camera,
a display, storage, a network stack and a neural-network runner. There is one
core; concurrency comes from preemptive thread priorities and interrupts.

| priority | thread |
|---|---|
| interrupts | DCMI/DMA completion and error, LTDC reload, DMA2D, USART1, SDMMC, ETH, I2C3 |
| 5 | watchdog petter |
| 10 | camera producer |
| 12 | NetX IP thread |
| 13, 14 | GUIX touch input, GUIX, telnet and MJPEG servers |
| 15 | Ethernet link |
| 16 | shells (UART, telnet) |
| 17 | background jobs |
| 18 | inference worker |

### Components

What each keeps, where it is hard, and when it is right:

- **Frame pipeline** (`svc/frame_pipeline.c`): reference-counted frame slots
  between one producer and any number of sinks. publish() and put() call the
  sinks after releasing the lock. Right when a slot somebody reads is never
  filled, pins balance, a coalesced frame is neither stranded nor overtaken, and
  every frame comes back.
- **Camera sensor driver** (`port/camera/camera.c`, first half): mode,
  settings and their dirty flags, test-pattern source, cached pixel clock. Any
  register access may fail in the middle, and almost everything is applied
  lazily. Right when what the DMA is armed for is what the sensor was programmed
  for.
- **Camera base capture and subscribers** (`port/camera/camera.c`, second half): a
  producer thread, its flags and semaphores, the registry. A recovery is two
  critical sections with a gap. Right when registry and pipeline agree, a stop
  is final, no one-shot subscriber outlives its session, no wakeup is lost.
- **Live inference** (`port/nn/nn_camera.c`): staging buffers between the producer
  and a low-priority worker, on volatile flags. Right when a buffer is never
  filled and read at once, no stale frame is inferred, a stop parks the worker.
- **The model** (`port/nn/nn.c`, `nn_tflm.cc`, `nn_stedgeai_reloc.c`): one
  opening, one session, two slots, a reload that may fail at any point. Right
  when nothing is written under a network that is in use and a failure leaves
  the previous model running.
- **Background jobs** (`shell/core/cli_job.c`): a pool of worker threads, reaped
  lazily by any shell. Right when no live thread is deleted, a kill hits the job
  it names, ids are never mixed up.
- **Shell core, line editor, history, completion** (`shell/core`): a line shared
  between the user's keys and what jobs print. Right when the terminal shows
  what will be submitted.
- **UART console** (`shell/backend/cli_backend_uart.c`): byte rings between
  threads and an interrupt that transmits in place. Right when no byte is lost,
  doubled or stuck.
- **RAM log** (`svc/log.c`, `src/fault.c`): a record ring that survives a reset
  between any two stores. Right when boot always finds whole records.
- **YMODEM** (`svc/ymodem.c`): a sender with retries on a lossy line. Right when
  "OK" means received, and the call returns unless stray bytes keep coming where
  it waits for a 'C'.
- **SD card** (`port/sd`, `fx_sd_driver.c`): DMA transfers with timeouts, under
  cards that come and go. Right when success means that these blocks moved.
- **File systems** (`port/filex`, `fs_cmd_core.c`): lazily mounted singletons
  under operations, exclusive owners and evictions. Right when nobody loses the
  media in use and every command ends.
- **QSPI flash** (`port/qspi`, `port/levelx`): one command at a time on a chip
  that a reset does not stop. Right when a success is what the cells show.
- **DMA2D and display** (`port/ltdc`, `port/guix`, `ui`): one engine, two
  buffers flipped by an interrupt, two owners. Right when a completion counts
  for its own transfer, and nobody draws on what is shown.
- **Touch** (`port/touch`, `guix_touch.c`): interrupt-driven I2C and an edge
  that says nothing more than that a finger came. Right when a held contact is
  seen.
- **Ethernet** (`port/eth`, `nx_eth_driver.c`): MAC, link thread, descriptors and
  packets lent by NetX. Right when the MAC follows the cable and packets come
  back as they were.
- **Telnet** (`nx_shell.c`) and **MJPEG** (`nx_mjpeg.c`) servers: clients that
  vanish between two steps. Right when the one who stays is served and a frame
  does not change under the socket.

### Interactions

    shells, jobs --start/stop/settings--> camera.c --acquire/publish--> frame pipeline
        |                                    ^  |                            |
        |                    DCMI/DMA interrupts|                            v consume()
        +--ai stream--> nn_camera.c <--open/close/consume-- registry     sinks: GUIX preview,
        |                   |                                            inference, MJPEG, counter
        |                   v
        |         worker --> nn.c session <-- `ai bench`, `ai model load` <-- file systems
        +--files--> fs glue --FX driver--> sd_card.c / LevelX --> qspi_flash.c
        +--lcd, gui, touch--> ltdc_display.c <-- GUIX <-- preview sink, touch input
        +--bytes--> UART ring | telnet socket --> NetX --> nx_eth_driver.c <-- link thread

Calls into `camera.c` are serialised by `cam_lock`. A sink's open() and close()
run with it held, in the producer or in the caller of (un)subscribe; its
consume() is called by publish() and put() with no lock held. Every
file-system command is an operation or an exclusive owner of the media. All
drawing goes through `ltdc_lock`. Where one module needs another's component it
takes it as that component's own module has it: `NnCamera` and `MjpegServer`
see a base that attaches, closes and recovers as `CameraBase` does, `Display` a
registry likewise, `FsMedia` a card that answers or not as `SdCard` does.

## 2. Modules

Every component module has the same layout: the state with the C name of each
variable, the initial state, one action per handler or per atomic section, the
next-state relation, the fairness, then the properties. A comment that begins
with `Mutant` introduces a wrong variant of the definition below it;
`PROJECT.json` ("mutants") names the property each one breaks.

| module | code | what interleaves |
|---|---|---|
| `FramePipeline` | `frame_pipeline.c` | threads around one mutex, callbacks outside it |
| `SlotLease` | what the ring promises | abstract specification of `FramePipeline` |
| `CameraSensor` | `camera.c`: OV5640 driver | sequential; every access may fail |
| `CameraBase` | `camera.c`: base stream, subscribers, recovery | shells, producer, interrupts |
| `NnCamera` | `nn_camera.c`, `cmd_ai.c` | flags without locks, four kinds of actors |
| `NnModel` | `nn.c`, `nn_tflm.cc`, `nn_stedgeai_reloc.c`, `cmd_ai.c` | commands of several threads, failures |
| `JobPool` | `cli_job.c`, `cmd_jobs.c`, the output lock | shells, jobs, reapers, killers |
| `LineEditor` | `cli_edit.c`, `cli_history.c`, `cli_complete.c` | keys, job output, a terminal |
| `LogRing` | `log.c`, `fault.c`, `cmd_dmesg.c` | stores, faults, resets, readers |
| `LossyLog` | what the log promises | abstract specification of `LogRing` |
| `UartConsole` | `cli_backend_uart.c`, `cli_uart_ring.h` | shell, printf() of others, interrupt |
| `Ymodem` | `ymodem.c`, `cmd_xfer.c` | sender, receiver, a lossy line with stray bytes |
| `SdCard` | `sd_card.c`, `fx_sd_driver.c` | thread, DMA interrupts, slot |
| `FsMedia` | `sd_fs_glue.c`, `fs_glue.c`, `fs_cmd_core.c`, `cmd_sd.c`, `cmd_fs.c` | commands, card swaps |
| `QspiFlash` | `qspi_flash.c`, `lx_nor_qspi_driver.c`, `cmd_qspi.c` | driver, chip, resets |
| `Dma2d` | the engine in `ltdc_display.c`, `guix_display.c` | transfer, engine, interrupt |
| `Display` | `ltdc_display.c`, `guix_display.c`, `guix_glue.c`, `guix_camera_ui.c`, `cmd_lcd.c` | GUIX, shell, producer, reload |
| `Touch` | `touch.c`, `guix_touch.c`, `cmd_touch.c` | panel, input thread, shell, interrupt |
| `EthNet` | `eth_link.c`, `eth_phy.c`, `nx_eth_driver.c` | link thread, IP thread, senders, DMA |
| `TelnetShell` | `nx_shell.c`, `cli_session.c`, `cli_core.c` | IP thread, server, shell, clients |
| `MjpegServer` | `nx_mjpeg.c`, `cmd_net.c` | camera, server, viewer, one command at a time |
| `...Proofs` | proofs about the modules they extend | |
| `MC...` | instances for TLC | |

The choices a reader should know of:

- **`FramePipeline`.** What publish() and put() do with the mutex *released* is
  kept as data: `todo` is the rest of publish()'s `deliver[]`, `calls[t]` the
  stack of `consume()` calls thread `t` is in or about to make (put() inside
  consume() nests). `owed`, `extra` and `pulled` are the users' side of the
  contract in `frame_pipeline.h`. `SlotLease` knows no counters, callbacks or
  threads; under the refinement, `holders[i]` are the sinks that owe, have extra
  pins on or have pending slot `i`, and the readers that pulled it.
- **`CameraSensor`.** Every public call holds `cam_lock` throughout and is one
  action; a helper of the driver is the set of its outcomes `[st, ok]`, and
  `Then`/`Else` chain them as the C code's early returns and cleanups do. The
  record `c` holds the driver's cached state *and* the chip's.
- **`CameraBase`.** `Start` splits at the register writes, `Teardown` and
  `Recover` are the producer's two critical sections. `subs` is the registry,
  `linked` the pipeline's sink list, `attached` the registry's own view.
- **`NnCamera`.** Steps are critical sections of `nncam_lock` and single
  accesses of volatile flags; the epoch counter is the set `moved` of stages
  whose fill began before it last changed. **`NnModel`** has places only where
  time passes: opening, building, reading a file into a slot, reloading,
  running; one initial state per backend.
- **`JobPool`.** Steps are the `TX_DISABLE` sections, ThreadX calls and the
  acquisition and release of `tx_lock`. The one place where the code relies on
  priorities (a failed launch frees the slot, then zeroes its id) is one step
  and says so.
- **`LineEditor`.** The terminal is part of the model: cells, cursor and the
  deferred wrap at the right margin; the editor's bookkeeping is compared with
  it. Output of the shell scrolls what is above the prompt away.
- **`LogRing`.** A step is one store that the boot walk could find made or not
  made; offsets run free modulo `OffMod`, and one of the initial offsets is
  just below the wrap.
- **`UartConsole`.** The HAL transmits in place: `hal.pos` runs linearly from
  the tail, as `HAL_UART_Transmit_IT` does, so that a chunk that
  would pass the end of the ring sends what lies behind it.
- **`SdCard`.** `sd_lock` admits one operation, so one record is the thread
  inside. Blocks carry no data: `landed` says which blocks the DMA moved and of
  which card. **`FsMedia`** takes what runs under the mount mutex as one step.
- **`QspiFlash`.** The chip is part of the model and ignores a command while it
  works; warm resets reach the processor and not the chip.
- **`Display`.** A buffer is what it shows outside and inside the camera
  rectangle, relative to what it should show. GUIX is external: events in order,
  then a refresh of what is dirty.
- **`EthNet`, `TelnetShell`, `MjpegServer`.** NetX is external and appears by
  its event flags, its protection mutex, and sockets that are there or gone.

The MC modules put components with no variable in common side by side. A run
explores one of them at a time: the variable `explored` picks it in the initial
state, the others keep their initial values, and the fairness of a component is
asked for only where it is explored. One run then answers for all of them with
the sum, not the product, of their states.

## 3. Runs

| run | components | properties | what it shows |
|---|---|---|---|
| `pipeline` | frame pipeline | `SlotsSafe`, `FramesAccounted`, `InOrder`, `LeaseSpec` | the ring is correct in every interleaving, and implements the lease |
| `pipeline_live` | frame pipeline, with get() | `FramesSettle` | no frame is stuck |
| `camera` | base and subscribers; sensor | `RegistrySound`, `StopIsFinal`, `ProducerServes`, `StreamSettles`; `ArmedAsDescribed`, `SettingsCurrent` | start, stop, overrun and recovery against each other; cached state and chip agree whatever failed before |
| `nn` | live inference; model | `StagesSound`, `WorkerSettles`, `StagedIsInferred`; `ModelSound`, `ModelSettles` | staging, pause, stop; a load never disturbs the model in use |
| `shell` | jobs; editor; log | `JobsSound`; `EditorSound`; `LogSound`, `LogLossy` | launch, reap and kill; the line on the terminal; the ring at every reset |
| `console` | UART; YMODEM; jobs | `ConsoleSound`, `UartFlows`; `OkIsDelivered`, `YmSendEnds`; `JobsSettle` | bytes in order and never stuck; "OK" is true, and what keeps a send from its end; nobody is pinned by a stalled terminal |
| `devices` | SD; file systems; flash; DMA2D; display; touch | `SdSound`, `SdReturns`; `FsSound`, `FsCommandsEnd`; `QspiSound`; `Dma2dOwn`; `DisplaySound`, `PreviewFlows`; `TouchSound`, `InputFlows` | each driver against its interrupts, faults, timeouts, card swaps and resets |
| `net` | Ethernet; telnet; MJPEG | `EthSound`, `DriverLinkFollows`; `ClientServed`; `MjSound`, `MjStops` | the link is followed, the client who stays is served, a frame is sent whole |
| `base_oneshot`, `nncam_session`, `nn_latch`, `fs_evict` | | one each | violated: see [section 6](#6-where-code-and-documentation-disagree) |

An invariant named `...Sound` is the type invariant of its component with the
safety properties that it is made of, each a definition with its own comment.
With two workers the longest runs take two (`nn`, `shell`, `console`) to four minutes (`devices`).

`CHECK_DEADLOCK FALSE` is set where the bounds end a run: `console`, `devices`,
`fs_evict` and `net` (no operation, client, press or fault is left), and `nn`,
`nncam_session` and `nn_latch` (`MaxCommands`). The others check for deadlock.

### Bounds

- **Pipeline.** 3 slots: acquire() must pass over the newest and a pinned one and
  still find a third, and can also find none. One sink of each kind the code
  distinguishes: two LATEST sinks interact through the reference counts only,
  which the proof covers. `MaxGen` 3 or 2: a frame in delivery, one pending, one
  that replaces it; `Reinit` starts over, so that runs are unbounded.
- **Camera.** `MaxSubs` 2 is one below the three sinks, so that a full registry
  is reached; `Giveup` 3 is reached too, and a symbol in the proofs (the code has
  6). `MaxPosts` 2: the waiters test their condition again on every wakeup.
- **Inference and model.** 2 stages, 2 shells; 4 files on the card: two that
  work, one that is verified but does not fit in the arena, one that fails
  verification; `MaxCommands` 4, 5 in the violated runs.
- **Jobs.** 3 jobs over 2 slots: the pool is full, and a slot is used again while
  the other job lives with a kill for its earlier tenant under way. `shell` has
  two shells and uses their symmetry; `console` has one, with liveness.
- **Editor.** 2 columns and lines of up to 3: every edit at, before and after the
  margin, on up to two rows. History of 4 bytes: eviction of one and of
  several.
- **Log.** A ring of 8 words with records of 2 and 3: padding of every length,
  evictions that must take two. Offsets start at 0 or just below the wrap of
  `OffMod`. One reset and one fault, between any two stores; 5 records.
- **UART.** Rings of 3: full, empty and wrapped; sends of 2 and 3 bytes, the
  second longer than the ring holds.
- **YMODEM.** 4 blocks with numbers modulo 3: the number of a block comes again.
  2 tries, 4 faults: a failure of all tries, and a fault in every phase. Stray
  bytes have no bound: they come wherever no answer does. `MaxFaults` bounds what
  the line loses and garbles, `RcvRetries` how often the receiver asks again.
- **SD.** A bounce buffer of 2 with requests of 3: two chunks. Counters modulo 5
  over cards of 3 and 2 blocks, so that a sum could wrap. 2 swaps: out, another
  in. 3 operations: probe, a transfer given up on, the next.
- **File systems.** 2 threads, 3 commands, 2 cards, 2 swaps. Threads and cards are
  alike, so the first command is `t1`'s and `b` is not the first card in the slot.
- **Flash.** 2 pages of 2 cells: a program that starts within a page and ends in
  the next. One fault and one reset.
- **DMA2D and display.** 3 transfers; 3 commands, 2 queued GUIX events.
- **Touch.** 2 presses, one sample off the panel, one bus fault, one stop.
- **Network.** One packet in the pool, one descriptor each way: exhaustion is the
  normal case. 2 clients: one replaces the other at every step. Links down, 10
  and 100; one failed start of the MAC.
- **MJPEG.** 2 starts, 1 overrun, 1 failed relisten.

## 4. Fairness

Every liveness property is about things that go on without the user: nobody has
to type, publish, subscribe, connect, or keep a cable or a card plugged in.

- `FramePipeline`: a thread inside publish(), put() or consume() goes on, and a
  sink puts the frames it was handed. The mutex is never held across a callback.
- `CameraBase`: strong fairness of the producer's step, since `cam_lock` is a
  ThreadX mutex that goes to the waiter when it is put, and shells cannot keep it
  from a priority-10 thread by taking it again; weak fairness of the register
  writes of a start.
- `NnCamera`: weak fairness of worker, producer and each command under way; the
  model's run returns. The worker has the lowest priority: the firmware assumes
  that the others sleep, as they do between frames and keys. `NnModel`: weak
  fairness of each command.
- `JobPool`: weak fairness of every thread's own steps and of the send timeout
  (`CLI_TX_TIMEOUT` is finite as configured), strong fairness of taking an output
  lock. A terminal need not take a byte, and a sleep need not end.
- `UartConsole`: the UART sends, interrupts are served, the shell thread runs;
  strong fairness of printf(), which finds space again and again.
- `Ymodem`: sender and receiver go on; the line owes nothing. Attempts and
  timeouts are counted for blocks and EOT, which end whatever comes. Where
  wait_start() and wait_c() wait for a 'C' only timeouts are counted: `SendEnds`
  says that a send ends or else stays there for ever, with stray bytes coming
  again and again (`[]<><<LineStray>>`).
- `SdCard`: the thread inside goes on, since each of its waits has a timeout;
  the card owes nothing.
- `FsMedia`: threads run, the user lets a command end, and whoever waits for the
  directory mutex gets it (strong: others may take it in between).
- `Display`: the GUIX thread runs. `Touch`: strong fairness of the input thread,
  which shares `touch_lock` with the shell, weak fairness of the rest.
- `EthNet`: link thread and senders run; strong fairness of the IP thread's
  events, each of which competes with the others for the protection mutex.
  `LinkFollows` is asked for only of runs in which the deferred processing is not
  kept busy for ever: it has no budget, and a flood keeps the IP thread in it.
- `TelnetShell`: server and shell thread run. `MjpegServer`: the server thread
  runs; viewer, camera and shells owe nothing.

## 5. Proofs

TLAPS checks these for every value of the constants that satisfies the modules'
named assumptions (finite sets of threads, sinks and packets, natural bounds,
distinct names), with no limit on slots, shells, jobs, cards or commands. "Of"
names the property of a run the theorem states.

| module | theorem | of |
|---|---|---|
| `FramePipelineProofs` | `SlotsAreSafe`, `TypeCorrect`, `PendingNeverStranded`, `SlotsAreLeased`, `FramesInOrder`, `EveryFrameCounted` | `SlotsSafe`, `LeaseSpec`, `InOrder`, `FramesAccounted` |
| `CameraProofs` | `RegistryIsSound`, `StopIsAlwaysFinal`, `BaseTypeCorrect`; `ArmedIsDescribed`, `SettingsStayCurrent` (sensor) | `RegistrySound`, `StopIsFinal`, `ArmedAsDescribed`, `SettingsCurrent` |
| `NnProofs` | `StagesAreSound`, `NnTypeCorrect`; `ModelIsSound`, `ModelStaysOpen`, `ModelTypeCorrect` (model) | `StagesSound`, `ModelSound` |
| `ShellProofs` | `JobsAreSound`, `JobTypeCorrect`, `BytesLeaveInOrder`, `ConsoleStaysSound` (UART), `OkIsAlwaysDelivered` (YMODEM) | `JobsSound`, `ConsoleSound`, `OkIsDelivered` |
| `LogProofs` | `RingStaysWhole`, `LogIsLossy`, `DmesgIsFaithful` | `LogLossy`, `LogSound` |
| `EditorProofs` | `EditorStaysSound` (line editor, completion, history) | `EditorSound` |
| `DeviceProofs` | `SuccessIsMoved` (SD card), `MediaStaysInHand` (file systems), `SuccessIsWritten` (flash), `TransfersAreAnswered` (DMA2D), `TouchesAreHeard` (touch), `PanelIsSound` (display) | `SdSound`, `FsSound`, `QspiSound`, `Dma2dOwn`, `TouchSound`, `DisplaySound` |
| `NetProofs` | `PacketsComeBack` (Ethernet), `FramesAreSentWhole` (MJPEG), `NoClientForgotten` (telnet) | `EthSound`, `MjSound` |

Each follows from an inductive invariant by the same three steps (it holds
initially, each action preserves it, it implies the property), one lemma per
action or group of actions. What the invariants add to the properties, and why:

- **`PipelineInv`** adds `RegistryInv`. Pin balance is not inductive by itself:
  that put() makes the next delivery's pin out of the pending one needs to know
  that the pending slot is not already owed, and that detach() releases it needs
  to know that only an attached sink has one. The proof counts holders with
  lemmas on cardinalities of sets that gain or lose a member.
- **`DeliveryInv`** says, for each sink, what its counters are made of: the frames
  published while it is attached are delivered, dropped, pending, on a `todo` list
  or in a call under way, and the frame numbers of those increase along that
  order. A put() inside consume() nests; the invariant ranges over all of
  `calls[t]`, so that no argument about the depth is needed.
- **`BaseInv`** adds `LifecycleInv`: a recovery is pending only while the base is
  off, was not asked to be off and has tries left; while a start writes
  registers the base counts as running, and a caller's start has already cleared
  the one-shot entries. Without it `StopIsFinal` fails for a stop that comes in
  the gap between teardown and recovery.
- **`SensorInv`** is `Sound(c)` (what the driver believes of the chip is what the
  chip has, or a dirty flag or a lost descriptor says so) and `ReadyFor(c, armed)`
  while a capture runs. The proof goes through the helpers' outcomes: each keeps
  `Sound` whatever access fails, and `Then`/`Else` of two that do keep it.
- **`NnInv`** adds `StageInv`: only the worker makes a stage RUNNING, and only
  while it copies; the stage under fill is never READY; a fill that is still
  current belongs to an attached sink.
- **`ModelInv`** adds `OpenInv` (who opens is alone and nothing is loaded before),
  `SessionInv` (the session has one holder, a command or the stream) and
  `LoadInv` (which slot a load writes, and that the live one stays as it was
  until the switch).
- **`JobInv`** adds `OwnerInv` (who launches or reaps has a slot of its own and
  knows whether its thread exists and is registered), `ThreadInv` (a worker is
  somewhere in its code exactly while its thread lives), `IdInv` (ids in use are
  below the next one, so that no kill can have named a job still to come) and
  `LockInv` (the owner of an output lock is in the send it took it for). Most
  steps move one actor that has no slot in hand; lemma `QuietKeeps` treats them
  together.
- **`SdInv`** adds `OpInv` (the operation under way; a card that answers is the one
  that was probed)
  and `ChunkInv` (the blocks that landed are those before the chunk under way; a
  completion that is posted belongs to it): a success is only as good as every
  chunk before the last.
- **`FsInv`** adds `AdmissionInv` (`activeOps` counts the threads inside, an owner
  is alone with its flag set), `MediaInv` (who writes below a file system has it
  unmounted) and `DirInv` (who walks the directory holds its lock). That nobody
  loses media in use follows from the count: an eviction happens only when the
  evicting thread is the one operation that is counted.
- **`QfInv`** adds `TimingInv` (set-up runs until the driver is up or off, and
  succeeds only with the register as it wants it), `BusyInv` (a device that works
  is waited for, or was given up on) and `ProgressInv` (the blank cells before
  the chunk under way are filled and no other cell has changed): the chunks add
  up to the range because none crosses a page's end, which is arithmetic on the
  page size.
- **`UartInv`** is `RunInv` (the run under way is the tail of the ring, unbroken by
  its end) and `StreamInv` (wire and ring together are the bytes accepted).
  `NoLostWakeUp` is inductive with it: who found the ring full found a run under
  way, since none is idle before bytes, and its completion sets the flag.
- **`YmInv`**: one thing is on its way at a time, and what the sender hears while it
  waits answers what it sent last. That is only so while replies come within its
  timeouts: the hypothesis `Prompt` of the theorem says when, and a reply that is
  later than that may acknowledge the wrong block. Block numbers are compared
  modulo 256; neighbours differ.
- **`LogInv`** says that the offsets from tail to head form a chain: each is that of
  a SKIP or of a whole record with a number below the next one, each leads to the
  next, none overlap, numbers increase; and that room was made before anything is
  put behind head. What the boot walk and the reader find along a chain is an
  induction over its links, by a lemma on least elements of sets of numbers;
  the recursive functions `Walk` and `Records` are unfolded from their existence.
  **`PassInv`** is dmesg's place in the chain: what it has shown lies behind it,
  what is ahead is later. Offsets are compared as signed differences, so that the
  theorem has the hypothesis `ShortPass`: fewer than 2 GiB are written during one
  pass.
- **`EdInv`** is `RenderInv` and `HistInv`. `RenderInv` says where every operation
  leaves the cursor and the editor's bookkeeping of rows (`Drawn`), whatever was
  smeared, and what each cell holds while nothing was; while a job's output has
  broken the line the screen is blank below it (`Broken`). Each of the terminal's
  operations has a lemma on cells and rows, all of which is arithmetic on
  quotients by the width. Rows are numbers here and bytes in the code: as
  configured (lines of 255) a prompt narrower than the terminal, which the
  theorem assumes, keeps them below 130.
  `HistInv` says that positions exist at which the ring holds the entries
  (`Laid`), and that the offset of the walk is one of them. Positions and content
  are determined by the entries (`LaidSame`), the ring can be appended to and cut
  at a position (`LaidAppend`, `LaidRest`), and terminators are where entries end
  because no key types one. Hence what the ring evicts by offsets
  and what the history of this size must forget are the same (`AddIs`).
- **`D2Inv`** is `ArmInv` (the interrupt path serves one transfer), `LockInv` (so
  does the HAL's lock) and `EndInv` (what was posted is how this transfer ended).
  **`ToInv`** adds `BusInv` (a transfer posts once, while somebody listens, and an
  error is noted before the post that tells of it) and `InputInv` (what the wake
  is trusted for, and what a read is owed to).
- **`DpInv`** adds `GuiInv` (the root is shown only between the take and the blank of
  the panel, and while it is, the canvas is the back buffer), `UiInv` (the buffers
  agree where nothing is dirty) and `RectInv`: while the root is dirty both
  camera rectangles are stale, but for the one just drawn. That is why the copy
  of a dirty root over the camera rectangle never spoils one that is not stale.
- **`EnInv`** is `MacInv`, `TxInv` (who is inside eth_tx() has a packet that is not
  queued yet) and `PoolInv` (pool, descriptors and users have every packet
  between them; lemmas on cardinalities of the packets lent). **`MjInv`** adds
  `HandOffInv`: a frame being sent keeps the copy busy, or its viewer is gone.
  **`TnInv`** adds to `ClientKept` where the server stands with its socket.

### Only model-checked

- Liveness, under the fairness of section 4, and anything about ENABLED: out of
  the prover's reach. Where a wake-up is what liveness hangs on, its safety half is
  proved: `PendingNeverStranded` of `FramesSettle`, `NoLostWakeUp` of
  `UartFlows`, `ClientKept` of `ClientServed`.

## 6. Where code and documentation disagree

Four statements in comments are not what the code does. Each is stated as a
property and a run shows the counterexample.

- **`base_oneshot`**: a mode change between an overrun's teardown and its recovery
  leaves a one-shot subscriber enabled and detached with no recovery in flight,
  which is what the waiting MJPEG session concludes from "enabled"
  (`camera.c:2416`).
- **`nncam_session`**: `nncam_holds_session` does not say whose session it is. A
  release that comes late frees the session of the next stream, and another
  command uses the model beside it (`nn.h:137`).
- **`nn_latch`**: a stream looks at the model's input before it claims the
  session; a swap in between leaves it preparing frames for the model before
  (`nn_camera.c:475`).
- **`fs_evict`**: the mount that ends `sd format` takes the media without counting
  itself as an operation, so that the eviction of a changed card, "only safe when
  no other op is using the media" (`sd_fs_glue.c:151`), may abort the media under
  the one operation that is counted.

Met on the way, modelled or read, and without a run of their own:

- After detach() returns, publish() may still call the sink once, from the list
  it took under the lock; `docs/en/architecture/frame-pipeline.md` says none at
  line 207 and grants one at line 217.
- A switch between live picture and test pattern that fails with the register
  written is not repaired by a capture of the earlier source, because
  `cam_colorbar` still names that source (`camera.c:870`).
- An inference under way when the base detaches publishes its boxes after the
  detach cleared them; they stay through the pause.
- The inference worker takes the lowest-numbered READY stage, so that an older
  frame may be inferred after a newer one; a stop of one shell between another's
  `nncam_run = 1` and its camera_subscribe() leaves the sink registered with
  nobody running.
- The teardown's comment says that reaching the frame target is never recovered;
  the code tests only error and stop. `docs/en/rtos/shell-jobs.md` says that
  `kill` reaps; the line that carries the command does. `jobs` reads slots
  without a critical section.
- Job output or Ctrl-C on a line that has wrapped leaves rows of it below the
  new prompt (`smeared` in `LineEditor`).
- A polled DMA2D transfer that times out is not aborted (`abandoned` in `Dma2d`);
  a failed copy-forward of the camera rectangle is not noticed, and one frame may
  be drawn with the previous stride after a change of geometry (`torn` in
  `Display`).
- wait_start() and wait_c() (`ymodem.c:129-160`) count only timeouts: a stream of
  stray bytes or NAKs that leaves no pause of 10 s (3 s) keeps a sender waiting
  for 'C', until the user cancels (`LineStray` in `Ymodem`).
- nx_mjpeg_stop() may return 0 while the server thread has yet to let its socket
  go; output of a command that outlives its telnet client goes to the next one.

## 7. What is not modelled

- **Third-party code**: ThreadX, NetX, FileX, LevelX, GUIX, the HAL, the
  inference runtimes. Where a model needs them (mutex hand-over, event flags,
  completed threads, sockets, media) they appear as the code in `src/` uses
  them.
- **Wall-clock time**: a timeout is a step that may come whenever its wait is
  pending. Bounds on latency are not stated.
- **Memory and cache maintenance**, register values, pixel conversion, the
  buffer pair of the camera's DMA and the scan of JPEG frames for their end.
- **Two commands of the MJPEG server at once**: nx_mjpeg_start() and
  nx_mjpeg_stop() share no lock; `MjpegServer` runs one after the other.
- **Pure functions**: the command parser, formatting, decoding of network
  outputs (`blazeface.c`), argument parsing of commands.
- **What runs once**: initialisation, SDRAM, clocks, the watchdog's petter,
  address set-up and DHCP in `nx_glue.c`; the backends with one static model;
  the dummy backend of the host tests; scripts.

`PROJECT.json` lists every component with its status and the reason.

## 8. Plan

1. *(done)* `FramePipeline`, `SlotLease` and their proofs: everything else hands
   frames through it. `CameraSensor`, `CameraBase`, `NnCamera`, `JobPool`, with
   the proofs of the last three.
2. *(done)* The model and its backends, editor, log, console, YMODEM, storage,
   display, touch and network; an abstract specification of the log; proofs of
   `NnModel`, `Dma2d`, `MjpegServer` and `SdCard`.
3. *(done)* Proofs of `FsMedia`, `Touch`, `EthNet`, `QspiFlash`, `Display`, of the
   transmit ring of `UartConsole`, and of the refinement `LeaseSpec`.
4. *(done)* Proofs of the pipeline's accounting and order, of `CameraSensor`, of
   YMODEM's promise, of the refinement `LogLossy` and of `LogSound`.
5. *(done)* A proof of `EditorSound`: every safety property of a run has its theorem.
6. *(left)* The DMA buffer pair and the JPEG scan of `camera.c`; address set-up
   and DHCP; the key mode of interactive commands.
