# DecGetNvrStream: a verification development

The repository is the firmware of a network video recorder (NVR): it takes streams from IP
cameras and encoders, shows them, records them to disk on schedules and alarms, plays them
back, and sends them to remote clients. This directory holds TLA+ models of its core, the TLC
configurations that check them on small instances, and TLAPS proofs about them. Paths are
relative to the repository; `record.c` is `src/ModRecord/src/record.c`.

- [1. The system](#1-the-system)
- [2. The modules](#2-the-modules)
- [3. What each run checks](#3-what-each-run-checks)
- [4. Fairness](#4-fairness)
- [5. What is proved](#5-what-is-proved)
- [6. Where the code disagrees with what it says](#6-where-the-code-disagrees-with-what-it-says)
- [7. What the models leave out](#7-what-the-models-leave-out)
- [8. Plan](#8-plan)

Run a model with `tlc -config X.cfg M.tla`, check the proofs of a module with `tlapm M.tla`.

## 1. The system

### Parts, their state and their operations

| Part | Where | State it keeps | Operations | Here |
|---|---|---|---|---|
| Byte ring | `ModRecord/src/circlebuf.c` | memory, two offsets, two former offsets, bytes used, a semaphore | create, reset, write, read, skip, take back | `CircleBuf` |
| Frame queue | `record.c` 139-750 | a byte ring and `nSemForBuffer` per channel | put in, take out, skip, reset, keep a pre-recording of some seconds | `FrameBuf` |
| Status manager | `record.c` 1196-1735 | causes of recording per channel (now, past, delayed), pauses | commands of the business layer to messages for the writer | `Recorder` |
| Schedules | `record.c` 850-1160 | what triggers, what waits for its schedule, week tables | alarms on and off, the clock, change of a table | `RecordSchedule` |
| Writer | `record.c` 2100-2935 | open file and `flag_force_writefile` per channel, disk full | drain a ring into a file, end a file, stop for a full disk | `Recorder` |
| Rings around an upgrade | `record.c` 5039-5120, `Biz/src/biz_syscomplex.c` 560-595 | which rings exist, which were released | release, create again, resume | `RecordBuffers` |
| Snapshot recorder | `record.c` 2940-3980, `partitionindex.c` | its ring, a count; status, open container and entries not yet flushed of its thread; the index of the pictures | put in, write out, flush, open the next container, stop and start | `SnapRecord`; its ring's release in `RecordBuffers` |
| Message ring | `ModNet/src/loopbuf.c` | slots, units, two semaphores, a mutex | reserve, commit, take, give back | `LoopBuf` |
| Remote preview, playback, download | `ModNet` | sessions, links, send queues | open, send, close, time out | planned |
| Network services | `ModNet` (DDNS, mail, platforms) | little | outside services | no |
| Playback | `ModPlayback/src/playback.c` | state, direction and reference time of the control thread; position and next frame of each channel thread | play by time or file, pause, step, seek, next and last section, speed, turn, stop | `Playback` |
| Alarms | `ModAlarm` | arming tables, what is on | detection, linkage to recorder and PTZ | planned |
| Users | `ModUser` | accounts, logins | log in, out, change | planned |
| Log | `ModLog` | circular log on flash, its index | append, search | planned |
| Configuration | `ModConfig`, `Biz/src/biz_config.c` | parameter tables and their file | get, set, save | planned |
| Upgrade, backup, format | `ModSyscomplex` | progress of one job | start, stop, report | in part in `RecordBuffers` |
| Client protocol | `ctrlprotocol` | sessions, heartbeats | log in, command, notify | planned |
| Index of a partition | `custommp4/source/partitionindex.c`, `diskmanage.c` | two copies on the disk, a header and a ring in memory | next segment, update, record over the oldest, rebuild after a crash | `PartitionIndex` |
| Contents of a file | `custommp4/source/custommp4.c` | a pre-allocated file, its frame index | open, write, seek, close | planned |
| RTSP server | `minirtsp` | sessions | describe, set up, play, tear down | planned |
| IP cameras, ONVIF | `ipcamera`, `onvif` | a client per camera | connect, stream, reconnect | planned in part |
| Preview, encoder, PTZ, GUI, hardware library, drivers, tools | | layout, devices | mostly device calls and drawing | no |
| Vendored code | live555, zlib, lua, codecs, ffmpeg and OpenSSL headers | | | no |

`PROJECT.json` lists all of them with the reason for each that is not modelled.

### How they interact

Capture threads (one for video, one for audio of a channel) call `ModRecordWriteOneFrame`. It
looks at the flags of the channel (`g_RecordStatus`, `g_RecordStatusDelay`, `g_ChnPaused`,
`g_IsWritingFile`, `g_IsPreRecording`), which other threads own and nothing protects, puts the
frame into the ring and, above a filling of 30 %, sets `g_SendMsgReadBuf` and sends `READ_BUF`
to the writer. The business layer (`Biz`) posts commands to queue 0: alarms on and off, manual
recording, schedules, pause and resume around every change of a setting. The status manager
takes one command per turn, then visits every channel, and tells the writer through queue 1 and
`g_semMsgQueue[0]` of every beginning and end, of pauses (`FORCE_END`) and resumes
(`RESUME_REC`). The writer drains rings into files, and after every message looks at the disk:
full, it posts pauses to queue 0, and resumes when there is space again. Upgrades and
formatting reach into all three: they pause channels, free the rings and take them again.

The writer opens its files through the index of the partition (`get_rec_path`), tells it from time
to time how far a file has come, and once more when it closes it. Playback searches that index once
per play command and from then on reads the files; the two meet in nothing else.

The pictures go another way: whoever has one calls `ModRecordSnapshotToBuf`, and a single thread
(`RecordSnapFxn`) appends it to a container and enters it later, some at a time, into an index of
its own. A format, an upgrade and the plugging of a disk each stop that thread by a message and a
flag, wait some seconds, do their work on the same disk and start it again.

A user's thread that plays something (the GUI or a remote client, through `Biz`) takes the lock
of `ModPlayback`, leaves a command in a word and waits for the control thread. That thread
looks at the word every round, otherwise moves its reference time on, and in
both cases tells every channel thread in turn, waiting for each answer. The channel threads
read, wait until the reference time has come to a frame, and send it to the decoder.

The same frames go through `netcomm.c` into a message ring per connection, from which the
preview thread sends straight out of the ring's memory.

### What is hard about it

- Many threads, shared flags without locks, messages that overtake flags: a pause is decided,
  sent, and then noted, while frames still arrive and `READ_BUF`s are in the queue.
- Two-part writes and reads on a byte ring with wrap-around and taking back.
- A flag (`g_SendMsgReadBuf`) set by one thread, cleared by another, that must agree with a
  message that some rule may drop.
- A disk that fills and empties while users pause and resume.
- Delays after alarms, alarms outside their schedules, tables that change meanwhile.
- Memory that is freed and taken again while commands to its users are still in a queue.
- A loss of power between any two writes of an index that exists twice and has a checksum over
  its header only.
- Pictures written to one file and entered into another later, by four writes any of which may
  fail or be the last before a loss of power; and several who stop and start the one thread that
  does so.
- A reference time that one thread keeps and every channel copies, with commands that turn it
  round or move it while the channels are in the middle of a frame or between two files.

What makes each part correct: the byte ring keeps offsets and length in agreement and loses no byte;
the frame queue is a queue of whole frames; the schedule records for exactly the alarms that are on
and due; every beginning and end reaches the writer; a paused channel's file stays closed, and a
resumed channel records again; saving that was asked for happens; the message ring hands over whole
messages in order; after a failed upgrade everything is as before; every container of a disk has one
owner, and what was recorded is found until it is recorded over; every picture that a search shows
is there, every picture written comes to be shown, and whoever stops the snapshots finds their files
closed; a playback shows every frame at its time, answers every command, and ends.

## 2. The modules

`FrameBuf` extends `CircleBuf`, and makes its calls on the variable `info`. `FrameBuf` implements `FrameFifo`, `LoopBuf`
implements `MessageFifo`, by refinement mappings. `Recorder` stands above the ring: a ring there
is the number of frames in it. `PartitionIndex`, `Playback` and `SnapRecord` stand alone. Every
model definition has its lines of source in `PROJECT.json` under `map`. A definition marked "Mutant"
is no part of a model: it is the form another definition would have with a plausible bug, and shows
that a property can fail.

### CircleBuf

The ring is a record `info`; `mem`, `wr`, `rd`, `wrPast`, `rdPast`, `used` are the address,
`nWriteOffset`, `nReadOffset`, the two `...Past` fields and `nLenUsed`. Every function of
`circlebuf.c` takes the ring's semaphore for its whole body, so each is an operator on the
record and one atomic action. A read of more than there is empties the ring, as in the code; a
write or skip that does not fit leaves it alone. The cells hold members of a set `Byte`. The ring
on its own, with any calls in any order, is `RingSpec`; `FrameBuf` uses the operators only.

### FrameBuf and FrameFifo

One channel, its producers and the writer. A cell holds `<<frame, k>>`, piece `k` of a frame:
the first `HeaderLen` pieces are the header, so that the length field read from a cell is
garbage exactly when the cell is not the first of a frame. `pc` says where a producer is
between two critical sections of `nSemForBuffer`: the room is looked for without the lock
(`SeesRoom`), the two writes are one step under it (`Write`). For a pre-recording, `MakesRoom`
skips old frames until the new one fits, `WritePre` writes and keeps the lock, `Trim` and
`TrimDone` drop what is older than `g_RecordPreTime` and give the lock back. A frame's number is
its time stamp. `FrameFifo` is the promise: a queue of frames appended, removed or cleared whole. It
is read out of the ring by `FramesOf`: the `n`th frame begins at the `n`th waiting cell that is the
first of a frame. `FrameAssumption` says that a header alone is shorter than the ring (3 MB,
`record.c:4176`): the write of a header as long as the ring would move no offset, and `ResumeWrite`,
which goes by the offsets, would take back nothing of it.

### Recorder

Three kinds of thread. Each has a program counter that stops wherever another thread may get in
between: `ppc` for the producers, `spc` and `sc` for the manager (before the next command, at a
channel, between sending a pause and setting `g_ChnPaused`, before the update, between the message
that ends a delay and its clearing), `wpc` and `wmsg` for the writer (waiting, draining, each of the
flag changes at the end of a message, looking at the disk).

`RecordWriteMsgQueue` writes the message into the queue under the lock of the queue and posts the
semaphore behind it. Every sender does this in two steps: a producer stands at `postFull` or
`postHigh` in between, the manager has `posting` set. What the manager has still to send is in `out`:
an action that hands it messages (`Hand`) leaves it busy until `Put` and `Post` have sent them one
by one, while the other threads go on.

| Model | Code |
|---|---|
| `cmds`, `msgs`, `sem` | the queues 0 and 1 (`RecordWriteMsgQueue`), `g_semMsgQueue[0]` |
| `status`, `past`, `delay` | `g_RecordStatus`, `g_RecordStatusPast`, `g_RecordStatusDelay` |
| `isPre`, `preStart`, `preTime` | `g_IsPreRecording`, `pre_start`, `g_RecordPreTime > 0` |
| `chnPaused`, `flagPause`, `sentPause` | `g_ChnPaused`, `flag_pause`, `flag_sendmsg_pause` |
| `flag`, `isWriting`, `used`, `giveUps` | `g_SendMsgReadBuf`, `g_IsWritingFile`, the ring, `pFlagChnBufFull` |
| `forced`, `fileOpen`, `stopped` | `flag_force_writefile`, an open file, `nStopRecordByDiskFull` |
| `out`, `posting` | how far the manager is in its calls of `RecordWriteMsgQueue` |

| Actions | Code |
|---|---|
| `Offer` ... `CheckRate` | `ModRecordWriteOneFrame`, `RecordWriteFrameToBuf` |
| `NotWorking`, `Command`, `SendPause`, `SendResume`, `SetPaused` | `RecordStatusManagerFxn` |
| `Put`, `Post` | the two halves of `RecordWriteMsgQueue`, called by the manager |
| `UpdateRecStatus` and its cases, `DelayEnds`, `ClearDelay` | `RecordUpdateRecStatus`, by (past, status, delay) |
| `Take` ... `CheckDisk` | `RecordMainFxn` |
| `BizCommand`, `WorldChanges` | the entry points of the module, the disk, hot-plug |

### RecordSchedule and MCRecordSchedule

`RecordDealRecMsg` for one channel: `triggering` and `wanting` are `chn_is_triggerring_me` and
`chn_wanna_trigger_me`, `plan` the tables, `day` and `sec` the local time. A turn of the
manager's loop is a command (`AlarmOn`, `AlarmOff`, `SetSchedule`, `NoCommand`) and then
`Timer`; the clock ticks in between. The stop second is inside a segment for an alarm and
outside for the timer, as in the code. Two variables are not the code's: `on`, the alarms that
are on by what was reported, and `fresh`, that nothing has changed since the last `Timer`. They
exist for the properties only and guard nothing.

### RecordBuffers

The upgrading thread (`upc`), everybody else who pauses and resumes channels meanwhile (`Sender`,
each with the commands it has `todo`), and the status manager (`sc`), meeting in the queue `cmds`.
The module checks the order in which channels are stopped, seen paused, freed, created and resumed. A
ring exists or not; `WaitForPause` lets the ten polls end at any moment.

| Actions | Code |
|---|---|
| `StartUpgrade` ... `ResumeChn` | `sysComplexStopRecCB`, `ModRecordBufRelease`, `ModRecordBufResume`, `sysCompleResumeRecCB` |
| `SwitchOff`, `SwitchOn`, `ChangeStream` | `ConfigSetRecPara` (`biz_config.c:2936`); the other settings that pause and resume a channel (`:2720`, `:3018`) send the same |
| `LastDiskOut`, `ReloadHdd` | `BizReloadHdd` (`biz_manager.c:486`, `:570`); formatting and setting the clock send the same |
| `DiskFull`, `StillFull`, `SpaceAgain` | the end of the writer's round (`record.c:2900`) |
| `Send` | one command of these |
| `TakeCommand`, `SetChnPaused` | `RecordStatusManagerFxn`; a disk may be formatted |

`others` is no variable of the code: the channels that somebody other than the upgrading thread has
resumed, or has begun to. It is there for `RecordingHasRing` and guards nothing.

### LoopBuf and MessageFifo

`ifly_msgQ_t` built with `MSGQ_OPT`. `TryWait`, `Reserve`, `Copy`, `Commit`, `PostWritten` are
the path of a capture thread through `GetMsgQWriteInfo`, the copying in
`NetCommSendPreviewFrame` and `skipWriteMsgQ`; the mutex is held from `Reserve` to `Commit`.
`Take`, `GiveBack`, `PostRead` are the preview thread, which reads without the mutex. A unit of
memory holds the number of the message last written there. `MessageFifo` is the promise: whole
messages in order, and the one being sent stays as it is. The refinement mapping reads its queue
(`Queue`) and the message being sent (`Held`) out of the memory, slot by slot from `rpos`.

The code breaks the promise in one step, and `ImplementsMessageFifo` names it: the copy of an audio
frame is one header too long (`Spill`). `SpillsOver` is that copy when the message takes the last free
units: it may change the oldest message, also while that is sent, and neither another message nor
their number. In every other case the surplus falls on free units or behind the end of the memory;
what lies there is outside the model.

### PartitionIndex

The disk is part of the state. An operation of the writer holds `index->lock` throughout and is
one action on what is in memory; it leaves `todo`, the writes it makes, each a `fwrite`,
`fflush`, `fsync` to copy 1 and then to copy 2 (`WriteFirst`, `WriteSecond`). The next operation
begins when they are made. A crash may come before any of them and between the two copies, and
leaves the header it meets torn or not. `StartCopy` and `FinishCopy` are `init_partition_index`,
which may be cut short itself.

| Model | Code |
|---|---|
| `hdr` | `index->header`: `recorded`, `full`, `offset` are `recorded_file_nums`, `full_file_nums`, `full_file_offset`; `file[c]`, `sect[c]` are `chn_info[c]` |
| `ring` | the `file_use_info` entries in `index->cachedst` |
| `copy[k]` | `index10.bin` and `index11.bin`: `ok` is the checksum, `seg` the segment entries |
| `same` | whether the headers of the two files are equal (they carry a count of writes, `op_nums`) |
| `open[c]` | the file the writer has open for a channel |

| Actions | Code |
|---|---|
| `Continue`, `Allocate`, `Cover`, `NoSpace` | the four ways through `get_rec_path`: `get_chn_next_segment`, `get_chn_next_segment_force`, or none |
| `Update`, `Abandon` | `update_chn_cur_segment` with and without the end of the file; a file given up after an error |
| `Crash`, `CrashInInit`, `StartCopy`, `FinishCopy` | loss of power, `init_partition_index`, `indexfilecp` |

`promise`, `kept`, `covered` and `exposed` are of the properties only and guard nothing: what an
update has returned for, what a full disk has since been recorded over, and containers whose
covering a crash has cut short.

### Playback and MCPlayback

Users wait for `lock` and then for `finish`; a command is the word `cmd`. The control thread is
`mgr.at`: looking at the word (`"poll"`), about to send the round's message to the next
channel (`"tell"`), or waiting for its answer (`"await"`). A channel thread is `chn[c].state`:
the code's `IDLE`, `WAIT` and `PLAY`, the last split at the inside of the frame loop (`"frame"`)
and at the change to the next file (`"over"`).

| Model | Code |
|---|---|
| `ctl`, `forward`, `ref`, `alone` | `emCurCtlState`, `nForward`, `nRefPTS` (kept between `Bottom` and `Top`, beyond which it tells no frame from another), `nRealPlayNum == 1` |
| `list[c]`, `chn[c].index` | `aRecFileInfos` (newest first), `nCurIndex` |
| `box`, `sent`, `done`, `ack` | `emPbChnCmd`, `semSendChnFinish`, `semPbChnFinish`, `nPbChnAck` |
| `chn[c].next`, `.back`, `.ready`, `.ref` | the position in the file for each direction, the frame in the buffer, `nRefPts` |

| Actions | Code |
|---|---|
| `SendCtlMsg`, `Return` | `SendCtlMsg`, called for every entry point of the module |
| `Finds`, then `Start` or `TooManyChannels` | `PBCtlFunc`, a search that finds something: files are opened, then the layout chosen, for 24 channels at most (`Widest`); a wider search is taken up again and again (`continue`) |
| `NothingFound` ... `SeekTo`, `Advance` | `PBCtlFunc`, by command and state; from `PlayRunning` on for `Advance` |
| `Send`, `Answer`, `AllTold`, `Updated`, `AllOver` | `SendChnMsg`, the end of a round, `StopPlayback` |
| `HearPlay` ... `HearSeek` | `PBChnFunc`: `GetChnMsg`, what the message does, `AckChnMsg` |
| `NoMessage` ... `NextFile` | `PBChnFunc`: the loop over frames and files |

### SnapRecord

The producers put pictures into a ring (`Put`, `Drop`), callers stop and start the thread (`Pause`,
`Resume`, and between them `Reload`, `Format`), the thread makes its turns. `at` is where it is in
a turn, `how` what it opens a container or flushes for. A step reaches to the next write of the
disk; every write may fail before or after it has had its effect. A crash may come between any two.
`GetNewSnapFile` empties `SnapFile` whatever it holds (`record.c:3134`), and returns without closing
the container it has just opened when it cannot write its entry (`record.c:3190`): `OpenFails`, which
has the code's three ways of failing, counts it as `leaked`, and so would `OpenNew` one still open
(`Forgotten`). `SnapFile` is not initialised (`record.c:3508`), so a thread that is stopped before it
opened its first container, as on a recorder that starts without a disk, closes a pointer that was
never set (`record.c:3933`): `Init` has it null or wild, and a wild one is closed with no effect
(`Hear`) or takes the recorder down (`WildClose`).

| Model | Code |
|---|---|
| `pics`, `smsgs` | `g_RecSnapBufInfo` (`BufSnapCnt` is its length), `g_SnapMsgQueueInfo` |
| `status`, `pre`, `flags` | `status`, `pre_status`, and `flag_format`, `flag_hotplug`, `flag_update` |
| `file`, `buf`, `pic` | `SnapFile` (`wild`: the pointer in it was never set), `PicInfoBuf`, the picture of this turn |
| `leaked` | containers that were opened and that no `SnapFile` holds any more |
| `cur`; `dcur`, `info`, `pinfo` | `pic_header.file_cur_no` in memory; that number, the entries of files and of pictures on the disk |
| `bytes`, `dirty` | what the containers hold, and what was written to the open one and not synced |

| Actions | Code |
|---|---|
| `Put`, `Drop` | `ModRecordSnapshotToBuf` |
| `Pause`, `Resume` | `ModRecordSnapPause`, `ModRecordSnapResume`, `ModRecordSetHotPlugFlag` |
| `Reload`, `Format` | `BizReloadHdd`; the end of a format, `init_partition_pic_index` |
| `Take`, `Hear` | `RecordSnapFxn`: the picture, the message, and what the status asks for |
| `Rollback`, `OpenNew`, `OpenFails` | `GetNewSnapFile`, `get_pic_rec_partition` |
| `Store`, `Write`, `StoreFails`, `Half`, `Late` | `RecordSnapFxn` in `TypeRecSnapRun` |
| `Sync`, `EnterPics`, `EnterFile`, `EnterHeader` | `FlushSnapIndex`, one write each |
| `WildClose` | `fclose` of a pointer that was never set, and the next start |
| `Crash` | loss of power and the next start |

`asked`, the causes that hold the thread, is what the callers know. `written` is of the properties
only. `pauses`, `faults` and `crashes` count for the bounds, and `NothingLost` speaks of the last
two. `undone` counts the times that an index which was used up could not be emptied:
`get_pic_rec_partition` does not look at what `init_partition_pic_index` returns (`diskmanage.c:713`)
and goes on with the old one. The bounds in `TypeOK` grow with it, and since the entries of all
containers lie one after the other (`PicPos`), from the second time on an entry too many lands on
the next container's.

## 3. What each run checks

All finish within five minutes. "States" are distinct states found.

| Run | States | Properties |
|---|---|---|
| `CircleBuf.cfg` | 5,581 | `Consistent`, `OnlyTheEndsMove` |
| `FrameBuf.cfg` | 28,211 | `TypeOK`, `Framed`, `ImplementsFrameFifo`, `EveryFrameIsDealtWith` |
| `LoopBuf.cfg` | 993,315 | `TypeOK`, `RingAccounted`, `ImplementsMessageFifo`, `EveryMessageIsSent` |
| `RecorderStatus.cfg` | 4,846,562 | `TypeOK`, `PauseAgreement`, `ForcedMeansClosed`, `TransitionsAreTold` |
| `RecorderDrain.cfg` | 699,856 | `FlagHasMessage`, `SavingStarts` |
| `RecorderDisk.cfg` | 816,555 | `MessagesAreSignalled`, `DiskIsFollowed` |
| `RecordSchedule.cfg` | 8,520 | `StatusIsDue` |
| `RecordBuffers.cfg` | 9,453,172 | `VideoRingsReturn`, `RecordingHasRing` |
| `PartitionIndex.cfg` | 2,468,677 | `OneOwner`, `AlwaysAValidCopy`, `KeptIsFound`, `ShownUnderItsChannel`, `OldestGoesFirst` |
| `Playback.cfg` | 432,180 | `TypeOK`, `OneExchange`, `ThreadsFollow`, `OpenFileIsListed`, `JumpSkipsNothing`, `Answered`, `RunEnds` |
| `SnapRecord.cfg` | 486,321 | `TypeOK`, `IndexedIsStored`, `NothingLost`, `StoppedMeansClosed`, `IndexedStays`, `SnapshotsResume` |
| `RecorderStall.cfg` | | `SavingStarts`, which the code violates: section 6 |

**CircleBuf.** A ring of 4 cells, two byte values, writes and reads of up to 5 (one more than
the ring holds). Every pair of offsets, an empty and a full ring at every offset, calls ending
exactly at the end of the memory, and taking back after every call occur. The run
shows that five fields updated separately never disagree (`Consistent`), and that no call
changes a byte still waiting (`OnlyTheEndsMove`). Both are also proved for every length (section 5).

**FrameBuf.** 7 cells, headers of 2, frames of 1 and of 6: the small ones leave 1 cell over and
so wrap at every offset, the large one never fits and drives the paths of failure. Two producers
and three frames give the race between two that both saw room. The refinement says that no
interleaving tears, doubles or reorders a frame; `EveryFrameIsDealtWith` that making room ends. All
but the last are also proved for any ring, frames and producers.

**LoopBuf.** 5 units, 2 slots, video and audio messages of 1, 2 and 4 units, two writers, five
messages. Each length occurs with and without a jump, the slots run out before the units and the other way round, and the
ring wraps. `RingAccounted` counts what the semaphores, the positions and `free_num` say against
what is in the ring, the units of jumps included: nothing is lost, and when every message was given
back the whole memory is free. The refinement says that the reader, which reads without the mutex,
gets whole messages in order, but for what an audio frame in the last free units does to the oldest.

**Recorder.** One channel, a ring of two frames with the marks at one, one frame given up before
a reset. Channels share the writer and the two queues and nothing else: the effect of another
channel on one is that messages wait longer, and they wait arbitrarily long here since every
thread may be slow. The proofs of `MessagesAreSignalled` and `ForcedMeansClosed` hold for any
number of channels. `MaxEvents` bounds what the environment does; each run has as many events as
the shortest violation of its properties' mutants needs, or more. `MaxCmds` holds commands back
while that many wait, `MaxMsgs` frames while that many messages wait; messages of the manager,
and frames already accepted, are not held back by either.

- `RecorderStatus.cfg`: three events of every kind but the full disk (a recording, a pause while it
  goes on or after it has ended, a resume), two commands waiting. `TransitionsAreTold`: over every
  way through status, past status and delay, the manager hands over a recording that begins as begun
  and updated, and one that ends once. `PauseAgreement`: whenever the last word to the writer is `FORCE_END`,
  the manager knows that it owes a `RESUME_REC`; else the channel would never record again.
  `ForcedMeansClosed`: nothing left in the queue opens the file of a paused channel.
- `RecorderDrain.cfg`: two producers, a recording that begins.
  `FlagHasMessage`: the flag is never set without a message sent, queued or served, otherwise
  nobody would ask again. `SavingStarts`: the writer comes to every ring it was asked to read.
  Pauses are left out because with them both fail (section 6).
- `RecorderDisk.cfg`: a ring of one frame, a disk that fills and empties, and a resume by the user
  meanwhile. The channel is paused again, is resumed when there is space, and the semaphore is never
  behind the queue by more than the senders that stand between the write and the `sem_post`, although
  the writer polls past it. A producer, the manager and the writer interleave there.

**RecordSchedule.** Two days of four seconds, three tables (unused, different by day, always).
Alarms, changes of tables and the clock in every order. Days and seconds are only compared, and
the tables have an open, a closed and a boundary second on each side of midnight.

**RecordBuffers.** Two channels (one paused in time, one not), two upgrades that fail, two events
that make others pause or resume (two are needed for a disk that fills and has space again).
`VideoRingsReturn`: whichever channels the release skipped and whoever else sends commands, every
ring is there after the failure. `RecordingHasRing`: a channel that may record has its ring, unless
somebody other than the upgrading thread has resumed it; others may pause it, and may resume its
neighbour. The exception is needed: the code lets a change of settings, a disk that is plugged in or
a full disk with space again resume a channel in the middle of an upgrade, its ring freed (section 6).

**PartitionIndex.** Two channels, two containers of two segments, four recordings, two crashes (and
any number while a copy is rebuilt). Two containers for two channels is the tightest disk that the
assumption allows: both are current at once, each becomes full, the ring wraps, a channel records
over the other's and over its own, and the first recording of a container can be lost while the
second stays. With two crashes the second may meet the copy that the first left behind. `OneOwner`:
no two channels record into one container, none is recorded over while it is current, none is
forgotten, in memory and on every copy that a restart may take. `KeptIsFound`: what an update has
returned for is found, under its channel, until the disk is full. `ShownUnderItsChannel`: no
recording shows as that of another channel, but for one window that the property names: covering
writes the header first and blanks the first segment after it, and a crash in between leaves the old
recordings under the new channel. `OldestGoesFirst`: covering never takes a newer recording of a
channel before an older one.

**Playback.** Two users and three channels: one with recordings at seconds 1 and 22 and a gap
between them, long enough for sections of two seconds; one whose recording of 1 to 4 has another
inside it and one after it that cannot be opened, as a clock that was set back leaves them; one that
has none. Two channels fill the widest layout, so that a search of all three is one for too many.
Four commands, each from its own set (`MCAsked`): a play by time or by file, something that turns or
seeks, something to go on or stop, and one more; so that every command meets every state of the
control thread and of the channels, and a second playback starts from what the first left behind.
`Jump` and `Late` are one second (`JUMP_TIME` is 1.2, whole seconds are all the model tells apart).
`OneExchange`: an answer is never taken for that of another round. `ThreadsFollow`: between rounds
every channel is in the state and direction the control thread believes, although a step turns the
channels behind its back, and an idle one has a file open only after a search for too many channels.
`OpenFileIsListed`: the frame loop never reads outside its list. `JumpSkipsNothing`: a leap of the
reference time passes over no frame that any channel has still to show of the recording it plays,
and of no later one where its recordings lie apart (where they overlap it may: section 6).
`Answered`: every caller gets its answer, except for that search, which never does (section 6).
`RunEnds`: a playback ends.

**SnapRecord.** All three causes, two channels, two containers of three places of which the code
uses two, a ring of one, `PicInfoBuf` of three entries, six pictures. So a container becomes full,
the index is emptied and begun again, a container is reopened with pictures in it, and the buffer
passes half. At most two stops, one fault and one crash, and two of these (`MaxTroubles`), in any
order and at any point: a stop by one cause can fall into a stop by another, a crash can meet what
a failing write left behind. More than two together are left to the proofs, which cover any number
for `IndexedIsStored`, `IndexedStays` and `StoppedMeansClosed`. `IndexedIsStored`: what a search
shows is whole in its container, and its channel's bit leads to it, after any fault or crash.
`IndexedStays`: what it shows it goes on showing, under the same entry: no later picture is numbered
into it. `NothingLost`: without fault and crash no picture written is missing from both index and
buffer, however containers change and the thread is stopped. `StoppedMeansClosed`: whoever has
stopped the thread and was heard finds its container closed, although others stop and start it too,
and of containers that nothing holds any more not more open than writes have failed; without a
fault, none. The recorder starts with a disk or without one.
`TypeOK` has in it that neither the buffer nor a container takes more than fits, which the code
does not look at when it appends. `SnapshotsResume`: when nobody holds the thread and there is a disk,
it comes to run, or somebody stops it or takes the disk away again.

## 4. Fairness

- `Recorder`: weak fairness of the manager and the writer, whose loops end with the process
  only, and of a producer that has accepted a frame, which runs to its return. Nothing makes
  frames or commands come. Strong fairness of `DrainEnds`: the writer leaves a ring when it
  finds it drained to the mark; a producer could refill it every time. The writer copies frames
  into the cache of a file, much faster than 25 or 30 frames a second, so this does not go on
  for ever.
- `FrameBuf`: weak fairness of a producer that has a frame. The lock is only ever held over the
  trim loop, and whoever holds it is itself fair.
- `LoopBuf`: weak fairness of the reader and of each writer that has begun a message. A writer
  blocks on a mutex held over a copy, and the reader's thread never ends.
- `Playback`: weak fairness of the control thread, of each channel thread and of a user that has
  called, which only has to wake up. The threads loop until the program ends. Nothing makes a
  user call, or call again. `Answer` is a step of the control thread that waits for a channel,
  and a channel between two frames always comes back to its messages: so no strong fairness is
  needed.
- `SnapRecord`: weak fairness of the thread of the snapshots, whose loop ends with the process
  only. Callers need not start it again, and pictures need not come.

`CircleBuf`, `RecordSchedule`, `RecordBuffers` and `PartitionIndex` check safety only.

## 5. What is proved

| Theorem | Says |
|---|---|
| `FrameBufProofs!RingSound` | `RingSpec => [](RingTypeOK /\ Consistent)` |
| `FrameBufProofs!EndsMoveOnly` | `RingSpec => OnlyTheEndsMove` |
| `FrameBufProofs!TypeCorrect` | `Spec => []TypeOK` |
| `FrameBufProofs!FramesStayWhole` | `Spec => []Framed` |
| `FrameBufProofs!ImplementsFifo` | `Spec => ImplementsFrameFifo` |
| `LoopBufProofs!TypeCorrect` | `Spec => []TypeOK` |
| `LoopBufProofs!RingAccountedAlways` | `Spec => []RingAccounted` |
| `LoopBufProofs!ImplementsQueue` | `Spec => ImplementsMessageFifo` |
| `RecorderProofs!TypeCorrect` | `Spec => []TypeOK` |
| `RecorderProofs!WriterIsSignalled` | `Spec => []MessagesAreSignalled` |
| `RecorderProofs!ForcedFilesStayClosed` | `Spec => []ForcedMeansClosed` |
| `RecorderProofs!PausesAgree` | `Spec => []PauseAgreement` |
| `RecorderProofs!TransitionsTold` | `Spec => TransitionsAreTold` |
| `RecorderProofs!FlagsHaveMessages` | `Spec => []FlagHasMessage`, where nothing pauses |
| `RecordScheduleProofs!TypeCorrect` | `Spec => []TypeOK` |
| `RecordScheduleProofs!ScheduleSound` | `Spec => [](AlarmsAreBooked /\ StatusIsDue)` |
| `RecordBuffersProofs!RingsReturn` | `Spec => []VideoRingsReturn` |
| `RecordBuffersProofs!RingWhileRecording` | `Spec => []RecordingHasRing` |
| `PartitionIndexProofs!TypeCorrect` | `Spec => []TypeOK` |
| `PartitionIndexProofs!OneOwnerAlways` | `Spec => []OneOwner` |
| `PartitionIndexProofs!ValidCopyAlways` | `Spec => []AlwaysAValidCopy` |
| `PartitionIndexProofs!KeptIsFoundAlways` | `Spec => []KeptIsFound` |
| `PartitionIndexProofs!ShownUnderItsChannelAlways` | `Spec => []ShownUnderItsChannel` |
| `PartitionIndexProofs!OldestGoesFirstAlways` | `Spec => []OldestGoesFirst` |
| `PlaybackProofs!TypeCorrect` | `Spec => []TypeOK` |
| `PlaybackProofs!OneExchangeAlways` | `Spec => []OneExchange` |
| `PlaybackProofs!ThreadsFollowAlways` | `Spec => []ThreadsFollow` |
| `PlaybackProofs!OpenFileIsListedAlways` | `Spec => []OpenFileIsListed` |
| `PlaybackProofs!JumpSkips` | `Spec => JumpSkipsNothing` |
| `SnapRecordProofs!TypeCorrect` | `Spec => []TypeOK` |
| `SnapRecordProofs!StoppedMeansClosedAlways` | `Spec => []StoppedMeansClosed` |
| `SnapRecordProofs!IndexedIsStoredAlways` | `Spec => []IndexedIsStored` |
| `SnapRecordProofs!IndexedStaysAlways` | `Spec => IndexedStays` |
| `SnapRecordProofs!NothingLostAlways` | `Spec => []NothingLost` |

They hold for every value of the constants that meets the named `ASSUME` of its module
(`LengthAssumption`, `FrameAssumption`, `LoopAssumption`, `RecorderAssumption`, `ProducerAssumption`,
`ScheduleAssumption`, `BuffersAssumption`, `IndexAssumption`, `SnapAssumption`; `RecordedAssumption`, `NumChanAssumption`, `BoundsAssumption`,
`AskedAssumption` and `UsersAssumption` of `Playback`); TLC evaluates those in the runs. One has
a hypothesis more: `FlagsHaveMessages` is about a recorder that nothing pauses (`NothingPauses`, as in
`RecorderDrain.cfg`), since a pause does break it, which is section 6.

Two assumptions of `Playback` say what a search of the index returns and not what somebody may ask
for: the recordings of a channel are sorted by their start, and the frames of one lie inside it and in
order (`RecordedAssumption`); a file that is played was found (`AskedAssumption`). Recordings may
overlap, have any number, length and place, and be unreadable, and any number of channels may be asked
for; what `JumpSkips` says less of recordings that overlap is in the property (`Apart`), not in an
assumption.

**The byte ring.** `TypeOK` alone is not inductive: that `nReadOffset` stays in range after a
read is taken back needs that the former offset does, and that `nLenUsed` does needs that it
agrees with the offsets. `Sound` joins both; one lemma per function of `circlebuf.c` shows that it
keeps `Sound`, from lemmas on `Advance` and `Ahead`. Wrap-around is a comparison in the code
(and in `Advance`), so no modulus enters the arithmetic. `OnlyTheEndsMove` compares what waits
before and after a call. By `Sound`, what waits is a function on `1 .. used` (`ContentAt`), and one
lemma per function says which end of it changes (`EndsMove`): a write fills cells in which nothing
waits, and the others move an offset.

**The frame queue.** `Framed` looks at neighbouring cells and is not inductive: it does not say that
the length read from a header is that of the frame whose cells follow. The invariant is that some
queue `q` of frames lies end to end in what waits: `Chain(b, q, pos)`, with a witness `pos` for where
each frame ends, next to `Sound`. It is carried over the calls of `record.c` one by one: two writes
that fit append a frame (`AppendHolds`), a header taken back leaves the bytes that wait as they were
(`UndoWaits`), and `q` depends on these only (`SameWaiting`). By `HeadIs` the length that a read or a
skip goes by is that of the first frame, so that its second call never fails and `Tail(q)` is left
(`TakesFrame`); from an empty ring both take nothing and wipe it (`TakesNothing`). That the path
back from a failed second read is never taken is a consequence of this, not an assumption.
A cell has a place in exactly one frame (`Located`, by the least end that is not before it). From
this follow `Framed` (`ChainWhole`), and that the cells which begin a frame are as many as the
frames and in their order (`HeadsCount`, `NthHead`, by a bijection), so that `FramesOf` gives `q` and
nothing else. A step of a thread makes at most one call (`OneCall`), and each call is a step of
`FrameFifo` or leaves the queue as it is (`CallMovesQueue`). Of the threads only `Threads` is needed:
whoever is past `Offer` has a frame, and `lock` names the producer that trims.

**The message ring.** `RingAccounted` needs to know what is reserved and not yet put in, and where
the messages lie. `Threads` counts: the writers that have taken `wsem` and the reader that owes a
post make up what the semaphores are short of, by the cardinality theorems for the set of writers at
a place (`CountMoves`). `Laid` says that the messages in flight lie one behind the other from
`used_pos` on, jumps included (`Chain`, with a witness for where each begins), that the last ends
where the free units begin, and that a slot which is reserved fits the free units. Together they are
`IInv`. For the refinement, `Written` says that the units of a message that was copied and not yet
put in hold it. That a writer's copy leaves those in flight alone follows from distances: a unit has
one distance from `used_pos`, before or after the end of the memory (`OneDistance`), and what is
reserved is farther than every message in flight (`Apart`). The unit behind it, which an audio frame
may touch, is farther too, or, when nothing is left free, it is at `used_pos` again and in no message
but the oldest (`ApartFromLater`). So each step of the ring is a step of `MessageFifo`, leaves its
queue as it is, or is `SpillsOver`.

**The writer's semaphore.** Behind the queue is a semaphore only by what its senders owe it:
`MessagesAreSignalled` counts the threads between the write and the `sem_post` (`Owed`), so each
write adds to both sides and each post moves one from one side to the other. `QueueInv` adds the
types of the queue and of the threads' places; that the number of `Posters` grows and falls by one
with a producer's step is a matter of the cardinality theorems (`ProducerAssumption`: there are
finitely many). The writer's wait lowers the semaphore and takes a message in the same step of the
model, and while it polls it only lowers it when it is ahead.

**Forced files.** `ForcedMeansClosed` is not inductive: a step of draining may open the file of
`wmsg`, and nothing in the property says that the writer does not drain a forced channel for a
`READ_BUF`. The strengthening `ReadsUnforced` says so: the writer serves a `READ_BUF`
only for a channel that is not forced, since `Heeds` drops it otherwise. Any other draining
message closes the file before the writer goes on. `FileInv` joins the types, this and the property.

**Pauses.** `PauseAgreement` is about the last word of the queue on a channel (`LastWordIs`). Only
the manager appends such words, and taking a message moves the word from the queue to `forced` and
changes nothing (`ToldToPause` before and after). What is to be added is that, between `RESUME_REC`
and the clearing of `g_ChnPaused`, the writer has not been told to pause (`PauseInv`).
`TransitionsAreTold` follows from the types: in each case of `UpdateRecStatus` what is
handed over is that of the transition, and the end of a delay comes behind `DELAY_IDLE`. `FlagHasMessage` holds where no pause, no format and no full disk comes: then no
channel is ever forced and no message dropped (`NeverPaused`), so that a `READ_BUF` stays where it is
until it is served.

**The schedule.** `StatusIsDue` needs `AlarmsAreBooked`: that the alarms which are on are those
in one of the code's two books, and that the channel records for those in the first. `IInv`
joins both with the types of the books. The actions move an alarm from one book to the other,
add it to one or take it out of both; after `Timer` the first holds exactly what is on and open.

**The index.** `OneOwner` speaks of the copies as they are, and whether the next write leaves them
owned depends on what is still to be written. The invariant `IInv` says of each copy that the writes
it waits for (`Pending`: copy 1 is one ahead while `half`) lead it, through owned states only, to
the ring in memory and to a header with the same slots in use (`Leads`): a new ring entry lies
outside the slots that the copy's header counts, and a header that counts it comes after it. That
order is what the mutant `SwitchHeaderFirst` breaks. A container can be added to the ring only if
the ring is not full, and taken from it only if it is not empty: both are a matter of counting
(`Counted`: the full containers and those of the channels are all that were ever used), with the
cardinality theorems for the set of channels that hold one. One lemma per action shows that it keeps
`IInv`.

The other three stand on `IInv` and on one another. `KeptIsFound` speaks of what an update has
returned for, so `KInv` follows a recording from its update on: while the writes of the update are
made they bring it to its position, on both copies, and to headers that show it (`Promising`);
afterwards both copies hold it there, memory and every copy that is valid show it, and no write to
come touches the position (`Keeping`). Covering is the exception: it takes the oldest container, and
what was there is no longer kept. `ShownUnderItsChannel` needs the same in the other direction: what
a header shows of a container belongs to its channel. In memory that is so but for a position about
to be blanked (`FairMemory`), on a copy and in every header to come but for containers that a crash
has left between the two writes (`FairDisk`, `exposed`), and no copy ever shows more than memory
(`Below`), so that a restart brings nothing back. This is `SInv`. `OldestGoesFirst` compares numbers,
so `OInv` ties them to places: a recording has one position (`Numbered`, `Placed`), and of two
recordings of a channel whose containers come one after the other in the ring (`Before`), the first
has the lower number, by memory, by each copy and by each header to come (`InOrder`). Since a new
recording gets the highest number and the last container (`Newer`), and covering takes the container
at the front, the order holds also when a crash takes the index back by an operation.

**The rings.** That a ring is back after an upgrade rests on the note the code keeps of it: `Noted`
says that a ring is missing only where `released` records that `ModRecordBufRelease` took it, and
that the loop of `create` has passed no missing one. A channel could be recorded without its ring if
it were resumed before: `Safe(c)` says that the upgrading thread does not do that. Until the first
upgrade has released the snapshots' ring, and from then on while an upgrade waits, frees or has not
made every ring again (`Early`), no resume of such a channel is in the queue, and if it is paused its
`flag_pause` is set; so whatever the manager serves meanwhile leaves it paused. `Known` says that
whoever still has a resume to send is counted among the others.

**Playback.** `ThreadsFollow` speaks of the time between rounds only. In a round the control thread
tells the channels one after the other, each waiting for its answer, and its own state changes
before, in or after the round, by the command. `Informed(c)` says which side of it a channel is on,
and `Fit` what a channel's record must be before and after it is told: playing or idle, the file
closed, the direction. The invariant `IInv` joins `Fit` for every channel with `Exchanged` (who may
be between question and answer), `Managed` (what the control thread keeps) and `Lists` (the lengths
of the lists are naturals, and a list is empty exactly when its length is 0: what the arithmetic on
positions needs to know of sequences). An idle channel's file is closed unless a search was refused
(`Refused`): then it is one of the list that the same search finds again. A channel's record may have more fields than `Fit` speaks of:
the frame positions play no part. The lists have any length, so the least and greatest elements that
the positioning takes exist by the well-foundedness of `<` on Nat (`MinExists`, `MaxExists`).

For the types and for `JumpSkipsNothing` the frame positions do play a part, and `FullInv` adds them:
what the holder of the lock has under way (`Commands`), what the lists hold (`Listing`), where each
channel is in its file and that its buffer holds the frame it has read last (`AllPlaced`), and the
bounds of the reference time and of the answers in a round (`Clock`). A leap is decided by the
answers of all channels, given while the others go on playing. `Heard` says what an answer `b` is
worth until the round ends: the channel has nothing more to play, or holds a frame that is not due
and no nearer than `b`, or `b` is reached already and no leap follows. A nearer answer is worth as
much (`WaitsNearer`), and the frames of one recording, like those of recordings that lie apart, are in
the order of their times, so none is before the frame that a channel holds. That a section found by
dividing is a time of the search (`SectionFacts`) is what keeps the reference time in its bounds after
a jump by sections.

**The snapshots.** `StoppedMeansClosed` rests on what the queue says of each cause. The callers know
`asked`, the thread knows `flags`, and between them are messages of several callers. `IInv` (in
`SnapRecordProofs`) says that the two agree: for every cause that is asked, the last message about
it, or its flag where there is none, is a stop (`StopArrives`); and a message to start follows a
stop by the same cause (`StartFollowsStop`), so that the thread never hears one while it runs.
`Between` and `Turn` say where in a turn a flag may be set and the container open. A stop that is
heard closes it in the same turn, and a container is opened only when none is open, so that one is
lost hold of by a write that fails and in no other way (`Leaks`).

`IndexedIsStored` and `IndexedStays` share the invariant `JInv`. What a
failure or a crash cuts off must lie above what a search shows, so `JInv` follows every picture on
its way: the entries in `PicInfoBuf` continue the index of the open container without a gap, and
their pictures are those not yet synced (`Aligned`, `Held`); the index is written only when there is
nothing left to sync, and the file entry, which makes pictures visible, after the entries of the
pictures (`Synchronised`). `Course` says when a container is open, `Indexed` is the property itself
for every container, and `cur <= dcur` that memory is never ahead of the disk, so that a search,
which stops at the current container, shows no less after a crash.

Both are about an index that could be emptied whenever it was used up, but once (`undone <= 1`):
the code goes on with an index that could not be (`diskmanage.c:713`), each time numbers one picture
more into a container than there are entries for it, and from the second time on overwrites the
first entry of the next container. `TypeOK` states its bounds for any number of such failures:
`Filled` says which containers have a place free, and `Roomy` that `PicInfoBuf` is at most half full
whenever a picture may be stored, which is what the flush at half guarantees. These and `JInv` are
`KInv`. `NothingLost` needs in addition that, while nothing fails, `PicInfoBuf` holds entries only in
the middle of the thread's work and is emptied only when its entries are in the index (`Covered`).

Only checked by TLC:

All liveness: `EveryFrameIsDealtWith`, `EveryMessageIsSent`, `SavingStarts`, `DiskIsFollowed`,
`Answered`, `RunEnds`, `SnapshotsResume`. `ENABLED`, and with it fairness, is
beyond the provers. Every other property of a passing run is proved, one of them with the hypothesis
above.

## 6. Where the code disagrees with what it says

- `RecorderStall.cfg`, `SavingStarts`. `FORCE_END` is sent before `g_ChnPaused` is set, so a
  frame may still ask for a read; the writer drops that `READ_BUF` because the channel is forced
  (`record.c:2164`) and the flag stays set. After the resume nothing asks again: the ring fills,
  is reset, fills. Any change of a setting while recording sends both messages.

The models reach the following as well, for which no run is kept:

- A user who sets the clock back leaves recordings of one time, one inside the other. A channel that
  goes on to the next recording starts it at its first frame, and the author notes that it should be
  sought to the time reached (`playback.c:2957`). The leap does not know of it either: a channel that
  holds the frame of second 4 of one recording answers 4, although the next in its list is of second 2,
  and the reference time leaps there. Without `Apart` the run finds it. The frames are late then, and
  dropped.
- A search that finds something on more than 24 channels opens their files, prints a message and
  goes on without an answer (`playback.c:1566`): the command stays, is searched for again in every
  turn, and its caller holds the manager's lock for ever (`TooManyChannels`). `Answered` leaves out
  that command and no other.

- A channel thread that hears `EM_CHN_SEEK` while it changes from one file to the next goes on
  reading at the new place with the reference time of before the seek (`playback.c:2537`), until
  the next `EM_CHN_UPDATEPTS`. After a seek back every frame there is more than a second old by
  that time, and is dropped, where the test below it is to drop frames of more than one second ago
  (`playback.c:2810`). A playback of two recordings that is sought to its beginning at the moment
  its first file ends does not show it.
- A write of a picture that fails sets the status to `TypeRecSnapRst`, and with the end of the
  turn `pre_status` as well. The reset then flushes only if `pre_status` is `TypeRecSnapRun`
  (`record.c:3950`), which it is not any more; so the pictures written since the last flush stay
  outside the index. The policy above the thread says that it flushes whenever the status changes
  and was `TypeRecSnapRun` before (`record.c:3494`). `NothingLost` is therefore stated for runs
  without faults.
- `GetNewSnapFile` leaves the container open that it cannot enter as begun (`record.c:3190`), where
  it closes it after a `fseek` that fails (`record.c:3205`). Nothing closes it later. A format that
  follows stops the thread, finds the disk busy at `umount_user` and gives up (`format.c:296`).
  `StoppedMeansClosed` therefore counts what was left open so.
- A thread of the snapshots that is stopped before its first container passes a pointer that was
  never set to `fclose` (`record.c:3933`). `WildClose` has the recorder go down.
- `GetNewSnapFile` says of a current container that was written full, "finfo.status == 2, impossible"
  (`record.c:3174`), and goes on with it. It is possible: when every container is used up and the
  write that empties the index fails, `get_pic_rec_partition` does not look at the result
  (`diskmanage.c:713`) and returns the partition, whose header in memory starts anew while the old
  entries stay. The bounds of `TypeOK` in `SnapRecord` count these failures (`undone`).
- `LoopBuf` does not implement `MessageFifo` without `SpillsOver`: three messages, one of them audio,
  are enough. For audio, `NetCommSendPreviewFrame` copies `nDataLen` bytes behind the header,
  and `nDataLen` has the header in it (`netcomm.c:746`, `:753`); one header more than was
  reserved. The copy for video carries the correction in a comment (`netcomm.c:858`). The
  surplus damages the message behind it in the ring, which is the oldest, and only when no unit is free
  between them. The units of the model abstract from how much
  room the last unit of a message has to spare: the damage happens when that is less than a
  header.
- For alarms the stop second counts, so that an unused segment 00:00:00-00:00:00 records for one
  second at midnight (`record.c:1132`); the comment on the timer's comparison gives this as the
  reason not to (`record.c:1074`). `StatusIsDue` of `RecordSchedule` takes each comparison as it
  is.
- During an upgrade `ConfigSetRecPara`, `BizReloadHdd` and the writer may resume a channel whose ring
  is freed (`biz_config.c:2953`, `biz_manager.c:570`, `record.c:2919`); its next frame is written
  through a null address. `RecordBuffers` reaches this when `RecordingHasRing` is stated of every
  channel. No text of the repository says that it does not happen.
- `ModRecordBufResume` creates the video rings and not the ring of the snapshots
  (`record.c:5092`), which its header says it restores (`mod_record.h:142`): `snapRing` never
  becomes true again. A second release finds no snapshot ring and returns without releasing.
  This hides something: were the ring created, the second upgrade could see a channel as paused
  by the first, whose resume is still in the queue, and free a ring that is about to be used.

## 7. What the models leave out

- The two queues of the recorder hold 4096 messages and are taken as unbounded; `malloc`,
  `sem_init` and thread creation succeed.
- The causes up to `0x03` are one cause, those above another: only this distinction steers
  the delay. The label of a file by cause (`rec_file_type`) waits for `custommp4`.
- Frames in `Recorder` have one size; that sizes and wrap-around are handled is the subject of
  `FrameBuf`. Which suffix of a pre-recording stays is a choice in `Recorder`, the rule is in
  `FrameBuf`. Opening, writing and closing a file in `DrainFrame` may each fail.
- Real time: polls and sleeps are a choice of when they end. That five seconds separate
  `g_ChnPaused` from the freeing of a ring that the writer may still drain (`record.c:5063`)
  cannot be expressed, and is listed as a hazard without a property.
- Schedules are those the product sends: all seven days set (`nValue` `0x7f`), by week or the
  same every day.
- `readMsgQ`, `writeMsgQ` and `destroyMsgQ` of the message ring, which other paths use.
- `PartitionIndex` leaves out the times and positions of segments (when a container has no more
  room is a choice), disks with several partitions, and deletion.
  A partition with fewer containers than channels is excluded by `IndexAssumption`: there the
  code takes the head of an empty ring. Writes that the disk reorders in spite of `fsync`, and a
  torn entry of 16 or 32 bytes, are not modelled.
- `Playback` has key frames only, one a second, and one step of the reference time per round:
  rates, the decoder, zoom, mute and progress reports do not steer what is shown when. A search
  does not clip the first and last recording to the times asked for. `EM_CHN_PAUSE` is never sent. The word of a command is written after its
  arguments without a barrier (`playback.c:178`); the model has them in one step.
- `SnapRecord` has one partition and pictures of one length: positions are counted in pictures, and
  a container is full by their number, never by their bytes. A picture that fits neither the ring
  nor the buffer of the thread, and the errors of `fileflush`, which the code ignores, are left out.
  The backup copy of the index appears only as a write that fails after it has had its effect. That
  three and ten seconds of sleep are enough for the thread to hear a stop is assumed (`Heard`). What
  else a wild pointer handed to `fclose` may do than nothing or end the program is left out. The
  pictures recorded in advance (`ModRecordPreSnap`) have two containers and a bookkeeping of their
  own; `StoppedMeansClosed` says nothing of these two, which `ModRecordPreSnapFromFile` opens again
  when it is called while the thread is stopped (`record.c:5247`). Seen while reading and outside
  the model: when all containers are used up a search looks into one more
  (`partitionindex.c:2028`).
- Hazards without a property are in `PROJECT.json` with the reason. Some are behaviours no text of
  the repository speaks about (whose pause has precedence, the user's or the full disk's), the
  rest wait for modules of the plan.

## 8. Plan

1. Done: `CircleBuf`, `FrameBuf`, `Recorder`, `RecordSchedule`, `RecordBuffers`, `LoopBuf`,
   `PartitionIndex`, `Playback`, `SnapRecord`.
2. The pictures recorded in advance, on `SnapRecord`: the last two containers in turn, and how their
   pictures come into the others when an alarm begins.
3. `MediaFile`: a pre-allocated file with its frame index; then the label and lifetime of a
   file in `Recorder`, and the index's deletion.
4. `RemotePreview` on `LoopBuf`: sessions and links of `ModNet`, their closing and time-outs.
5. `Alarm`: detection, arming tables and linkage, composed with `RecordSchedule`.
6. `UserLogin`, `LogRing`, `CtrlSession`, `RtspSession`, camera reconnection.
7. Proofs of what these add; that the number of frames in a ring of `Recorder` is the length of the
   queue of `FrameFifo`, as a second refinement mapping.
