# A TLA+ model of the AS-DT1 ROS 2 driver

The driver connects ROS 2 to the Sony AS-DT1 depth sensor. It talks to the
sensor over a USB serial port (commands, IMU samples and, with `output_format`
XYZ, point clouds) and over a V4L2 capture node (point clouds with
`output_format` XYZITR). A second node combines the clouds of several sensors.
Paths below are relative to `src/src/asdt1_driver/`.

## 1. The system

| Part | State | Operations | Hard behaviour |
| --- | --- | --- | --- |
| `dt1_device` (`src/device/dt1_device.cpp`) | `_running`, `_serial`, `_serial_thread`, `_mode`, `_sync_mode` | `start`, `stop`, `reboot`, `set_*`, destructor; `run` on its own thread | one atomic flag is the only synchronisation; the port may be lost at any command; replies are misread during a stop |
| `dt1_device_cdc` | frame buffers | `process_serial_data`, `start_impl` | a frame may be abandoned half-way |
| `dt1_device_hist` | `_v4l2_thread`, `_fd`, `_buffers`, `_clock_offset` | `run_v4l2`, `process_serial_data`, `start_impl`, `stop_impl` | two threads that both clear `_running`; the capture node vanishes when the device is rebooted |
| `ASDT1_Driver` (`src/asdt1_driver_node.cpp`) | the device object, parameters | services `start_streaming`, `stop_streaming`, `reboot`; `on_parameters_set`; the publishing callbacks | calls come from the executor in any order; exceptions in a parameter callback are not caught |
| `PointCloudCombiner` | latest cloud and IMU sample of each camera, cached transforms | `on_point_cloud`, `on_imu` | lost messages, late transforms, cameras out of step |
| frame and IMU conversion, mode table | none | `unpack_imu_data`, `unpack_hist_frame`, `extract_first_peak` | bit layouts, unsigned wrap-around |
| calibration parser, licences | singleton with the YAML file | `init`, `get`, `get_calibration` | shared by all components of a process |
| serial library (`dependencies/serial`, in the repository) | `fd_`, `is_open_`, two mutexes, a timer for each call | `open`, `close`, `read`, `readline`, `write`, `flush`, `flushInput`, `flushOutput`, `setPort` | a non-blocking descriptor polled by several threads, short reads and writes, a tty that vanishes in the middle of a call |
| port enumeration (`list_ports_linux.cc`) | none | `list_ports` | the tty may change before it is opened |

The node owns one device object. The executor thread serves services and
parameters one after the other (one mutually exclusive callback group) and
calls `start`, `stop` and `reboot`, which join the device's threads. Those
threads call back into the node to announce a device and to publish. Node and
combiner are connected by topics and by TF.

What makes it correct: the executor and the threads never use `_serial`, the
thread objects or the descriptor at the same time; after a stop nothing is
published; what is published is complete and comes from a sensor in the
configuration asked for; the sensor is not left streaming; every call returns;
the search for a sensor succeeds eventually; a combined cloud consists of
clouds taken at the same time, in the same frame. Below and beside that: bytes
reach the reader in order and once, commands reach the device whole, no two
calls on the port block each other; a node is connected to the camera it was
given, uses that camera's calibration and publishes under its frame id; the
settings in the device are those the parameters show; points carry the right
ring and time in both formats, IMU samples the time at which they were taken.

## 2. Modules

| Module | Models |
| --- | --- |
| `Dt1Device` | the session protocol, common to both output formats, and the environment: device, cable, port names |
| `Dt1DeviceCdc` | extends it with the XYZ frame loop; the complete XYZ driver |
| `Dt1DeviceHist` | extends it with the V4L2 thread; the complete XYZITR driver |
| `StreamSession` | abstract: the session as a user of the driver sees it; `Dt1DeviceCdc` implements it |
| `SerialPort` | the serial library as built for Linux, with the kernel's buffers and the device as its environment |
| `ByteStream` | abstract: what the library promises about received bytes; `SerialPort` implements it |
| `Frames` | the mode table and the conversion of frames and IMU samples, as operators |
| `DriverNode` | extends it with driver nodes: parameters, calibration, choice of the camera, what is published |
| `PointCloudCombiner` | the combiner node |
| `MC...` | bounds, symmetry and the initial states for TLC |
| `Dt1DeviceProofs` | lemmas about the steps that both drivers have in common |
| `Dt1DeviceCdcProofs` | the theorems about the XYZ driver |
| `Dt1DeviceHistProofs` | the theorems about the XYZITR driver |
| `SerialPortProofs`, `SerialDataProofs` | the theorems about the serial library: its locks and descriptor; the bytes it moves |
| `DriverNodeProofs` | the theorems about the driver nodes |
| `PointCloudCombinerProofs` | the theorems about the combiner node |
| `NumberProofs` | lemmas: induction over numbers, and over the folds of the community modules |

Definitions named in a comment "Variant" are deliberately wrong versions of the
definition that follows them. They are used to make sure that each property
would notice that mistake.

### Dt1Device

`spc` is the program counter of `run()`, `mpc` that of the executor; each value
stands *before* the code that the action executes. `op` is the call that the
executor is in, which says where `stop()` returns to. `running` is `_running`.
`serial` is `"null"` (never connected), `"open"`, `"closed"`, or `"dead"`: open
on a device that left the bus, where every read and write throws.

| Actions | Code |
| --- | --- |
| `FindPort`, `Connect`, `StopIfStreaming`, `VerifyDeviceMode`, `GetDeviceInfo`, `FixStart` and `FixMode` (both are `WriteFlash`), `FixBoot` | the connection loop of `run()` |
| `AnnounceConnected`, `SetFlashDefaults`, `Arm`, `SkipFrames` | setup |
| `ReadPart`, `ReadImuHeader`, `ReadImuLines`, `Callback`, `Emit` | pieces of `process_serial_data` |
| `LoopExits`, `SerialThrows` | the tests of `_running`, the catch clauses |
| `WrapupThrows`, `WrapupSkipped`, `StopFsync`, `StopTrigger`, `AnnounceDisconnected`, `CloseSerial`, `ClearRunning` | after the try block |
| `CallStart` ... `Destroy` | services, parameters, destructor |
| `Start...`, `Stop...`, `Reboot...`, `SetMode`, `DtorJoins` | the bodies of those calls, cut at each access to shared state |

Retries that change nothing (no port found, port refused, a read that timed
out) are stuttering steps. The two tests of `_running` at a loop and behind it
are one step for the serial thread, since `start()` joins that thread before it
sets the flag again; for the V4L2 thread they are two steps, since there it
does not.

The device is reduced to what the protocol asks it: is its flash start mode the
expected one (`startOk`), is the sensor mode in its flash the wanted one
(`modeOk`), has it started from that flash (`boot`), is its firmware supported
(`fwOk`), what makes it stream now (`stream`: frame sync,
trigger input) and after a power-up (`flstream`). It may be unplugged, come
back under any port name, hang and recover; trigger pulses come and go. Sync
mode `none` behaves as `master`. `read_line_until` gives up once `_running` is
FALSE; the reply judged afterwards is then arbitrary, which is why
`VerifyDeviceMode` and `GetDeviceInfo` have a second outcome.

A flash setting and the reboot that puts it in force are two commands, and the
driver only ever asks for the flash. `boot` is `"current"` when the two agree,
`"written"` from a `WriteFlash` on until the device has started again, and
`"left"` for a device that an earlier process left between the two commands:
such a device is among the initial states.

`crashed` tells `std::terminate` in a thread or a destructor (`"terminate"`)
from an exception that leaves `on_parameters_set` (`"executor"`).

### Dt1DeviceHist

`vpc` is the program counter of `run_v4l2()`, `fd` the descriptor. `leaked`
says that a streaming descriptor was overwritten: the node then refuses to
stream until the device leaves the bus. `clock` says whether `_clock_offset`
belongs to the present boot of the device. `Common` lifts an action of
`Dt1Device`: when it makes the device leave the bus, descriptors are lost.

### StreamSession

Three variables: streaming is enabled, what the session is doing, whether a
message is being published. `Dt1DeviceCdc` maps them to `_running`, to the place
of the serial thread with `announced`, and to the callbacks. The specification
says that a session is announced at most once, that messages are published only
while it is connected and begin only while streaming is enabled, that it ends
with a call of `connect_cb`, and that the next one does not begin before. The
XYZITR driver does not implement it: its `stop()` may return early while a cloud is
being published.

### SerialPort

Each thread has a program counter, the call it is in, what it has read (`buf`)
or how much it has written (`put`), and whether its timer has run out. A step is
one system call with the computation that follows it: taking a lock, `::read`,
`pselect`, `::write`, `tcdrain`, `tcflush`. `handle` is `is_open_`, `fd_` and the
number of descriptors that nobody can close any more: `open()` leaves one when
`reconfigurePort` throws, and the constructor, which the driver calls every
second in `connect()`, then loses it. The driver's baud rate of 25E6 has no
constant, so the ioctls of a custom rate are made, which may fail.

`open()` and `close()` take no lock. With XYZ the driver has joined its thread
before it calls them (`SerialExclusive`); with XYZITR `stop()` may return early,
and `reboot()` then opens and closes the port while the serial thread is in a
call. In the model any thread that is in no call of its own may open and close the
port (`Opener`). `moved` marks the calls under which that happened: they go on
with whatever `fd_` is now, may have a gap, or throw. `FD_SET` of -1 is undefined;
it ends the process (`Abort`) or nothing is ever ready. Constructor and destructor
run when no call is in progress, as the driver replaces the object in the thread
that uses it, or after joining that thread.

Received bytes are numbered modulo `M`, so that a lost, repeated or swapped byte
shows; byte 0 ends a line. Written bytes are a thread and a place in its command;
`cut` notes that part of a command was given up (a timeout, a flush, a close),
after which the device is in step again once its input is used up.

### Frames and DriverNode

`Frames` has a row of `RowSize` dots where the sensor has 24; every table and
formula depends on the row alone. A dot is its error flag, its z and the z of the
high exposure; a time is the number of the bank it was read from. `UnpackImuData` computes in `Width` bits
as the code does in 64: unsigned frame times and stamps, a signed running time.
The running time is bounded by that width in the guard of `ReadImu`; in the code
it would take 292 years to leave it.

`DriverNode` reduces the session to four phases and keeps what goes on around
it: `param` is what the node reports and `device` what the `dt1_device` object
has, of which the frame rate is cast to an `int` of `IntWidth` bits (`ToInt`); `plugged` is what is on each tty, `port` and `cam` what a node uses; `calib`
is the singleton, loaded by the first node; `frame` is `_depth_frame_id` and `tf`
the static transforms. `SetParameters` is `on_parameters_set` on a whole list,
with the entries before a refused one applied, the `stop()` of a mode and the
`reboot()` at the end. `moved` notes that the tty changed between the search and
`open()`, `swapped` that it had done so for the present session, `mixed` that a
refused list was applied in part. `find_port` compares the beginning of the
serial number, so `Alike` says which cameras a search by a camera's number finds.
With XYZITR the clouds come from the camera whose media device was found
(`VideoOf`), and from the moment `_clock_offset` is set (`synced`) they come in
any phase of a session that is not stopped, before it is announced too. A frame id
in an entry of the calibration may be `Absent` or `Empty`: an empty one inside an
entry still overrides the one outside.

### PointCloudCombiner

A cloud is a stamp and the set of ring numbers of its points, which are stored
modulo `2^RingWidth` (a `uint16_t` in the code); a transform is the calibration it
comes from. One action per subscription callback, with
everything that the callback does, including the transforms it has cached when
it gives up at a later camera. `tree` is what TF knows. Each topic delivers in
order and may drop messages (best effort). `out` and `imuOut` hold what the
last step published.

## 3. Runs

| Run | Checks | Result |
| --- | --- | --- |
| `cdc_safety` | `TypeOK`, `SerialExclusive`, `StoppedIsQuiet`, `NoTornFrame`, `FrameAsRequested`, `NoOrphanStream`, `ImplementsSession` | hold (0.8 million states) |
| `cdc_live` | `CallsReturn`, `KeepsLooking` | hold |
| `hist` | `TypeOK`, `DescriptorInUse`, `JoinedStopIsQuiet`, `NoTornFrame`, `NoOrphanStream`, `SerialSessionEnds` | hold (0.8 million states) |
| `combiner` | `TypeOK`, `InStep`, `RingsApart`, `SameTransforms`, `StampsInOrder`, `CombinesWhenReady` | hold (1.1 million states) |
| `serial` | `TypeOK`, `LinesWhole`, `CommandsWhole`, `NoFalseDisconnect`, `StreamInOrder`, `CallsEnd` | hold (0.9 million states) |
| `node` | `TypeOK`, `WantedCamera`, `FrameOfOwnCamera`, `TransformOfCamera`, `SettingsAsReported`, `RowsAgree`, `TimeWithinBank`, `ImuTimesTrue` | hold (0.1 million states) |
| `cdc_terminate` | `NeverTerminates` | violated: start and stop alone can end the process |
| `cdc_search` | `SearchGoesOn` | violated: a mode parameter ends the search |
| `cdc_stale_port` | `KeepsLooking` | violated with two port names |
| `hist_restart` | `CallsReturn` | violated: `start()` joins a thread that it has just told to go on |
| `node_files` | `FrameOfOwnFile` | violated: a second node of the process uses the first one's calibration file |
| `node_times` | `TimeOfEveryDot` | violated: in the 20 m mode a low exposure dot may have the time of the high one |

The violated ones state what the user manual or a test of the repository says;
`PROJECT.json` quotes the line in each finding.

**What the runs say about the code besides.** Some properties hold only with an
exception that the code really makes; the property states it.

* `stop()` of the XYZITR driver returns at once when a thread that ended by itself
  has cleared `_running` (`dt1_device.cpp:158`). It then joins neither thread, and
  a cloud that has passed its own test of `_running` is published afterwards;
  `JoinedStopIsQuiet` is about a `stop()` that joins.
* A combined cloud has the newest stamp of its parts, which is what keeps stamps in
  order (`StampsInOrder`); the manual speaks of the first camera's stamp
  (`user_manual.md:325`).
* A device that a process left between `flmode` and `reboot` is taken for
  configured by the next one and streams in its old mode (`FrameAsRequested`).
* A call under which the port is closed or opened may have a gap, throw, or abort
  the process; no other call suffers from it (`StreamInOrder`,
  `NoFalseDisconnect`, `CommandsWhole`).
* A camera may be exchanged between `find_port` and `open()`; the hardware id
  that it then tells is not compared with the serial number, and a serial number
  that begins that of several cameras finds any of them (`WantedCamera`).
* `FrameOfOwnCamera` and `TransformOfCamera` are about a node whose own file the
  process has loaded; for the others see `node_files`.
* Without a serial number, an XYZITR node may take its clouds from one camera and
  its frame id and IMU samples from another (`FrameOfOwnCamera`). The same is
  possible with a serial number that begins that of another camera.
* Two cameras with calibrations but no frame ids share the default frame, and the
  transform there is that of the camera connected last (`TransformOfCamera`).
* A frame rate of 0 is accepted and shown, and not used; one beyond 32 bits is
  tested and used as an `int` and shown as it was given; a list of parameters
  that is refused leaves its first entries in the device (`SettingsAsReported`).
* `TimeWithinBank` says nothing about low exposure dots of the 20 m mode, see
  `node_times`.
* Rings of two cameras are the same if the rings of all cameras together are more
  than 65536 (`RingsApart`).
* `flush()` is `tcdrain`: it waits for the device without a timeout (`CallsEnd`).
  The inter-byte timeout only cuts the waits of a read, it never ends the read.
* A write may be short, which the driver does not look at (`CommandsWhole`).

**Bounds.** Nothing in the session models is counted, so all their state is
finite without a cap. Two port names tell "the same port" from "another port";
no action compares more. `cdc_safety` starts from every device configuration in
both sync modes, with symmetric port names. `cdc_live` has one port name
because `KeepsLooking` fails with two (`cdc_stale_port`), and starts from
supported devices whose flash does not stream. `hist` uses one port, sync mode
master and devices in the right start mode that started from their flash: what
the other devices add is the common part, which `cdc_safety` covers. `hist_restart`
takes the supported devices out of these. Sensor mode negotiation, with the reboot
that pulls the capture node away, is in. `cdc_terminate` takes a device that
needs no configuration and a user who only starts and stops. The combiner run
has three cameras, so that one between two others can be empty or left out, and
cloud stamps 0, 10, 25 and 35: in step, out of step by less than the tolerance
of 25 ms, exactly by it, and by more, with three cameras spread within it. IMU
stamps are in step or 11 ms apart, beyond their tolerance of 10 ms. A camera
delivers up to four clouds, and the two outer cameras have rings: none, or the
rings 0 and 2 of at most 8 (`RingWidth` is 3), so that the rings of two cameras
fit, that a gap between rings counts, and that those of three would not.

`serial` has two threads, reads and lines of two bytes (`ReadSize`, `MaxLine`) over
an input buffer of one (`InSize`), commands of two bytes (`Command`) over an output
buffer of one (`OutSize`), so that reads and writes are cut in pieces and have to
wait; bytes numbered modulo 2 (`M`), so that a line end is in every place and the
byte after it is another; one descriptor (`MaxFd`), so that the process runs out of
them at the first one that is left behind; and the driver's baud rate. Symmetry of
the threads is not used, since `CallsEnd` is a liveness property. Larger sizes are
the matter of the proofs, which have the safety properties for all of them.

`node` has two nodes, one XYZITR with a serial number and one XYZ without, two
cameras, another device, two ttys and two calibration files, with a camera that
is listed twice, one that is skipped and one whose frame id is empty. A search by
the number of the camera `b` finds `a` as well. Parameter lists have one or two
entries, valid and invalid, the invalid one in front or behind, and a rate that
an `int` of `IntWidth` 7 bits does not hold. Dots (`MCDots`) are on both sides of each threshold; rows have one dot
(`RowSize`), so that a bank still has two dots of different rows. Frames end
before their exposure time is over and after it (`MCEndTimes`), with a `Width`
of 9 bits that wraps; sample lists have no, one and two resets. The constraint
`Focus` keeps products out: parameter values with IMU data but for the mode, and
either of them with two nodes or with a second tty. A state outside of it is still
checked, but not followed.

**Fairness.** Weak fairness of each thread and of the executor once it serves a
call: the operating system schedules them, and none waits on a lock that
another could take again and again. Nothing forces a user to call, a cable to
be moved, or a device to hang. `KeepsLooking` and `CallsReturn` of the XYZ
driver also use `DeviceReturns`: a device that left the bus comes back and one
that does not answer answers eventually (the reboot of the negotiation relies
on it). `CallsReturn` and `SerialSessionEnds` are further conditional on the
device not staying mute, since `read_to_prompt` and `read_imu` wait for it
without a limit. `CallsEnd` of `SerialPort` assumes that the threads run and that
time passes, and is conditional on no new calls being made (a mutex is not fair,
so a thread may be overtaken for ever) and, for `flush()`, on the device taking
what was written, or being lost. Nothing is assumed about the device's data.

## 4. Proofs

`Dt1DeviceCdcProofs` proves six properties of the XYZ driver for every set of
port names and every set of sync modes, from `PortAssumption` (the empty name is
no port) and `SyncAssumption`. None of the properties is inductive; `IInv`
strengthens them:

* `TypeOK`, with the relation between `serial`, its port name and the device;
* `QuietInv`: `_running` is FALSE in every part of the executor that relies on
  the thread having ended. This carries `SerialExclusive` and `StoppedIsQuiet`;
  without it nothing rules out a `stop()` that returned early over a live thread;
* `TornInv`: a torn frame exists only in a thread that has been told to stop,
  and the flag cannot be set again before that thread has ended, so the guard
  of the callback is enough for `NoTornFrame`;
* `NegotiatedInv`: what each step of the negotiation has established, up to
  the announcement, for `FrameAsRequested`;
* `BootInv`: a device whose flash this driver has changed is about to be rebooted,
  off the bus, or held by a thread that has been told to stop and has closed the
  port, so that its wrap-up ends the process. Without it a device with new flash
  and old settings could get past the negotiation, which looks at the flash only;
* `StreamInv`: a device streaming on the driver's account has its port open, and
  a wrap-up that skips the commands has no such device, for `NoOrphanStream`.

Each part has a step lemma with one case per action. The theorems `TypeCorrect`,
`ExecutorOwnsSerial`, `StopLeavesNoThread`, `TornFramesDropped`,
`FramesAsRequested` and `SessionsEndSilent` follow from `Invariance`.

`ImplementsStreamSession` is the refinement, `Spec => ImplementsSession`. It adds
`AnnouncedInv` (a device is announced only between the two calls of `connect_cb`),
which decides the abstract session's phase. In `SessionStep` each
action is a step of `StreamSession` or leaves its variables alone; `QuietInv` is
what makes `start()` an `Enable` of a session that has ended, and `NegotiatedInv`
what makes a callback a `Publish` of a connected one.

`Dt1DeviceHistProofs` proves five properties of the XYZITR driver, from the same
assumptions. Its second thread clears `_running` at any time, so what the XYZ
proof says of the flag does not carry over; `IInv` has instead

* `DescriptorInv`: a v4l2 thread that has no descriptor got past the early return
  only because a `start()` set `_running` behind its back, and that `start()` is
  waiting for it (`DescriptorInUse`);
* `JoinInv`: a serial thread that is not joinable was joined by a `stop()` that
  joined the v4l2 thread before (`JoinedStopIsQuiet`);
* `FlagInv`: only `start()` sets `_running`, after joining the serial thread;
* `TornInv` and `StreamInv`: what the flag's being FALSE means for a torn frame
  and for a device that still streams (`NoTornFrame`, `NoOrphanStream`). A reboot
  may close the port of a live session here, but only with `_running` FALSE, so
  that the wrap-up throws and does not skip its commands.

`SerialPortProofs` is for any number of threads and any sizes of reads, lines,
commands, buffers and descriptor tables, from `SerialAssumption`. `HandleInv` says
what the constructor and a throwing `open()` leave, `LockInv` which locks a call
holds wherever it is (exactly those it has passed), `PollInv` what a call keeps
from one system call to the next: what select has seen is still there, read data
and a command in progress belong to the holder of the lock. All that
is said of calls under which nobody has opened or closed the port: `moved` makes
the exception. The theorem `DisconnectsAreReal` follows from all parts, since it is
the lock of a flush or a `setPort` that keeps the data there.

`SerialDataProofs` builds on that. `LineInv` says that a line end is looked at
before the next byte is read (`LinesAreWhole`). `CommandInv` orders everything on
its way to the device and says that a write in progress is at its end
(`CommandsAreWhole`). `ImplementsByteStream` proves the refinement, `Spec =>
StreamInOrder`: `GaplessInv` (what the reader holds and what the kernel holds
are, together, consecutive bytes, unless the port moved under the reader) makes
each step a step of `ByteStream` or a stutter.

`PointCloudCombinerProofs` is for any number of cameras and IMUs, any stamps, any
width of the ring numbers and any sets of rings of that width. `RingsStayApart`
has the premise that the rings of all clouds together fit that width (`RingsFit`):
a sum that does not is stored modulo the width, and rings may then meet. `IInv` adds to `TypeOK`, `InStep` and `RingsApart`
only `OrderInv`: the latest stamp is not later than some cloud still there, which
`StampsNeverDecrease` needs and nothing else says once `out` is gone. The work is
in the operators: maximum, ring offsets and image sets are finite constructions
of unknown length. `MaxOfNats`, `SumExists` and `SumGrows` show that the maximum
exists, that the recursive `RingOffset` is well defined, and that a later offset
counts all earlier rings in. `WidthAssumption` only says that a power of two is a
number, which the provers do not know. `NoneAssumption` says that "nothing" is no stamp, cloud,
combination or calibration; the code tells them apart by pointers and flags.

`DriverNodeProofs` is for any number of nodes, cameras and ttys, any calibration
files, launch parameters and lists of parameters, any size of the rows and
whatever the sensor measures. `IInv` has five parts:

* `SettingsInv`: of a node without a half-applied list, parameters and device
  agree (`SettingsAsReported`);
* `CalibInv`: the singleton, once a node exists, is one of the files, loaded, so
  every camera gets a frame that exists (`LoadedFrames`);
* `SessionInv`: a session that is up has the camera that is on its tty now, which is
  one that was asked for or `swapped` is set, and between the search and then the
  tty has such a camera or `moved` is set (`WantedCamera`);
* `FramesInv`: a session that is up has the frame of its camera, a node that may
  publish before the next session is announced (`synced`) that of the camera that
  was connected last, and the transform there is the pose of *some* camera with
  that frame. That it is the pose of its own camera is not invariant: a second camera with the same frame id overwrites
  it, which is the exception that `TransformOfCamera` makes;
* `ImuInv`: `_latest_imu_sample_ts` is in its range and, where it is positive, the
  true time of the last sample; where it is not, no sample is due before a reset.

`FrameOfOwnCamera` and `TransformOfCamera` follow in the step that publishes, from
`OwnFrame`. With XYZITR this is where the two searches, for the tty and for the
video node, have to have had the same camera, which needs a serial number that
only one camera's begins with. Both theorems compare with the node's own file and
have the premise that it is the one the process has loaded. The assumptions say that the
constants have their types, that the default frame is not the empty one, that a
node's file exists, that loading gives something else than the null of the
singleton, and that an `int` holds the valid frame rates (`IntAssumption`), so
that the cast leaves them alone (`SmallInts`).

What is published is right, too (`Converted`, in the steps that publish):

* `RowsInSameOrder`: `RowsPermuted` shows that `line_order` is a permutation with an
  inverse, in full and in half resolution, `Placed` and `LineAndDot` what division
  by an unknown row size gives, `BankPlaces` that the ring of a dot is the row that
  the XYZ format has at its place. `DotUnpacked` and `BankUnpacked` carry `Cloud`
  through both loops of `unpack_hist_frame`: the places are those of the mode, in
  ascending order, and below that of the dot (of the bank) that comes next.
* `TimesOfOwnBanks`: within a bank, `ts` is the bank's time or, in the 20 m mode, that
  of the high exposure (`BankVars`), and the latter when a dot has just been taken
  from there.
* `ImuStampsTrue`: `AfterSamples` says what the loop of `unpack_imu_data` has after k
  samples: before the first reset the running time goes on from the frame before,
  then from the time that the reset tells, and from the second reset on nothing
  more is taken. `OneSampleMore` shows that each turn leads to the next, `SamplesTrue`
  that the end is what `TrueTimes` asks for. `Widths` has the arithmetic: the
  unsigned time of a frame that began before the boot, plus a sample, taken as
  signed, is the plain sum. This needs `TimesAssumption`: frames end, and the host's
  clock is ahead, by less than half of the width. In the code that is 292 years; the
  host's clock counts from 1970.

`NumberProofs` has what these proofs need to speak of constructions of unknown
length without an operator as parameter. `Upward`: a set of numbers that has 0,
and with a number the next one, has all, because otherwise there is a smallest
number that it lacks (`Least`). `FoldExists`: a fold of the community modules,
which is the `CHOOSE` of a function over the subsets of a domain, exists for any
step function. `FoldStays`: what the step keeps holds of the fold's result;
`FoldGoes`: so does, with a set for each index, what each step leads to from what
the one before has led to. With these, `AddStays` and `ApplyStays` carry what one
entry of a calibration file and one parameter of a list does through the loops of
`load` and `on_parameters_set`, and `DotsGo`, `BanksGo` and `SamplesGo` what one dot,
one bank and one IMU sample does through those of `unpack_hist_frame` (one loop
inside of the other) and `unpack_imu_data`.

Some definitions were changed for the proofs. `Wanted` of `SerialPort` was a `CASE`
whose guards overlapped for calls that take both locks, so that TLA+ left open
which arm counts; it is an `IF` now, in the order in which the code locks. `TypeOK`
of `SerialPort` got named parts. `Load` of `DriverNode` is a fold over the entries,
one step for each turn of the loop, and `GetCalibration` the entry with the
smallest index; both were selections from sequences, which the provers do not know.
`ReadImu` got the bound of the running time: without it `TypeOK` is not inductive.
`TrueTimes` has the resets of a frame as the smallest elements of sets, and
`HistPoints` is a function of the mode and then of the dots.

Every invariant, action property and refinement of a passing run is a theorem. Only
model-checked are the liveness properties, whose fairness is out of the proof
system's reach: `CallsReturn`, `KeepsLooking`, `SerialSessionEnds` and `CallsEnd`. It
is also TLC that shows that the states the theorems speak of exist: every action
fires in the passing runs.

## 5. Not modelled

* The decoding of coordinates, heights, accelerations and covariances, and the
  layout of messages: no control depends on them but for z.
* Parent frames of the transforms; the description of a calibration; YAML syntax.
* Mode names are compared without regard to case; the model compares them as they
  are. Of serial numbers it has which ones a search finds, not the characters.
* A listing of ports during which sysfs changes: a file that vanished gives an
  empty description, as for a tty without a camera.
* Torn reads of non-atomic members (`_device_info`, `_depth_frame_id`).
* The licence texts, the version and device info services, which return text.
* Of the serial library: the setters of line parameters, break and modem lines,
  `readlines`, and `available()`, which only asks; the driver calls the last one
  of these alone. The sources for Windows and macOS are not part of the build.

The kernel, the cable and the device are modelled from how the code uses them.

## 6. Plan

The models and the proofs that were planned are there. What is left are the seven
hazards in PROJECT.json without a property, each with the reason: for six the
model has the behaviour and no text of the repository says what should happen, and
for the plain members that two threads share (`_device_info`) steps would have to
be finer than a call.
