# Verification of the T507 board drivers

TLA+ specifications, TLC configurations and TLAPS proofs for the drivers in
this repository: the HDF adapter of the XR829 Wi-Fi chip (`T507/wifi`) and the
audio drivers (`T507/audio`: audio hub, AC107 microphone converter, internal
codec, DMA). The rest of the repository is data (device tree, partition and
boot files), prebuilt packages and camera tables.

The code is C called from three sides: the HDF service thread (Wi-Fi
commands, audio stream operations, control writes), the receive thread of the
Wi-Fi driver (answers to authentication) and the Linux driver core (probe,
remove). It has no timers, no retries and no persistent state, and almost no
locks. What goes wrong in such code is ownership (who frees which buffer,
clock or supply on which path), records assembled from calls of different
clients, hardware state left half changed by a call that failed, and two
devices that have to agree. The properties are about these.

## Inventory

| component | state it keeps | operations | where |
|---|---|---|---|
| Wi-Fi station | `global_param`: frequency, BSSID, SSID, IE buffer, crypto settings of the latest Connect | Connect (`WalAuthenticate`), answer (`inform_auth_result` -> `WalAssociate`), `WalDisconnect`, `XrMac80211Init` | `hdf_mac80211.c` 62-83, 183-235, 312-323, 753-844, 1253-1273 |
| Wi-Fi scan | the scan request, handed to the driver | `WalStartScan`, `WalAbortScan` | 846-997 |
| Wi-Fi access point | `ap_setting_info`, `ap_ssid`, `ap_chan`, the mode of the net device | ConfigAp, StartAp, StopAp, ChangeBeacon, DelStation | 1013-1162 |
| Wi-Fi base operations | none | keys, power, address, capability, P2P | 349-747 |
| Wi-Fi net device, chip driver | `gp_hdf_netDev`, `save_kernel_net` | init, open, stop, xmit, chip Init and Deinit | `net_adpater.c`, `hdfinit_xr829.c`, `hdf_driver_register.c` |
| Audio hub (capture DAI) | hub registers, two clock rates | DeviceInit, HwParams, Trigger, probe, remove | `t507_dai_ahub_*.c` |
| AC107 | I2C registers, `ac107_regulator_en`, `g_ac107_i2c` | HwParams, Trigger, control write, probe, remove | `ac107_accessory_impl_linux.c` |
| Internal codec (render DAI) | codec registers, two clock rates, `g_KctrlRender` | HwParams, Trigger, SetCtrlOps, probe, remove | `t507_codec_*.c` |
| DMA platform | `g_prtd` (devices, channels, cookies); the buffer descriptions of `PlatformData` | DeviceInit, BufAlloc, BufFree, ConfigChannel, Submit, Pending, Pause, Resume, Pointer | `t507_dma_ops.c` |
| HDF driver entries | registrations | Bind, Init, Release | `*_adapter.c` |
| DSP | none | stubs | `dsp/src` |
| Camera, configuration, packages | - | - | `camera`, `config`, `system_hap`, `distributedhardware` |

How they interact:

- A Wi-Fi command calls the mac80211 operations of the chip driver
  (`xrmac_config_ops`) synchronously. The answer to `auth` arrives in the
  receive thread, which starts the association from `global_param`.
- A capture stream goes AC107 -> I2S -> hub -> FIFO -> DMA -> buffer. The
  hub's DAI operations call those of the AC107; the AC107 is registered as an
  accessory DAI too, so the framework may call its part a second time.
- A render stream goes buffer -> DMA -> codec FIFO -> line out. On a render
  stream the hub's operations do nothing, on a capture stream the codec's do
  nothing.
- Hub and codec take their clocks from the same audio PLL: clocks 0 and 1 of either
  device node are its outputs (both drivers call them pllaudio when they set a rate;
  the clock nodes themselves are in the kernel's device tree, not in this repository).

What makes each component correct, and what is hard about it:

- *Station*: an association is the request of one Connect, and as far as it can
  be the one that was answered; the buffer is neither leaked nor freed twice, and
  freed under the driver only by a later Connect. Hard: two threads, late and
  repeated answers, a failed allocation half-way through the record.
- *Scan, access point, net device*: frames and results find the device that is
  attached now; every piece of a request has one owner; what is on air is of one
  command. Hard: globals that outlive devices, refusals reported as success,
  settings kept but not passed on, commands of other clients in between, five
  functions that free only on some of their paths.
- *Capture*: after HwParams both ends agree on rate, frame and format; both
  are on or both are off. Hard: HwParams failing after a clock moved, any
  order of HwParams and triggers, an AC107 that loses its registers on stop.
- *Render*: the registers describe the last parameters accepted; output and
  volume follow trigger and controls. Hard: stages left behind by failed calls.
- *Card*: two streams on one PLL keep their rates; a stream whose parameters every
  component took has the same width in all of them. Hard: three components with different ideas of what is
  supported, asked one after the other.
- *DMA*: every buffer is freed once and not while a transfer is queued or in
  progress; each stream has a channel of its own; the pointer stays inside. Hard: the
  code trusts the framework's call order, checks no channel and waits for no transfer
  it terminates.
- *Probes*: a failing step releases what was acquired and no more. Hard: over
  twenty steps, six label ladders, a clock counted for two drivers.

## Modules

| module | models | instances and proofs |
|---|---|---|
| `WifiSta` | station side of `hdf_mac80211.c` | `MCWifiSta`, `WifiStaProofs` |
| `XrNetDev` | net device and chip driver | extended by `XrScan` |
| `XrScan` | scans and capabilities | extended by `WifiDevice` |
| `XrAp` | access point operations | extended by `WifiDevice` |
| `WifiDevice` | the three together, over several devices | `MCWifiDevice`, `WifiDeviceProofs` |
| `Ahub` | the hub's capture side | extended by `CapturePath` |
| `Ac107` | HwParams, Trigger and controls of the AC107 | extended by `CapturePath` |
| `CapturePath` | the DAI operations that drive hub and AC107 together | `MCCapturePath`, `CapturePathProofs` |
| `CodecDac` | the codec as render DAI, with its controls | `MCCodecDac`, `CodecDacProofs` |
| `AudioStream` | abstract: what a DAI promises about its stream | implemented by `CapturePath` and `CodecDac` |
| `AudioCard` | both streams over the shared PLL, with the DMA's width | `MCAudioCard`, `AudioCardProofs` |
| `AudioDma` | `t507_dma_ops.c`, against a dmaengine and the framework | `MCAudioDma`, `AudioDmaProofs` |
| `AudioProbe` | probe and remove of hub and codec | `MCAudioProbe`, `AudioProbeProofs` |
| `Ac107Probe` | probe and remove of the AC107 | `Ac107ProbeProofs` |

### WifiSta

Every Connect that passes the channel check gets a number. A field of
`global_param` (`gp`) holds the number of the Connect that wrote it, 0 if none
did; the IE buffer allocated by Connect *c* is buffer *c*. So "the record is of
one Connect" is an equation between numbers, and the contents of SSIDs and keys
do not appear.

| action | code |
|---|---|
| `XrMac80211Init` | 1253-1273 |
| `WalAuthenticate`, `WalAuthenticateNoMemory` | `WalAuthenticate` up to `auth()`, or to the failing `kzalloc` |
| `AuthReturns`, `AuthFails` | the end of `WalAuthenticate` |
| `AuthRefused` | `inform_auth_result`, status not 0 |
| `WalAssociate`, `WalAssociateIllegal` | `WalAssociate` up to `assoc()`, or the jump to `end` |
| `AssocReturns` | `WalAssociate` after `assoc()`: buffer freed, pointer cleared |
| `WalDisconnect` | 826-844 |
| `RegulatoryChange` | external: a channel is disabled or enabled |

A handler is cut where it calls the driver, and there the other thread may always
run. One unknown of the environment is a variable fixed in `Init`: `late` (may the
driver report a superseded Connect, or one answer twice?); only `AssocIsComplete`
needs it off. `channel`, a local that `WalAuthenticate` and `WalAssociate` read
unassigned when no frequency is given, is a nondeterministic choice over everything a
pointer can be: a channel of the wiphy, NULL, or `Wild`, which is none (`ChannelFor`).
Four history variables say what befell a Connect: its buffer was handed to `assoc()`
(`used`), its caller was told of a failure (`failed`), its association has come to an
end (`tried`), it was made while another association was running (`crossed`). Not
modelled: `memcpy_s` failing between structures of fixed size, a Connect before the
net device exists, and the interleaving of the straight-line parts of the handlers.

### XrNetDev, XrScan, XrAp, WifiDevice

`XrNetDev` numbers the NetDevices the framework allocates ("lives"). `net` is the
latest, `krn` and `gp` the lives the globals `save_kernel_net` and `gp_hdf_netDev`
point to, `drv` the life the chip driver is loaded for. `Xr829Init` ignores the
result of `xradio_init`, so the driver may not be loaded at all. `hdf_netdev_open`
is cut after `ndo_open` (`NdoOpen`, `OpenReturns`), because from there frames may
arrive while `gp_hdf_netDev` is still NULL or the previous, freed device: frames
inside that window are excluded from `FrameFindsDevice` by name.

`XrScan` counts memory. A block is a piece (request, SSIDs, elements, capability,
band, rates) of a numbered call; `held` is what the driver has, `caps` what the
framework has, `lost` what the error paths of `WalStartScan` before the call of
`scan()` leave allocated (`ScanRejected`: 876-944). `told` is the set of devices
`inform_bss_frame` reported to.

`XrAp` numbers commands. A field of `ap_setting_info` (`ap`), of the driver's access
point (`air`) or of the wireless_dev (`wl`) holds the number of the command it is
from. `beacon` is head and tail, which `WalChangeBeacon` both keeps and hands to the
driver; `timing` is DTIM period, hidden SSID and interval, which it only keeps, so that
they reach the air with the next start. The driver was given a pointer to the global
`ap_chan`, not a copy, and may read it again after a later ConfigAp
(`DriverReadsChannel`). `since` is a history: what happened since the access point on
air was started, as `WalConfigAp` and `WalChangeBeacon` report success whatever the
driver said. Another client's command may come between the three calls of a set-AP.
Its `WalChangeBeacon` then leaves its own buffer in `ap_setting_info`, in a message
(not in `msgs`) that is freed before `WalStartAp` reads it; `StartApReadsLive` says
that this is the only way the buffer can be gone.

| action | code |
|---|---|
| `Xr829Init` and its failures, `Xr829Deinit` | `hdfinit_xr829.c`, `hdf_netdev_init` |
| `NdoOpen`, `OpenReturns`, `NetdevStop` | `hdf_netdev_open`, `hdf_netdev_stop` |
| `ScanRejected`, `ScanRefused`, `ScanStarted`, `WalAbortScan` | `WalStartScan` by the way it ends, `WalAbortScan` |
| `InformBssFrame`, `ScanDone` | `inform_bss_frame`; the driver's end of a scan |
| `WalGetHwCapability` (`NoMemory`), `ReleaseCapability` | the capability and its release |
| `WalConfigAp`, `SetApBeacon`, `ChangeBeaconCommand`, `WalStartAp`, `WalStopAp`, `WalSetMode` | the operations of these names |
| `DriverReadsChannel` | external: `chandef.chan`, a pointer to `ap_chan` |

Assumed of what is outside the repository: the framework scans only with a device
that was opened, detaches a device in no command, and runs ConfigAp, ConfigBeacon
and StartAp in this order for one message; a driver that is unloaded ends its scan
and its access point; it takes one scan at a time.

### Ahub, Ac107, CapturePath

`ahub` and `ac` are records of the register fields that decide whether, at
which rate and in which format samples arrive. The clock arithmetic is that of
the code, in Hz; a divisor register holds a position in the divisor table. The
actions of `CapturePath` are the operations of the hub's DAI, each the hub's
part and then the AC107's: `T507AhubDeviceInit`, `T507AhubDaiHwParams` with
its failures (`HwParamsRejected` and `HwParamsPllRefused` before anything changed,
`HwParamsModuleRefused` after the PLL moved), `T507AhubDaiTrigger` for each of the
four commands, `AccessoryHwParams` and `AccessoryTrigger` (the repetition), and
`WriteControl`. `cfg`, `fresh` and `cmd` are history variables: the parameters
the path should hold, whether no pause came since, and the last command. `Live` is
the whole chain: AC107 powered, clocked and transmitting, master clock running, hub
receiving. `Started` is less: both ends are switched on, with or without power and
clocks. I2C transfers succeed; the code ignores their errors.

### CodecDac

`dac` has the register fields and the two clock rates, `kctl` is
`g_KctrlRender`. HwParams has one action per exit, because a stage that fails
leaves the earlier stages done. `SetCtrlOps` is `store`, `load`, `write` for the
left and, if it passes its check, the right value, so that stream operations
interleave with it. The rate code of a rate the table lacks is any of the
eight values of the field: the search reads one past the table.

### AudioStream

What the framework may rely on, without registers: the parameters `asked` for, the
`setup` the hardware has and whether sound `flow`s: `on`, `off`, or `idle`, which is
started but not powered and clocked. A HwParams that succeeds sets all parameters at
once and turns an idle stream on, one that fails leaves no setup and neither starts nor
stops the sound, a start changes no parameter and sounds if there is a setup.
`CapturePath` and `CodecDac` implement it with `setup` and `flow` computed from the
registers. For capture `on` is `Live`; a start before HwParams, or a resume after the
pause that reset the AC107, is `idle`. A path with only one end switched on, or whose
ends differ, maps to no state of `AudioStream`. The rates a converter lacks are outside
`Exact`, where `setup` may be another rate.

### AudioCard

`CapturePath` and `CodecDac` are instantiated over one variable `pll`. HwParams of
either stream goes to hub, AC107, codec and DMA in the framework's order and stops
at the first failure; what the earlier components did stays. Triggers may come at any
time. `open` is a history: the parameters of the last HwParams that every component
took. A call that is rejected before it changed anything leaves it (and is no step of
the model where nothing changes at all), one that fails half-way ends it
(`HalfFailed`), whether the stream runs or not. The components accept different widths:
hub 16, 24, 32; codec 16, 24; DMA 8, 16, 32. A width of 24 bits is programmed into both
ends and refused by the DMA: a stream that is running goes on with registers and DMA
width that differ, and its caller has been told that HwParams failed. Hub and codec program the PLL to
98.304 or 90.3168 MHz (the codec uses half of it as its module clock), for the rates of the 48 kHz and of the 44.1 kHz family. So a second stream
of the same family leaves the first alone (`RatesHold`), and one of the other family
detunes a stream that is running: nothing in the drivers prevents it, and nothing in
the repository says it may not happen.

### AudioDma

`virt`, `heap`, `size`, `frame` are the buffer descriptions and the memory
behind them; `queued`, `active`, `residue` are the dmaengine's (external);
`fw` is the call order of the HDF audio framework (external), which the code
relies on: parameters before submit, stop before free.

A channel request may return NULL (channel 0), which `T507AudioDmaDeviceInit` does not
notice. `dmaengine_slave_config` dereferences the channel: HwParams of such a stream
does not return, and the stream is `dead`. When both streams are, nothing more happens.
`dmaengine_terminate_async` does not wait, and nothing in the code does: the buffer of a
transfer that was terminated stays in `ending` until the engine comes to the end of its
last burst (`BurstEnds`), and if it is freed before that, the burst is `astray`, over
memory that may have been allocated again.

`T507AudioDmaBufFree` frees a buffer and leaves `virtAddr` set; `FrameworkClears` says
whether the caller clears it. With `FALSE`, TLC finds `BufferLedger` and
`DmaTouchesOwnBuffer` violated: the next HwParams keeps the freed buffer. The other
properties do not depend on it. The run has `TRUE`.

### AudioProbe, Ac107Probe

An init function is a table: what each of its `steps` acquires, the position in
the list of releases (`undo`) that each jumps to when it fails (`labels`), and the
label of the probe function it then ends at (`outer`). So a wrong label in the code
is a wrong number in the table. What is released from a label on is a function on
positions (`From`), or on pairs of a group and a position in it (`FallThrough`), of
which `Times` counts how often it names a resource. `held` counts each resource; the audio PLL's outputs are counted
for both drivers together. `snd_sunxi_codec_clk_enable` undoes its work and
returns 0 (`ClkEnableFails`). The step of the hub that reads device tree
parameters cannot fail and acquires nothing, so it is not in the table.

`Ac107Probe` has the flag `ac107_regulator_en`, which survives removes: the first
probe sets up supplies and reset line, later ones skip them. After a first probe
that failed at the second supply, the next one skips that supply and the reset
line as well (`ProbeAgain`).

## Runs

| run | shows | bounds |
|---|---|---|
| `sta_connects` | all station properties, among them that a buffer handed to the driver is freed in the end; 863 000 states | 3 Connects: a Connect, the one that supersedes it, and one that supersedes that while the first two answers are still out. 1 channel, which may be disabled meanwhile, and no frequency at all |
| `sta_channel` | violation: a Connect without frequency searches one arbitrary channel | 3 Connects, and 2 channels so that one may be the wrong one |
| `wifi_device` | device pointers, scan memory and access point settings, 408 000 states | 3 devices: one that failed or was freed, the one that follows, and another; 2 allocating calls: one that leaves memory and one that frees; 3 commands: a set-AP, a change in between and a set-AP again |
| `capture` | hub and AC107 agree and are switched together; controls survive; the path is an `AudioStream` | every accepted rate and a refused one, every width, 1 and 2 channels, 2 control values |
| `capture_resume` | violation: resume does not make the AC107 transmit | as above |
| `codec_render` | codec registers, output and volume; the DAI is an `AudioStream` | every accepted rate, at two of them every width and channel count, 2 volumes, one control thread |
| `codec_rate` | violation: three accepted rates get an arbitrary rate code | every combination |
| `dma_buffers` | buffer ledger, channels, engine and pointer of both streams, 92 000 states | 3 addresses (two streams and a free one), buffer of 1 and 4 bytes, frames of 1 and 2, 3 channels handed out (one by a failed attempt), any request refused |
| `probe_ledger` | releases of every probe path, PLL count | no bound on probes; at most 2 failed clock enables, after which counts repeat |
| `probe_clocked` | violation: codec bound with its clocks off | 1 failed enable |
| `audio_card` | two streams on one PLL, widths of all components, 371 000 states | two rates of one family and one of the other; 16 bits, which all components take, and at 48 kHz 8, 24 and 32, so that each component refuses one; controls and control threads left to `capture` and `codec_render` |
| `ac107_supplies` | supplies taken once over any number of probes | none |

The counters that are bounded (`MaxConnects`, `MaxRequests`, `MaxClkFaults`,
`MaxLives`, `MaxCalls`, `MaxCmds`) stop the modelled environment from asking again;
no handler's guard depends on them in the code. Deadlock is checked in all runs but
two: in `wifi_device` the environment stops once its devices, calls and commands are
used up, in `dma_buffers` both streams may be dead.

Fairness is assumed in one place. `auth()` and `assoc()` are calls of kernel
functions that return, so `WifiSta!DriverReturns` is weak fairness of their returning:
`AuthReturns \/ AuthFails` and `AssocReturns`. Clients need not connect or
disconnect and an access point need not answer, so these have none. The liveness
stated is `HandedIsFreed`. A Connect whose answer never comes keeps its buffer until
the next Connect; the code has no timeout that would say otherwise.
The other components finish each operation in the call that started it: they wait
for nothing.

### Properties

*Station.* All of these hold with the threads interleaved at every driver call.
`IeLedger`: the allocated buffer is the one `ie` points to. `OneConnect`: an
association, whichever answer started it, is the request of one Connect. Two things in
it may be amiss, and the property says when: the crypto settings are another Connect's
only if that Connect failed (`kzalloc` returns NULL after the first fields were
written, and a late answer to an earlier Connect associates with the mixed record); the
information elements are missing only if the Connect failed, was associated before or
was made while another association was running, whose end drops the buffer of the
record whoever put it there. `IeUsedOnce`: no buffer goes to `assoc()` twice.
`DriverBufferLive`: the buffer `assoc()` reads goes only when a later Connect is made or
the Connect's own `auth()` fails after its answer came. `AssocIsComplete`: with a driver
that answers once and in time, an association carries exactly the parameters of the
Connect that was answered, unless that one was made under another association; with
late answers it carries those of a later one, by design of the code (the callback does
not look at the BSSID).
`HandedIsFreed`: a buffer handed to `assoc()` is freed eventually, when `assoc()`
returns or by a Connect that came in between; it never waits for a further Connect.

*Device, scan, access point.* `FrameFindsDevice`: a frame delivered outside
`hdf_netdev_open` finds the attached device, and the operations act on its kernel
device. `EveryBlockHasOneOwner`: no memory is freed twice or while in use, and the
only memory nobody has is that of rejected scans. `ResultsFindAsker`: results go to
the device that asked. `ApOfOneCommand`: SSID and channel on air are of one command
until another overwrites `ap_chan`; timing and beacon are of that or a later one.
`SettingsOnAir`: settings and air differ in SSID and channel only after a set-AP command
that did not start, in timing after any change of the beacon, accepted or not, and in
the beacon after a refused one. `StartApReadsLive`: StartAp finds its own preset channel,
and its own beacon in a message that is still allocated unless another client changed
the beacon meanwhile.

*Capture.* `EndsAgree`: after a successful HwParams, whatever failed before, wire
rate and converter rate are the one asked for, the master clock is 12.288 or
11.2896 MHz, frame, format, width and channels are equal. For 64, 88.2, 96, 176.4
and 192 kHz, which the hub accepts and the AC107 lacks, the converter keeps an
earlier rate and HwParams reports success; the property is about the others.
`RunningIsLive`: started with its parameters set, the whole chain is on.
`HaltedIsSilent`: halted, no transmitter and no DMA request is.
`ControlsSurvive`: no stream operation changes a control. `ImplementsStream`: the
path implements `AudioStream`, so its ends are never switched one without the other,
never half set up, and `on` only while the AC107 is powered and clocked.

*Render.* `DacPlaysAsAsked`: clocks, code, width and mono switch fit the last
accepted parameters. `OutputFollowsTrigger`: route and DMA request follow the
trigger. `VolumeCoherent`: the line-out register holds the volume or, muted, 0.
Two control requests in parallel break it (store of one, load of the other,
late write of the first): the code has no lock, and the repository does not say
whether the framework has one. `ImplementsStream`: as for capture, with volume and
mute settings in between.

*Card.* `RatesHold`: each stream runs at its rate as long as the last move of the
PLL was for a rate of its family. `OpenAgrees`: as long as no HwParams has failed
half-way, the width in the DAI registers and in the DMA is that of the last HwParams
that succeeded, through rejected calls, starts, stops and pauses. The AC107, which a
stop or pause resets, has that width whenever it transmits.

*DMA.* `BufferLedger`: the allocated buffers are those the two streams point to, one
each. `EngineAgrees`: the engine has one descriptor of a stream while it is submitted
or running, none otherwise. `DmaTouchesOwnBuffer`: that descriptor, and the last burst
of a terminated transfer, lie in the stream's present buffer; the one exception, a
burst not over when the buffer is freed, is in `astray`. `ChannelsApart`: what a stream
has in the engine is on a channel granted to it alone. `PointerInBuffer`: the position
reported is inside the buffer.

*Probes.* `UnboundHoldsNothing`, `BoundHoldsAll`: an unbound driver holds nothing
and a bound one everything, after any failed step. `PllCounted`: the counts of the
PLL outputs are those of the drivers bound. `SuppliedOnce`, `FlagIsLedger`: supplies
are enabled once over any number of probes, and the flag says so.

### Disagreements found

- `sta_channel`: `hdf_mac80211.c:70-72` says the channel "is automatically
  obtained from the scan result" when none is given; the code searches on an
  uninitialised one.
- `capture_resume`: `CAPTURE_PAUSE` restores the defaults of all registers but the
  controls; `CAPTURE_RESUME`, "AC107 TX enable, Globle enable", sets two bits of a
  chip without power and clocks.
- `codec_rate`: 64, 88.2 and 176.4 kHz are accepted and missing in
  `g_sample_rate_conv`; the loop's index is used one past the end.
- `probe_clocked`: `snd_sunxi_codec_clk_enable` returns 0 on failure, so the check
  "clk enable failed" of its caller never fires, and the remove disables clocks,
  the PLL shared with the hub among them, that this driver had not enabled.

## Proofs

`WifiStaProofs` proves, for any set of channels and any number of Connects, the
six safety properties of `sta_connects` (from `Spec`, without fairness): `TypeCorrect`,
`Ledger`, `Coherence`, `LiveWhileInDriver`, `UsedOnce`, `Complete`. Assumptions are
those of the module: `MaxConnects` is a positive natural, the sentinels are not channels
(`StaAssumption`), and `Idle` is not a request (`IdleAssumption`).

The argument. None of the properties is inductive: what an association lacks depends on
what befell the record it is read from, and that a buffer is never used twice depends on
every used buffer being gone from the record except during its own `assoc()`. `Latest`
says what the record is: that of the latest Connect, but for the crypto settings of one
that failed; its buffer is missing only after a failure, an association of this Connect
or one that was running when it was made; a used buffer in it is the one being read.
`IInv == TypeOK /\ IeLedger /\ OneConnect /\ DriverBufferLive /\ Latest` is inductive
(`InvInit`, `InvStep`, one step per action). `Orderly` holds relative to it (when answers
come once and in time, an outstanding answer to the latest Connect means the record is
complete or was crossed; an association in progress means its answer is not
outstanding) and gives `AssocIsComplete`.

`WifiDeviceProofs` proves the seven properties of `wifi_device`, for any number of
devices, calls and commands. `NetInv` adds to the types what the two globals point to:
`krn` to the attached device from its Init on, `gp` from its first open on, which is
why a scan, allowed on opened devices only, reports to the right one. `ScanInv` adds
to the ledger that blocks are numbered by the calls made (`Fresh`; so the pieces of
the next call are new) and that a scan in progress belongs to the attached device
(`Scans`). `ApInv` says where a set-AP command stands: SSID and preset channel are its
own, its message is allocated, the beacon it starts with is not older than it
(`Settings`). `BeaconIsLive` needs this and nothing about how commands interleave.

`AudioDmaProofs` proves the six properties of `dma_buffers` for any addresses,
sizes, frames and number of channel requests. `BuffersOwned` and `OwnBuffer` are under
`ASSUME FrameworkClears` (the framework sets `virtAddr` to NULL after it freed a
buffer), without which they are false; the other four need no such assumption. `IInv`
relates the framework's call order, which decides whether a stream has a buffer
(`OpenHasBuffer`), to the contents of the engine's queue (`Engine`). `Channels` says
that channels are handed out in order and once, `HeldChannel` that a stream past its
configuration, or with a burst to come, has one; `Bursts` that such a burst is over the
stream's present buffer, as a free moves it to `astray`.

`CodecDacProofs` proves the five properties of `codec_render` for any parameters,
volumes and, but for the volume, any number of control threads. The arithmetic is in
`CodeFits` and `CodePlays`: for each rate of the table, the code found and the clock
set give that rate. `IInv` is the types of the registers (`Registers`), the form of
a control job in progress (`Threads`) and the two safety properties themselves.
`VolumeCoherent` is proved for one control thread (`Setters = {t}`); its invariant
`Volume(t)` says what the register holds at each point of a setting. That the DAI
implements `AudioStream` follows action by action from `IInv`: a HwParams is `Prepare`
or `Spoil`, a trigger `Start` or `Halt`, a control step stutters.

`CapturePathProofs` proves the six properties of `capture` for any parameters of the
widths and channel counts the drivers know, and any control values. `RatioFound`,
`RateFound` and `Exactly` are about the tables: a supported ratio has a code, the
nine rates of the AC107 have theirs, and for these nine the divisions leave no
remainder. `Holds` says that hub and AC107 hold the parameters of the last HwParams
that succeeded, register by register and with the AC107 powered, as long as the path is
configured, and `Follows` that both follow the last trigger; neither `RunningIsLive` nor `EndsAgree` is inductive without the other half.
The refinement of `AudioStream` is proved as for the codec; `flow` is a function of
command and `Live` (`FlowIs`), and a HwParams that succeeds is what turns an idle path on
(`Alive`).

`AudioCardProofs` proves `RatesHold` and `OpenAgrees` for any parameters. `IInv` follows
a setting through the card: once either stream has parameters the PLL is where the
latest HwParams put it (`Clocked`); the codec's rate code is that of a row with the
stream's rate (`Rendered`); the hub's divisor is the one for the capture rate and both
ends have its width (`Captured`); parameters that every component took stand in hub,
codec and DMA, and in the AC107 while it is powered, as every reset takes its power away
(`Opened`). `HubExact` and `CodecExact` do the arithmetic: for all 14
rates the hub accepts and all 11 of the codec's table, the divisions leave no
remainder. Here capture's rates are all those the hub accepts, since it is the hub
that paces the wire.

`Ac107ProbeProofs` proves the three properties of `ac107_supplies`; `Counts` says that
a supply is counted at most once and only if it is flagged, so the one probe that sets
supplies up starts from zero counts.

`AudioProbeProofs` proves the four properties of `probe_ledger`, for any number of
clock failures that `clk_enable` hides. First the tables. `Mirrored` says that behind
a step that acquired something the label stands one release further up, at the release
of just that, and behind any other step at the same one; `UndoesAll` follows the steps
(an induction written out, as no table has more than seven) and concludes that what is
released from a step's label is what the steps before it acquired. As no list names a resource twice
(`Once`), a count is a membership (`TimesOnce`), and `LaddersUndo` follows: a failing
init function leaves every count as it found it. Its hypothesis is checked on each of
the eight functions (`RegulatorTable` and the lemmas after it). Then the ledger.
`UnboundHoldsNothing` is not inductive: that a jump releases what it should depends on
what the functions before it took. `Stage(d, q)` is what function *q* acquires, `Owns`
what the stages so far add up to, and `IInv == TypeOK /\ OwnLedger /\ ClockLedger` says
that each private resource is held once if owned and not otherwise, and how often the
PLL outputs are. The stages are disjoint (`StagesApart`), so a function that succeeds
adds its stage (`Gains`); what the probe's labels and the removes release is what is
owned up to what the driver core frees (`ProbeReleases`, `RemoveReleases`), so nothing
is left (`Loses`). After a hidden failure the PLL counts have no exact value any more,
and the codec's own clock may be on or off: `ClockLedger` keeps what remains true, that
a driver which is not past its enabling step holds no clock of its own.

Assumptions of the proofs are the named `ASSUME`s of the modules, which TLC evaluates
in the runs, and the two said above.

Only model-checked: the liveness property `HandedIsFreed` (it needs `ENABLED` and
fairness, out of the prover's reach) and the four violations, which are
counterexamples.

## Not modelled, and why

Of the base operations, the keys, MAC address and power pass their arguments to the
driver; the P2P operations are written and never installed. `WalDelStation`, the
country code, transmission and most of event forwarding copy or pass on and keep no
state, like DSP. The release of the chip factory (`ReleaseXr829Driver` in
`hdf_driver_register.c`) returns before it frees anything. Neither the interleaving
of straight-line code in the Wi-Fi threads nor failing I2C transfers are modelled;
the probes are not composed with the operations of a bound driver. The sysfs diagnosis
files of hub, codec and AC107 and the raw register writes of hub and codec
(`T507AhubDeviceWriteReg`, `T507CodecDeviceWriteReg`) write any register as they are
told, past the operations modelled; a register written that way is outside the models. Register layouts, I2C transport and the contents of
frames are abstracted. Camera tables, board configuration and packages are data.
Reference counts of device nodes (`of_node_put` in the probes) and sizes of
structures are below the models. The HDF framework, mac80211, the dmaengine and the
clock framework are not in the repository; they appear as far as the code uses them
and are marked external in `PROJECT.json`.

## Plan

Done: the station with its liveness, device, scan and access point in one module,
the audio paths, their abstract stream, the card, and proofs of every safety property
of all passing runs. Left, in this order:

1. The four HDF driver entries (Bind, Init, Release) above `AudioCard`, with
   `AudioDma` for the transfer and the probes below, so that an operation after a
   remove becomes a behaviour of the model (`g_ahub_pdev`, `g_codec_pdev`).
2. `WifiSta` at the grain of single assignments.
3. Failing I2C transfers of the AC107 (`ac107_update_bits` writes back what it failed
   to read).
